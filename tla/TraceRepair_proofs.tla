-------------------------- MODULE TraceRepair_proofs --------------------------
(***************************************************************************)
(* For a trace of any length and any names: when the last step is not      *)
(* null, the repaired file has a comma between any two steps and none at   *)
(* the end; and whatever steps are null, all the others are in it, with    *)
(* the right numbers in their fields and keys.                             *)
(***************************************************************************)
EXTENDS TraceRepair, SequenceTheorems, TLAPS, WellFoundedInduction

\* A set of numbers that is not empty has a least one.
LEMMA LeastOfNats ==
  ASSUME NEW T \in SUBSET Nat, T # {}
  PROVE  \E k \in T : \A m \in T : k <= m
<1>1. PICK k \in T : \A m \in T : ~(<<m, k>> \in OpToRel(<, Nat))
  BY NatLessThanWellFounded, WFMin
<1>2. ASSUME NEW m \in T PROVE k <= m
  <2>1. m \in Nat /\ k \in Nat
    OBVIOUS
  <2>2. m < k => <<m, k>> \in OpToRel(<, Nat)
    BY <2>1 DEF OpToRel
  <2>3. ~(m < k)
    BY <1>1, <2>2
  <2> QED
    BY <2>1, <2>3
<1> QED
  BY <1>2

\* A set that has 0 and with every number below n the next one has all up to n:
\* there is no least one outside of it.
LEMMA Upwards ==
  ASSUME NEW n \in Nat, NEW T, 0 \in T, \A k \in 1..n : k - 1 \in T => k \in T
  PROVE  \A k \in 0..n : k \in T
<1> SUFFICES ASSUME NEW k \in 0..n, k \notin T PROVE FALSE
  OBVIOUS
<1> DEFINE rest == {m \in 0..n : m \notin T}
<1>1. rest \in SUBSET Nat /\ rest # {}
  OBVIOUS
<1>2. PICK m \in rest : \A l \in rest : m <= l
  BY <1>1, LeastOfNats
<1>3. m \in 1..n /\ m - 1 \in 0..n
  BY <1>2
<1>4. m - 1 \in T
  BY <1>2, <1>3
<1> QED
  BY <1>2, <1>3, <1>4

\* f takes the steps from start on.
Stepping(f, S, start, n, step) ==
  f \in [0..n -> S] /\ f[0] = start /\ \A k \in 1..n : f[k] = step[k][f[k - 1]]

\* A start and a step for every number up to n make a function.
LEMMA StepByStep ==
  ASSUME NEW S, NEW start \in S, NEW n \in Nat, NEW step \in [1..n -> [S -> S]]
  PROVE  \E f : Stepping(f, S, start, n, step)
<1> DEFINE Good(m, f) ==
      f \in [0..m -> S] /\ f[0] = start /\ \A k \in 1..m : f[k] = step[k][f[k - 1]]
    T == {m \in 0..n : \E f : Good(m, f)}
<1>1. 0 \in T
  <2>1. Good(0, [k \in 0..0 |-> start])
    OBVIOUS
  <2>2. 0 \in 0..n
    OBVIOUS
  <2> HIDE DEF Good
  <2> QED
    BY <2>1, <2>2
<1> HIDE DEF Good
<1>2. ASSUME NEW l \in 1..n, l - 1 \in T PROVE l \in T
  <2> DEFINE m == l - 1
  <2>1. m \in Nat /\ m <= n /\ m + 1 \in 1..n /\ m + 1 = l
    OBVIOUS
  <2>2. PICK f : Good(m, f)
    BY <1>2
  <2> HIDE DEF m
  <2> DEFINE g == [k \in 0 .. m + 1 |-> IF k = m + 1 THEN step[m + 1][f[m]] ELSE f[k]]
  <2>3. step[m + 1][f[m]] \in S
    BY <2>1, <2>2 DEF Good
  <2>4. g \in [0 .. m + 1 -> S] /\ g[0] = start
    BY <2>1, <2>2, <2>3 DEF Good
  <2>5. ASSUME NEW k \in 1 .. m + 1 PROVE g[k] = step[k][g[k - 1]]
    <3>1. CASE k = m + 1
      BY <2>1, <3>1
    <3>2. CASE k # m + 1
      <4>1. k \in 1..m /\ k - 1 \in 0..m /\ g[k] = f[k] /\ g[k - 1] = f[k - 1]
        BY <2>1, <3>2
      <4> QED
        BY <2>2, <4>1 DEF Good
    <3> QED
      BY <3>1, <3>2
  <2> HIDE DEF g
  <2>6. Good(l, g)
    BY <2>1, <2>4, <2>5 DEF Good
  <2> QED
    BY <2>6
<1> HIDE DEF T
<1>3. n \in T
  <2>1. \A k \in 1..n : k - 1 \in T => k \in T
    BY <1>2
  <2>2. \A k \in 0..n : k \in T
    BY <1>1, <2>1, Upwards
  <2> QED
    BY <2>2
<1> QED
  BY <1>3 DEF T, Good, Stepping

\* What a step of the new file is.  The keys are left as they come.
Entries ==
  [comma: BOOLEAN, step: Nat,
   keys: [Names -> {NewKey(x, s, n) : x \in Names, s \in Nat, n \in Nat}],
   values: SUBSET Names]

Shape ==
  /\ traces = Unreadable \/ traces \in Seq(Steps)
  /\ stepIterator \in Nat /\ expectedStep \in Nat
  /\ out \in Seq(Entries)
  /\ pc \in {"load", "steps", "closed"}

\* Steps are to come exactly in the loop.
Place ==
  /\ pc = "load" => stepIterator = 0
  /\ pc = "steps" => traces # Unreadable /\ stepIterator < Len(traces)

\* As long as steps are to come every step written has a comma; of the finished
\* file only the last has none, if it was the last of the file read.
Commas ==
  /\ pc # "closed" => \A n \in DOMAIN out : out[n].comma
  /\ (pc = "closed" /\ traces \notin {Unreadable, << >>}
        /\ traces[Len(traces)] # Null) => WellFormed

IInv == Shape /\ Place /\ Commas

\* Unreadable is not a trace: one that can be read is a sequence.
LEMMA Readable ==
  ASSUME Shape, traces # Unreadable
  PROVE  traces \in Seq(Steps) /\ Len(traces) \in Nat
BY DEF Shape

LEMMA WrittenIsEntry ==
  ASSUME Shape, NEW comma \in BOOLEAN
  PROVE  Written(comma) \in Entries /\ Written(comma).comma = comma
<1>1. [x \in Names |-> NewKey(x, stepIterator, expectedStep)]
        \in [Names -> {NewKey(x, s, n) : x \in Names, s \in Nat, n \in Nat}]
  BY DEF Shape
<1> HIDE DEF NewKey
<1> QED
  BY <1>1 DEF Written, Entries, Shape

LEMMA InitIInv == Init => IInv
<1> SUFFICES ASSUME Init PROVE IInv
  OBVIOUS
<1>1. Shape
  <2>1. traces = Unreadable \/ \E n \in Nat : traces \in [1..n -> Steps]
    BY StepsAssumption DEF Init
  <2>2. traces = Unreadable \/ traces \in Seq(Steps)
    BY <2>1
  <2> QED
    BY <2>2 DEF Init, Shape
<1>2. Place /\ Commas
  BY DEF Init, Place, Commas
<1> QED
  BY <1>1, <1>2 DEF IInv

LEMMA StepIInv == IInv /\ [Next]_vars => IInv'
<1> SUFFICES ASSUME IInv, [Next]_vars PROVE IInv'
  OBVIOUS
<1> USE DEF IInv
<1>1. CASE Load
  <2>1. Shape'
    BY <1>1 DEF Load, Shape
  <2>2. Place'
    BY <1>1 DEF Load, Shape, Place
  <2>3. Commas'
    BY <1>1 DEF Load, Commas
  <2> QED
    BY <2>1, <2>2, <2>3
<1>2. CASE SkipStep
  <2>1. traces \in Seq(Steps) /\ stepIterator < Len(traces) /\ Len(traces) \in Nat
    BY <1>2, Readable DEF SkipStep, Place
  <2>2. Shape'
    BY <1>2 DEF SkipStep, Shape
  <2>3. Place'
    BY <1>2, <2>1 DEF SkipStep, Shape, Place, IsEnd
  <2>4. Commas'
    <3>1. IsEnd => traces[Len(traces)] = Null
      BY <1>2, <2>1 DEF SkipStep, IsEnd, Step
    <3> QED
      BY <1>2, <3>1 DEF SkipStep, Commas
  <2> QED
    BY <2>2, <2>3, <2>4
<1>3. CASE WriteStep
  <2>1. traces \in Seq(Steps) /\ stepIterator < Len(traces) /\ Len(traces) \in Nat
    BY <1>3, Readable DEF WriteStep, Place
  <2> DEFINE entry == IF IsEnd THEN Written(FALSE) ELSE Written(TRUE)
  <2>2. entry \in Entries
    BY WrittenIsEntry
  <2>3. (IsEnd => entry.comma = FALSE) /\ (~IsEnd => entry.comma = TRUE)
    BY WrittenIsEntry
  <2>4. out' = Append(out, entry)
    BY <1>3 DEF WriteStep
  <2> HIDE DEF entry
  <2>5. Shape'
    BY <1>3, <2>2, <2>4 DEF WriteStep, Shape
  <2>6. Place'
    BY <1>3, <2>1 DEF WriteStep, Shape, Place, IsEnd
  <2>7. /\ Len(out') = Len(out) + 1 /\ Len(out) \in Nat /\ DOMAIN out' = 1 .. Len(out) + 1
        /\ \A n \in 1 .. Len(out) : out'[n].comma = TRUE
        /\ out'[Len(out) + 1] = entry
    <3>1. out \in Seq(Entries) /\ \A n \in DOMAIN out : out[n].comma = TRUE
      BY <1>3 DEF Shape, Commas, WriteStep, Entries
    <3> QED
      BY <2>2, <2>4, <3>1
  <2>8. Commas'
    <3>1. CASE IsEnd
      <4>1. ASSUME NEW n \in DOMAIN out' PROVE out'[n].comma = (n # Len(out'))
        <5>1. CASE n = Len(out')
          BY <2>3, <2>7, <3>1, <5>1
        <5>2. CASE n # Len(out')
          <6>1. n \in 1 .. Len(out)
            BY <2>7, <5>2
          <6> QED
            BY <2>7, <5>2, <6>1
        <5> QED
          BY <5>1, <5>2
      <4>2. pc' = "closed"
        BY <1>3, <3>1 DEF WriteStep
      <4> QED
        BY <4>1, <4>2 DEF Commas, WellFormed
    <3>2. CASE ~IsEnd
      <4>1. \A n \in DOMAIN out' : out'[n].comma
        BY <2>3, <2>7, <3>2
      <4>2. pc' = "steps"
        BY <1>3, <3>2 DEF WriteStep
      <4> QED
        BY <4>1, <4>2 DEF Commas
    <3> QED
      BY <3>1, <3>2
  <2> QED
    BY <2>5, <2>6, <2>8
<1>4. CASE Closed \/ UNCHANGED vars
  BY <1>4 DEF Closed, vars, Shape, Place, Commas, WellFormed
<1> QED
  BY <1>1, <1>2, <1>3, <1>4 DEF Next

\* Nulls before the last step of a trace (fixNullsInJSON) leave the commas of
\* the new file right, however many there are: the comma goes by the place in
\* the old file, the number by the place in the new one.
THEOREM NullsInside == Spec => []Separated
<1>1. IInv => Separated
  BY DEF IInv, Commas, Separated
<1> QED
  BY InitIInv, StepIInv, <1>1, PTL DEF Spec

-------------------------------------------------------------------------------
\* The steps written are those of the steps worked through, all of them once the
\* file is closed.
Worked ==
  traces # Unreadable =>
    /\ stepIterator <= Len(traces)
    /\ KeptOf(stepIterator)
    /\ pc = "closed" => stepIterator = Len(traces)
    /\ pc = "load" => out = << >>

KInv == IInv /\ Worked

LEMMA EmptyKept == out = << >> /\ stepIterator = 0 => KeptOf(stepIterator)
<1> SUFFICES ASSUME out = << >>, stepIterator = 0 PROVE KeptOf(0)
  OBVIOUS
<1> DEFINE place == [n \in 1 .. Len(out) |-> 1]
<1>1. 1 .. Len(out) = {} /\ 1..0 = {}
  OBVIOUS
<1>2. place \in [1 .. Len(out) -> 1..0]
  BY <1>1
<1> HIDE DEF place
<1> QED
  BY <1>1, <1>2 DEF KeptOf

\* A null adds nothing.
LEMMA SkipKeeps ==
  ASSUME IInv, Worked, SkipStep
  PROVE  KeptOf(stepIterator)'
<1>1. /\ traces \in Seq(Steps) /\ stepIterator \in Nat
      /\ out' = out /\ traces' = traces /\ stepIterator' = stepIterator + 1
      /\ traces[stepIterator + 1] = Null /\ KeptOf(stepIterator)
  BY Readable DEF IInv, Shape, Place, SkipStep, Step, Worked
<1>2. PICK place \in [1 .. Len(out) -> 1 .. stepIterator] :
        /\ \A j, k \in 1 .. Len(out) : j < k => place[j] < place[k]
        /\ \A k \in 1 .. stepIterator :
             traces[k] # Null => \E n \in 1 .. Len(out) : place[n] = k
        /\ \A n \in 1 .. Len(out) :
             /\ traces[place[n]] # Null
             /\ out[n].values = {x \in Names : traces[place[n]][x] # Null}
  BY <1>1 DEF KeptOf
<1>3. 1 .. stepIterator \subseteq 1 .. stepIterator + 1
  BY <1>1
<1>4. place \in [1 .. Len(out) -> 1 .. stepIterator + 1]
  BY <1>3
<1>5. \A k \in 1 .. stepIterator + 1 :
        traces[k] # Null => \E n \in 1 .. Len(out) : place[n] = k
  <2> TAKE k \in 1 .. stepIterator + 1
  <2>1. k = stepIterator + 1 \/ k \in 1 .. stepIterator
    BY <1>1
  <2> QED
    BY <1>1, <1>2, <2>1
<1> QED
  BY <1>1, <1>2, <1>4, <1>5, SMTT(20) DEF KeptOf

\* Any other step is written behind the others.
LEMMA WriteKeeps ==
  ASSUME IInv, Worked, WriteStep
  PROVE  KeptOf(stepIterator)'
<1> DEFINE entry == Written(~IsEnd)
           m == stepIterator + 1
           last == Len(out) + 1
<1>1. /\ traces \in Seq(Steps) /\ stepIterator \in Nat /\ out \in Seq(Entries)
      /\ out' = Append(out, entry) /\ traces' = traces /\ stepIterator' = m
      /\ traces[m] # Null /\ KeptOf(stepIterator)
  BY Readable DEF IInv, Shape, Place, WriteStep, Step, Worked
<1>2. entry.values = {x \in Names : traces[m][x] # Null} /\ entry \in Entries
  <2>1. entry \in Entries
    BY WrittenIsEntry DEF IInv
  <2> QED
    BY <2>1 DEF Written, Step
<1> HIDE DEF entry
<1>3. PICK place \in [1 .. Len(out) -> 1 .. stepIterator] :
        /\ \A j, k \in 1 .. Len(out) : j < k => place[j] < place[k]
        /\ \A k \in 1 .. stepIterator :
             traces[k] # Null => \E n \in 1 .. Len(out) : place[n] = k
        /\ \A n \in 1 .. Len(out) :
             /\ traces[place[n]] # Null
             /\ out[n].values = {x \in Names : traces[place[n]][x] # Null}
  BY <1>1 DEF KeptOf
<1> DEFINE longer == [n \in 1 .. last |-> IF n = last THEN m ELSE place[n]]
<1>4. /\ Len(out) \in Nat /\ Len(out') = last
      /\ \A n \in 1 .. Len(out) : out'[n] = out[n]
      /\ out'[last] = entry
  BY <1>1, <1>2
<1>5. /\ longer \in [1 .. last -> 1 .. m]
      /\ longer[last] = m
      /\ \A n \in 1 .. Len(out) : longer[n] = place[n] /\ longer[n] \in 1 .. stepIterator
  <2>1. last \in 1 .. last /\ m \in 1 .. m
    BY <1>1, <1>4
  <2>2. ASSUME NEW n \in 1 .. last, n # last
        PROVE  n \in 1 .. Len(out) /\ place[n] \in 1 .. stepIterator /\ place[n] \in 1 .. m
    <3>1. n \in 1 .. Len(out)
      BY <1>4, <2>2
    <3>2. place[n] \in 1 .. stepIterator
      BY <3>1
    <3> QED
      BY <1>1, <3>1, <3>2
  <2>3. longer \in [1 .. last -> 1 .. m]
    BY <2>1, <2>2
  <2>4. ASSUME NEW n \in 1 .. Len(out)
        PROVE  longer[n] = place[n] /\ longer[n] \in 1 .. stepIterator
    <3>1. n \in 1 .. last /\ n # last
      BY <1>4
    <3> QED
      BY <2>2, <3>1
  <2> QED
    BY <2>1, <2>3, <2>4
<1>6. \A n \in 1 .. last : n = last \/ n \in 1 .. Len(out)
  BY <1>4
<1> HIDE DEF longer
<1>7. ASSUME NEW j \in 1 .. last, NEW k \in 1 .. last, j < k
      PROVE  longer[j] < longer[k]
  <2>1. j \in 1 .. Len(out)
    BY <1>4, <1>7
  <2>2. CASE k = last
    BY <1>1, <1>5, <2>1, <2>2
  <2>3. CASE k # last
    <3>1. k \in 1 .. Len(out)
      BY <1>6, <2>3
    <3> QED
      BY <1>3, <1>5, <1>7, <2>1, <3>1
  <2> QED
    BY <2>2, <2>3
<1>8. \A k \in 1 .. m : traces[k] # Null => \E n \in 1 .. last : longer[n] = k
  <2> SUFFICES ASSUME NEW k \in 1 .. m, traces[k] # Null
               PROVE  \E n \in 1 .. last : longer[n] = k
    OBVIOUS
  <2>1. CASE k = m
    BY <1>4, <1>5, <2>1
  <2>2. CASE k # m
    <3>1. k \in 1 .. stepIterator
      BY <1>1, <2>2
    <3>2. PICK n \in 1 .. Len(out) : place[n] = k
      BY <1>3, <3>1
    <3>3. n \in 1 .. last /\ longer[n] = k
      BY <1>4, <1>5, <3>2
    <3> QED
      BY <3>3
  <2> QED
    BY <2>1, <2>2
<1>9. \A n \in 1 .. last :
        /\ traces[longer[n]] # Null
        /\ out'[n].values = {x \in Names : traces[longer[n]][x] # Null}
  BY <1>1, <1>2, <1>3, <1>4, <1>5, <1>6
<1>10. /\ longer \in [1 .. Len(out') -> 1 .. stepIterator']
       /\ \A j, k \in 1 .. Len(out') : j < k => longer[j] < longer[k]
  BY <1>1, <1>4, <1>5, <1>7
<1>11. \A k \in 1 .. stepIterator' :
         traces'[k] # Null => \E n \in 1 .. Len(out') : longer[n] = k
  BY <1>1, <1>4, <1>8
<1>12. \A n \in 1 .. Len(out') :
         /\ traces'[longer[n]] # Null
         /\ out'[n].values = {x \in Names : traces'[longer[n]][x] # Null}
  BY <1>1, <1>4, <1>9
<1> HIDE DEF m, last
<1> QED
  BY <1>10, <1>11, <1>12 DEF KeptOf

LEMMA StepWorked == KInv /\ [Next]_vars => Worked'
<1> SUFFICES ASSUME KInv, [Next]_vars PROVE Worked'
  OBVIOUS
<1> USE DEF KInv
<1>1. CASE Load
  <2>1. stepIterator = 0 /\ out' = out /\ traces' = traces /\ stepIterator' = stepIterator
    BY <1>1 DEF Load, IInv, Place
  <2>2. CASE traces = Unreadable
    BY <2>1, <2>2 DEF Worked
  <2>3. CASE traces # Unreadable
    <3>1. KeptOf(stepIterator)'
      <4>1. KeptOf(stepIterator)
        BY <2>3 DEF Worked
      <4> QED
        BY <2>1, <4>1 DEF KeptOf
    <3>2. pc' = "closed" => Len(traces) = 0
      BY <1>1, <2>3 DEF Load
    <3> QED
      BY <1>1, <2>1, <2>3, <3>1, <3>2 DEF Worked, Load
  <2> QED
    BY <2>2, <2>3
<1>2. CASE SkipStep
  <2>1. KeptOf(stepIterator)'
    BY <1>2, SkipKeeps
  <2>2. traces \in Seq(Steps) /\ stepIterator < Len(traces) /\ Len(traces) \in Nat
        /\ stepIterator \in Nat
    BY <1>2, Readable DEF SkipStep, IInv, Place, Shape
  <2> QED
    BY <1>2, <2>1, <2>2 DEF SkipStep, IsEnd, Worked
<1>3. CASE WriteStep
  <2>1. KeptOf(stepIterator)'
    BY <1>3, WriteKeeps
  <2>2. traces \in Seq(Steps) /\ stepIterator < Len(traces) /\ Len(traces) \in Nat
        /\ stepIterator \in Nat
    BY <1>3, Readable DEF WriteStep, IInv, Place, Shape
  <2> QED
    BY <1>3, <2>1, <2>2 DEF WriteStep, IsEnd, Worked
<1>4. CASE Closed \/ UNCHANGED vars
  BY <1>4 DEF Closed, vars, Worked, KeptOf
<1> QED
  BY <1>1, <1>2, <1>3, <1>4 DEF Next

\* Every step that could be integrated is in the repaired file, in its place and
\* with its values (fixNullsInJSON), however long the trace and however many
\* nulls lie between.
THEOREM NothingElseDropped == Spec => []StepsKept
<1>1. Init => KInv
  <2>1. Init => IInv
    BY InitIInv
  <2>2. Init => Worked
    <3> SUFFICES ASSUME Init, traces # Unreadable PROVE Worked
      BY DEF Worked
    <3>1. traces \in Seq(Steps)
      BY <2>1, Readable DEF IInv
    <3>2. KeptOf(stepIterator)
      BY EmptyKept DEF Init
    <3> QED
      BY <3>1, <3>2 DEF Init, Worked
  <2> QED
    BY <2>1, <2>2 DEF KInv
<1>2. KInv /\ [Next]_vars => KInv'
  BY StepIInv, StepWorked DEF KInv
<1>3. KInv => StepsKept
  BY DEF KInv, Worked, StepsKept
<1> QED
  BY <1>1, <1>2, <1>3, PTL DEF Spec

-------------------------------------------------------------------------------
\* Keys, however many parts they have

Parts == [number: BOOLEAN, len: Nat \ {0}]

KeyParts == [number: BOOLEAN, len: Nat, val: Nat]

\* What may be known of a key.
PartSeen == [prefix: Nat, step: Nat \union {NoStep}, id: Nat \union {NoStep}, read: Nat]

LEMMA NamesFacts ==
  ASSUME NEW x \in Names
  PROVE  x \in Seq(Parts) /\ Len(x) \in Nat /\ DOMAIN x = 1 .. Len(x)
BY NamesAssumption DEF Parts

\* The recursion in Length computes the sum of all parts and their underscores.
LEMMA LengthUpto ==
  ASSUME NEW x \in Seq(Parts)
  PROVE  \E upto \in [0 .. Len(x) -> Nat] :
           /\ upto[0] = 0
           /\ \A k \in 1 .. Len(x) : upto[k] = upto[k - 1] + x[k].len + 1
           /\ Length(x) = upto[Len(x)]
<1> DEFINE n == Len(x)
           body(f) == [k \in 0..n |-> IF k = 0 THEN 0 ELSE f[k - 1] + x[k].len + 1]
           longer == [k \in 1..n |-> [m \in Nat |-> m + x[k].len + 1]]
<1>1. n \in Nat /\ \A k \in 1..n : x[k].len \in Nat
  <2>1. n \in Nat /\ \A k \in 1..n : x[k] \in Parts
    OBVIOUS
  <2> QED
    BY <2>1 DEF Parts
<1> HIDE DEF n
<1>2. \E f : f \in [0..n -> Nat] /\ f = body(f)
  <2>1. longer \in [1..n -> [Nat -> Nat]]
    BY <1>1
  <2>1a. 0 \in Nat
    OBVIOUS
  <2> HIDE DEF longer
  <2>2. PICK f : Stepping(f, Nat, 0, n, longer)
    BY <1>1, <2>1, <2>1a, StepByStep
  <2>3. f \in [0..n -> Nat] /\ \A k \in 0..n : f[k] = IF k = 0 THEN 0 ELSE f[k - 1] + x[k].len + 1
    <3>1. f \in [0..n -> Nat] /\ f[0] = 0 /\ \A k \in 1..n : f[k] = longer[k][f[k - 1]]
      BY <2>2 DEF Stepping
    <3>2. ASSUME NEW k \in 1..n PROVE f[k] = f[k - 1] + x[k].len + 1
      <4>1. f[k - 1] \in Nat
        BY <1>1, <3>1
      <4> QED
        BY <3>1, <4>1 DEF longer
    <3> QED
      BY <1>1, <3>1, <3>2
  <2>4. f = body(f)
    BY <2>3
  <2> QED
    BY <2>3, <2>4
<1> DEFINE h == CHOOSE f : f = body(f)
<1>3. h = body(h)
  BY <1>2
<1>4. Length(x) = h[n]
  BY DEF Length, n
<1> HIDE DEF h
<1>5. h[0] = 0 /\ \A k \in 1..n : h[k] = h[k - 1] + x[k].len + 1
  BY <1>1, <1>3
<1>6. \A k \in 0..n : k \in {m \in 0..n : h[m] \in Nat}
  <2> DEFINE T == {m \in 0..n : h[m] \in Nat}
  <2>1. 0 \in T /\ \A k \in 1..n : k - 1 \in T => k \in T
    BY <1>1, <1>5
  <2> HIDE DEF T
  <2>2. \A k \in 0..n : k \in T
    BY <1>1, <2>1, Upwards
  <2> QED
    BY <2>2 DEF T
<1>7. h \in [0..n -> Nat]
  BY <1>3, <1>6
<1> QED
  BY <1>4, <1>5, <1>7 DEF n

\* Reading one part leaves what is known of a key well formed.
LEMMA ReadPartTyped ==
  ASSUME NEW key \in Seq(KeyParts), NEW p \in PartSeen, NEW k \in 1 .. Len(key)
  PROVE  ReadPart(key, p, k) \in PartSeen
<1>1. key[k] \in KeyParts
  OBVIOUS
<1>2. Through(key, p, k) \in Nat /\ p.read \in Nat /\ key[k].val \in Nat
  BY <1>1 DEF Through, KeyParts, PartSeen
<1>3. ReadNumber(key, p, k) \in PartSeen
  <2>1. CASE p.step = NoStep
    BY <1>2, <2>1 DEF ReadNumber, PartSeen
  <2>2. CASE p.step # NoStep /\ k = Len(key)
    BY <1>2, <2>2 DEF ReadNumber, PartSeen
  <2>3. CASE p.step # NoStep /\ k # Len(key)
    <3>1. ReadNumber(key, p, k) =
            [p EXCEPT !.prefix = p.read + 1, !.step = key[k].val, !.read = Through(key, p, k)]
      BY <2>3 DEF ReadNumber
    <3>2. p.read + 1 \in Nat /\ key[k].val \in Nat \union {NoStep}
      BY <1>2
    <3> QED
      BY <1>2, <3>1, <3>2 DEF PartSeen
  <2> QED
    BY <2>1, <2>2, <2>3
<1>4. [Unread EXCEPT !.prefix = Through(key, p, k), !.read = Through(key, p, k)] \in PartSeen
  BY <1>2 DEF Unread, PartSeen
<1> QED
  BY <1>3, <1>4 DEF ReadPart

\* parseKey reads a key part by part.
LEMMA ParseUpto ==
  ASSUME NEW key \in Seq(KeyParts)
  PROVE  \E parse : /\ parse \in [0 .. Len(key) -> PartSeen]
                    /\ parse[0] = Unread
                    /\ \A k \in 1 .. Len(key) : parse[k] = ReadPart(key, parse[k - 1], k)
                    /\ ParseKey(key) = parse[Len(key)]
<1> DEFINE n == Len(key)
           body(f) == [k \in 0..n |-> IF k = 0 THEN Unread ELSE ReadPart(key, f[k - 1], k)]
           read == [k \in 1..n |-> [p \in PartSeen |-> ReadPart(key, p, k)]]
           h == CHOOSE f : f = body(f)
<1>1. n \in Nat /\ Unread \in PartSeen
  BY DEF Unread, PartSeen
<1>2. \A k \in 1..n, p \in PartSeen : ReadPart(key, p, k) \in PartSeen
  BY ReadPartTyped
<1>3. ParseKey(key) = h[n]
  BY DEF ParseKey
<1> HIDE DEF n
<1>4. \E f : f = body(f)
  <2>1. read \in [1..n -> [PartSeen -> PartSeen]]
    BY <1>2
  <2> HIDE DEF read
  <2>2. PICK f : Stepping(f, PartSeen, Unread, n, read)
    BY <1>1, <2>1, StepByStep
  <2>3. /\ f \in [0..n -> PartSeen] /\ f[0] = Unread
        /\ \A k \in 1..n : f[k] = read[k][f[k - 1]]
    BY <2>2 DEF Stepping
  <2>4. ASSUME NEW k \in 1..n PROVE f[k] = ReadPart(key, f[k - 1], k)
    <3>1. f[k - 1] \in PartSeen
      BY <1>1, <2>3
    <3> QED
      BY <2>3, <3>1 DEF read
  <2>5. f = body(f)
    BY <1>1, <2>3, <2>4
  <2> QED
    BY <2>5
<1>5. h = body(h)
  BY <1>4
<1> HIDE DEF h
<1>6. h[0] = Unread /\ \A k \in 1..n : h[k] = ReadPart(key, h[k - 1], k)
  BY <1>1, <1>5
<1>7. \A k \in 0..n : h[k] \in PartSeen
  <2> DEFINE T == {m \in 0..n : h[m] \in PartSeen}
  <2>1. 0 \in T
    BY <1>1, <1>6
  <2>2. ASSUME NEW k \in 1..n, k - 1 \in T PROVE k \in T
    BY <1>1, <1>2, <1>6, <2>2
  <2> HIDE DEF T
  <2>3. \A k \in 0..n : k \in T
    BY <1>1, <2>1, <2>2, Upwards
  <2> QED
    BY <2>3 DEF T
<1>8. h \in [0..n -> PartSeen]
  BY <1>5, <1>7
<1> QED
  BY <1>3, <1>6, <1>8 DEF n

LEMMA KeyFacts ==
  ASSUME NEW x \in Names, NEW s \in Nat
  PROVE  /\ Key(x, s) \in Seq(KeyParts) /\ Len(Key(x, s)) = Len(x) + 2
         /\ \A k \in 1 .. Len(x) :
              Key(x, s)[k] = [number |-> x[k].number, len |-> x[k].len, val |-> 0]
         /\ Key(x, s)[Len(x) + 1] = [number |-> TRUE, len |-> 1, val |-> s]
         /\ Key(x, s)[Len(x) + 2] = [number |-> TRUE, len |-> 1, val |-> 0]
<1> DEFINE n == Len(x)
           name == [k \in 1..n |-> [number |-> x[k].number, len |-> x[k].len, val |-> 0]]
           tail == <<[number |-> TRUE, len |-> 1, val |-> s], [number |-> TRUE, len |-> 1, val |-> 0]>>
<1>1. n \in Nat /\ \A k \in 1..n : x[k] \in Parts
  BY NamesFacts
<1>2. \A k \in 1..n : [number |-> x[k].number, len |-> x[k].len, val |-> 0] \in KeyParts
  BY <1>1 DEF Parts, KeyParts
<1> HIDE DEF n
<1>3. name \in Seq(KeyParts) /\ Len(name) = n
  BY <1>1, <1>2
<1>4. tail \in Seq(KeyParts) /\ Len(tail) = 2
  BY DEF KeyParts
<1>5. tail[1] = [number |-> TRUE, len |-> 1, val |-> s] /\ tail[2] = [number |-> TRUE, len |-> 1, val |-> 0]
  OBVIOUS
<1>6. \A k \in 1..n : name[k] = [number |-> x[k].number, len |-> x[k].len, val |-> 0]
  OBVIOUS
<1>7. Key(x, s) = name \o tail
  BY DEF Key, n
<1> HIDE DEF name, tail
<1>8. /\ name \o tail \in Seq(KeyParts) /\ Len(name \o tail) = n + 2
      /\ \A k \in 1..n : (name \o tail)[k] = name[k]
      /\ (name \o tail)[n + 1] = tail[1] /\ (name \o tail)[n + 2] = tail[2]
  <2>1. name \o tail \in Seq(KeyParts) /\ Len(name \o tail) = n + 2
    <3>1. name \o tail \in Seq(KeyParts) /\ Len(name \o tail) = Len(name) + Len(tail)
      BY <1>3, <1>4, ConcatProperties
    <3> QED
      BY <1>3, <1>4, <3>1
  <2>2. \A k \in 1 .. n + 2 :
          (name \o tail)[k] = IF k <= n THEN name[k] ELSE tail[k - n]
    <3>1. \A k \in 1 .. Len(name) + Len(tail) :
            (name \o tail)[k] = IF k <= Len(name) THEN name[k] ELSE tail[k - Len(name)]
      BY <1>3, <1>4, ConcatProperties
    <3> QED
      BY <1>3, <1>4, <3>1
  <2>3. (n + 1) - n = 1 /\ (n + 2) - n = 2
    BY <1>1
  <2> QED
    BY <1>1, <2>1, <2>2, <2>3
<1> QED
  BY <1>5, <1>6, <1>7, <1>8 DEF n

\* However the name reads, the last two numbers of a key are its step and its
\* id; what is in front of them is the name, if that has no number.
LEMMA ParsedKey ==
  ASSUME NEW x \in Names, NEW s \in Nat
  PROVE  /\ ParseKey(Key(x, s)) \in PartSeen
         /\ ParseKey(Key(x, s)).step = s
         /\ ParseKey(Key(x, s)).id = 0
         /\ Plain(x) => ParseKey(Key(x, s)).prefix = Length(x)
<1> DEFINE key == Key(x, s)
           n == Len(x)
<1>1. /\ key \in Seq(KeyParts) /\ Len(key) = n + 2 /\ n \in Nat
      /\ \A k \in 1..n : key[k] = [number |-> x[k].number, len |-> x[k].len, val |-> 0]
      /\ key[n + 1] = [number |-> TRUE, len |-> 1, val |-> s]
      /\ key[n + 2] = [number |-> TRUE, len |-> 1, val |-> 0]
  BY KeyFacts, NamesFacts
<1>2. /\ x \in Seq(Parts) /\ DOMAIN x = 1..n
      /\ \A k \in 1..n : x[k] \in Parts
  BY NamesFacts
<1> HIDE DEF key
<1>3. PICK parse : /\ parse \in [0 .. Len(key) -> PartSeen]
                   /\ parse[0] = Unread
                   /\ \A k \in 1 .. Len(key) : parse[k] = ReadPart(key, parse[k - 1], k)
                   /\ ParseKey(key) = parse[Len(key)]
  BY <1>1, ParseUpto
<1>4. PICK upto \in [0 .. Len(x) -> Nat] :
        /\ upto[0] = 0
        /\ \A k \in 1 .. Len(x) : upto[k] = upto[k - 1] + x[k].len + 1
        /\ Length(x) = upto[Len(x)]
  BY <1>2, LengthUpto
<1> HIDE DEF n
<1>5. /\ parse[n] \in PartSeen /\ parse[n + 1] \in PartSeen /\ parse[n + 2] \in PartSeen
      /\ parse[n + 1] = ReadPart(key, parse[n], n + 1)
      /\ parse[n + 2] = ReadPart(key, parse[n + 1], n + 2)
  <2>1. n \in 0 .. n + 2 /\ n + 1 \in 1 .. n + 2 /\ n + 2 \in 1 .. n + 2
    BY <1>1
  <2>2. (n + 1) - 1 = n /\ (n + 2) - 1 = n + 1
    BY <1>1
  <2> QED
    BY <1>1, <1>3, <2>1, <2>2
<1>6. parse[n + 1].step = s /\ (parse[n].step = NoStep => parse[n + 1].prefix = parse[n].prefix)
  <2>1. parse[n + 1] = ReadNumber(key, parse[n], n + 1)
    BY <1>1, <1>5 DEF ReadPart
  <2>2. n + 1 # Len(key) /\ key[n + 1].val = s
    BY <1>1
  <2> QED
    BY <1>5, <2>1, <2>2 DEF ReadNumber, PartSeen
<1>7. /\ parse[n + 2].step = s /\ parse[n + 2].id = 0
      /\ parse[n + 2].prefix = parse[n + 1].prefix
  <2>1. parse[n + 2] = ReadNumber(key, parse[n + 1], n + 2)
    BY <1>1, <1>5 DEF ReadPart
  <2>2. n + 2 = Len(key) /\ key[n + 2].val = 0 /\ parse[n + 1].step # NoStep
    BY <1>1, <1>6 DEF NoStep
  <2> QED
    BY <1>5, <1>6, <2>1, <2>2 DEF ReadNumber, PartSeen
<1>8. ASSUME Plain(x)
      PROVE  \A k \in 0..n : parse[k].prefix = upto[k] /\ parse[k].read = upto[k]
                              /\ parse[k].step = NoStep
  <2> DEFINE T == {k \in 0..n : parse[k].prefix = upto[k] /\ parse[k].read = upto[k]
                                /\ parse[k].step = NoStep}
  <2>1. 0 \in T
    BY <1>1, <1>3, <1>4 DEF Unread
  <2>2. ASSUME NEW k \in 1..n, k - 1 \in T PROVE k \in T
    <3>1. ~key[k].number /\ key[k].len = x[k].len /\ k # Len(key) /\ k \in 1 .. Len(key)
      <4>0. key[k] = [number |-> x[k].number, len |-> x[k].len, val |-> 0]
        BY <1>1
      <4>1. key[k].number = x[k].number /\ key[k].len = x[k].len
        BY <4>0
      <4>2. ~x[k].number
        BY <1>2, <1>8 DEF Plain
      <4>3. k # Len(key) /\ k \in 1 .. Len(key)
        BY <1>1
      <4> QED
        BY <4>1, <4>2, <4>3
    <3>2. parse[k] = ReadPart(key, parse[k - 1], k)
      BY <1>3, <3>1
    <3>3. Through(key, parse[k - 1], k) = upto[k]
      <4>1. parse[k - 1].read = upto[k - 1] /\ upto[k - 1] \in Nat /\ x[k].len \in Nat
        BY <1>1, <1>2, <1>4, <2>2 DEF n, Parts
      <4>2. upto[k] = upto[k - 1] + x[k].len + 1
        BY <1>4 DEF n
      <4> QED
        BY <3>1, <4>1, <4>2 DEF Through
    <3>4. parse[k] = [Unread EXCEPT !.prefix = upto[k], !.read = upto[k]]
      BY <3>1, <3>2, <3>3 DEF ReadPart
    <3>5. parse[k].prefix = upto[k] /\ parse[k].read = upto[k] /\ parse[k].step = NoStep
      BY <3>4 DEF Unread
    <3> QED
      BY <1>1, <3>5
  <2> HIDE DEF T
  <2>3. \A k \in 0..n : k \in T
    BY <1>1, <2>1, <2>2, Upwards
  <2> QED
    BY <2>3 DEF T
<1>9. Plain(x) => parse[n + 2].prefix = Length(x)
  <2> SUFFICES ASSUME Plain(x) PROVE parse[n + 2].prefix = Length(x)
    OBVIOUS
  <2>1. n \in 0..n
    BY <1>1
  <2> QED
    BY <1>4, <1>6, <1>7, <1>8, <2>1 DEF n
<1> QED
  BY <1>1, <1>3, <1>5, <1>7, <1>9 DEF key

\* A key is written with the step expected, whether it had to be changed or not.
LEMMA KeyRenumbered ==
  ASSUME NEW x \in Names, NEW s \in Nat, NEW n \in 0..s
  PROVE  /\ NewKey(x, s, n) \in [prefix: Nat, step: Nat, id: Nat]
         /\ Plain(x) => NewKey(x, s, n) = [prefix |-> Length(x), step |-> n, id |-> 0]
<1> DEFINE parsed == ParseKey(Key(x, s))
<1>1. /\ parsed.prefix \in Nat /\ parsed.step = s /\ parsed.id = 0
      /\ Plain(x) => parsed.prefix = Length(x)
  BY ParsedKey DEF PartSeen
<1>2. Length(x) \in Nat
  <2>1. x \in Seq(Parts) /\ Len(x) \in Nat
    BY NamesFacts
  <2>2. PICK upto \in [0 .. Len(x) -> Nat] : Length(x) = upto[Len(x)]
    BY <2>1, LengthUpto
  <2> QED
    BY <2>1, <2>2
<1>3. NewKey(x, s, n) = IF parsed.step > n
                        THEN [prefix |-> parsed.prefix, step |-> n, id |-> parsed.id]
                        ELSE [prefix |-> Length(x), step |-> s, id |-> 0]
  BY DEF NewKey
<1> HIDE DEF parsed
<1>4. CASE parsed.step > n
  BY <1>1, <1>2, <1>3, <1>4
<1>5. CASE ~(parsed.step > n)
  <2>1. s = n
    BY <1>1, <1>5
  <2> QED
    BY <1>1, <1>2, <1>3, <1>5, <2>1
<1> QED
  BY <1>4, <1>5

-------------------------------------------------------------------------------
\* The numbers of the new file

\* The next step written has the next number, and is not behind the step in hand.
Numbered ==
  /\ expectedStep <= stepIterator /\ Len(out) = expectedStep
  /\ traces # Unreadable => stepIterator <= Len(traces)
  /\ \A n \in DOMAIN out :
       /\ out[n].step = n - 1
       /\ \A x \in Names :
            /\ out[n].keys[x] \in [prefix: Nat, step: Nat, id: Nat]
            /\ Plain(x) => out[n].keys[x] = [prefix |-> Length(x), step |-> n - 1, id |-> 0]

LEMMA WriteNumbered == IInv /\ Numbered /\ WriteStep => Numbered'
<1> SUFFICES ASSUME IInv, Numbered, WriteStep PROVE Numbered'
  OBVIOUS
<1>1. /\ traces \in Seq(Steps) /\ stepIterator < Len(traces) /\ Len(traces) \in Nat
      /\ stepIterator \in Nat /\ expectedStep \in 0 .. stepIterator
      /\ out \in Seq(Entries) /\ Len(out) = expectedStep /\ DOMAIN out = 1 .. expectedStep
  BY Readable DEF WriteStep, IInv, Place, Shape, Numbered
<1> DEFINE entry == IF IsEnd THEN Written(FALSE) ELSE Written(TRUE)
<1>2. entry \in Entries /\ out' = Append(out, entry)
  BY WrittenIsEntry DEF WriteStep, IInv
<1>3. /\ entry.step = expectedStep
      /\ \A x \in Names : entry.keys[x] = NewKey(x, stepIterator, expectedStep)
  BY DEF Written
<1> HIDE DEF entry
<1>4. /\ DOMAIN out' = 1 .. expectedStep + 1 /\ Len(out') = expectedStep + 1
      /\ \A n \in 1 .. expectedStep : out'[n] = out[n]
      /\ out'[expectedStep + 1] = entry
  BY <1>1, <1>2
<1>5. \A x \in Names :
        /\ entry.keys[x] \in [prefix: Nat, step: Nat, id: Nat]
        /\ Plain(x) => entry.keys[x] = [prefix |-> Length(x), step |-> expectedStep, id |-> 0]
  <2> TAKE x \in Names
  <2>1. PICK key : key = NewKey(x, stepIterator, expectedStep)
    OBVIOUS
  <2>2. /\ key \in [prefix: Nat, step: Nat, id: Nat]
        /\ Plain(x) => key = [prefix |-> Length(x), step |-> expectedStep, id |-> 0]
    BY <1>1, <2>1, KeyRenumbered
  <2> QED
    BY <1>3, <2>1, <2>2
<1>6. ASSUME NEW n \in DOMAIN out'
      PROVE  /\ out'[n].step = n - 1
             /\ \A x \in Names :
                  /\ out'[n].keys[x] \in [prefix: Nat, step: Nat, id: Nat]
                  /\ Plain(x) => out'[n].keys[x] = [prefix |-> Length(x), step |-> n - 1, id |-> 0]
  <2>1. CASE n = expectedStep + 1
    <3>1. n - 1 = expectedStep /\ out'[n] = entry
      BY <1>1, <1>4, <2>1
    <3> QED
      BY <1>3, <1>5, <3>1
  <2>2. CASE n # expectedStep + 1
    <3>1. n \in DOMAIN out /\ out'[n] = out[n]
      BY <1>1, <1>4, <2>2
    <3> QED
      BY <3>1 DEF Numbered
  <2> QED
    BY <2>1, <2>2
<1>7. expectedStep' = expectedStep + 1 /\ stepIterator' = stepIterator + 1 /\ traces' = traces
  BY DEF WriteStep
<1> QED
  BY <1>1, <1>4, <1>6, <1>7 DEF Numbered

LEMMA NumberedInvariance == Spec => [](IInv /\ Numbered)
<1>1. Init => Numbered
  <2> SUFFICES ASSUME Init PROVE Numbered
    OBVIOUS
  <2>1. traces # Unreadable => Len(traces) \in Nat
    BY InitIInv, Readable DEF IInv
  <2> QED
    BY <2>1 DEF Init, Numbered
<1>2. IInv /\ Numbered /\ [Next]_vars => Numbered'
  <2> SUFFICES ASSUME IInv, Numbered, [Next]_vars PROVE Numbered'
    OBVIOUS
  <2>1. CASE Load
    BY <2>1 DEF Load, Numbered
  <2>2. CASE SkipStep
    <3>1. stepIterator < Len(traces) /\ Len(traces) \in Nat /\ stepIterator \in Nat /\ expectedStep \in Nat
      BY <2>2, Readable DEF SkipStep, IInv, Place, Shape
    <3> QED
      BY <2>2, <3>1 DEF SkipStep, Numbered
  <2>3. CASE WriteStep
    BY <2>3, WriteNumbered
  <2>4. CASE Closed \/ UNCHANGED vars
    BY <2>4 DEF Closed, vars, Numbered
  <2> QED
    BY <2>1, <2>2, <2>3, <2>4 DEF Next
<1> QED
  BY <1>1, <1>2, InitIInv, StepIInv, PTL DEF Spec

\* The trace, the place in it and every part of what is written are what the
\* repair takes them for, whatever numbers are in the names: the id of a key is
\* always found (parseKey).
THEOREM RepairTypeCorrect == Spec => []TypeOK
<1>1. IInv /\ Numbered => TypeOK
  <2> SUFFICES ASSUME IInv, Numbered PROVE TypeOK
    OBVIOUS
  <2>1. traces = Unreadable \/ (traces \in Seq(Steps) /\ stepIterator \in 0 .. Len(traces))
    BY Readable DEF IInv, Shape, Numbered
  <2>2. expectedStep \in 0..stepIterator
    BY DEF IInv, Shape, Numbered
  <2>3. \A n \in DOMAIN out : out[n].comma \in BOOLEAN /\ out[n].step \in Nat /\ out[n].values \subseteq Names
    <3>1. \A n \in DOMAIN out : out[n] \in Entries
      BY DEF IInv, Shape
    <3> QED
      BY <3>1 DEF Entries
  <2> QED
    BY <2>1, <2>2, <2>3 DEF IInv, Shape, Numbered, TypeOK
<1> QED
  BY <1>1, NumberedInvariance, PTL

\* The steps of the repaired file have the numbers from 0 on without a gap, in
\* their field and in every key, and a name without numbers is still that name
\* (fixNullsInJSON, parseKey), however long names and trace are.
THEOREM NewNumbersRight == Spec => []Renumbered
<1>1. Numbered => Renumbered
  BY DEF Numbered, Renumbered
<1> QED
  BY <1>1, NumberedInvariance, PTL
===============================================================================
