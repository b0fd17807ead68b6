----------------------- MODULE ExtremeTraceSearch_proofs -----------------------
(***************************************************************************)
(* What module ExtremeTraceSearch promises, for every feature, range,      *)
(* scale and precision limit.                                              *)
(***************************************************************************)
EXTENDS ExtremeTraceSearch, TLAPS

USE ValuesAssumption, UnitAssumption, EpsAssumption, SolverDeltaAssumption,
    JunkIdsAssumption, NoneAssumption, PendingAssumption

-------------------------------------------------------------------------------
\* Arithmetic of the search

LEMMA FloorInt == \A x \in Int : Floor(x) \in Int
BY DEF Floor

LEMMA DeltaInt == Delta \in Int
BY FloorInt DEF Delta

LEMMA WidenInterval ==
  ASSUME NEW l \in Int, NEW r \in Int, NEW junk \in Int
  PROVE  Widen(l, r, junk) \in Interval
<1>1. l - Eps \in Int /\ -(r + Eps) \in Int
  OBVIOUS
<1>2. Floor(l - Eps) \in Int /\ Ceil(r + Eps) \in Int
  BY <1>1, FloorInt DEF Ceil
<1>3. QED
  BY <1>2 DEF Widen, Interval

LEMMA WitnessInterval ==
  ASSUME TypeOK, NEW h, h.left \in Int, h.right \in Int, NEW w \in Witnesses(h)
  PROVE  /\ w \in Interval
         /\ w.id = Len(traces) + 1
         /\ h.left - Delta <= w.left /\ w.right <= h.right + Delta
         /\ w.left <= w.right /\ w.right - w.left <= Delta
         /\ \E f \in perturbed : w.left <= f /\ f <= w.right
BY DeltaInt DEF Witnesses, Interval, TypeOK

LEMMA HalvesInt ==
  ASSUME TypeOK
  PROVE  /\ Mid(given) \in Int
         /\ NearHalf(given).left \in Int /\ NearHalf(given).right \in Int
         /\ FarHalf(given).left \in Int /\ FarHalf(given).right \in Int
         /\ NearHalf(given) \in [left: Int, right: Int]
         /\ FarHalf(given) \in [left: Int, right: Int]
BY DEF TypeOK, Interval, Mid, NearHalf, FarHalf

-------------------------------------------------------------------------------
\* Type correctness

LEMMA AnswerType ==
  ASSUME TypeOK, NEW h \in [left: Int, right: Int], NEW v \in BOOLEAN,
         Answer(h, v)
  PROVE  verdicts' \subseteq [left: Int, right: Int] \X BOOLEAN
<1>1. verdicts \subseteq [left: Int, right: Int] \X BOOLEAN
  BY DEF TypeOK
<1>2. verdicts' = verdicts \union {<<h, v>>}
  BY DEF Answer
<1>3. <<h, v>> \in [left: Int, right: Int] \X BOOLEAN
  OBVIOUS
<1>4. QED
  BY <1>1, <1>2, <1>3, Zenon

LEMMA FoundType ==
  ASSUME TypeOK, NEW h \in [left: Int, right: Int], Found(h)
  PROVE  TypeOK'
<1>1. PICK w \in Witnesses(h) :
        /\ sat' = w
        /\ traces' = Append(traces, w)
        /\ given' = Beyond(h, w)
        /\ pc' = "call"
        /\ UNCHANGED <<feasible, perturbed, range, dir, corner>>
  BY DEF Found
<1>2. w \in Interval
  BY WitnessInterval
<1>3. Beyond(h, w) \in Interval
  BY <1>2 DEF Beyond, Interval
<1>4. Append(traces, w) \in Seq(Interval)
  BY <1>2 DEF TypeOK
<1>5. verdicts' \subseteq [left: Int, right: Int] \X BOOLEAN
  BY AnswerType DEF Found
<1>6. QED
  BY <1>1, <1>2, <1>3, <1>4, <1>5 DEF TypeOK

LEMMA MissedType ==
  ASSUME TypeOK, NEW h \in [left: Int, right: Int], Missed(h)
  PROVE  verdicts' \subseteq [left: Int, right: Int] \X BOOLEAN
BY AnswerType DEF Missed

LEMMA ReturnType ==
  ASSUME TypeOK, NEW r \in Interval \union {None}, Return(r),
         verdicts' \subseteq [left: Int, right: Int] \X BOOLEAN
  PROVE  TypeOK'
BY DEF TypeOK, Return

\* The variables hold what the C types of the code let them hold.
THEOREM TypeCorrect == Spec => []TypeOK
<1>1. Init => TypeOK
  <2> SUFFICES ASSUME Init PROVE TypeOK
    OBVIOUS
  <2>1. range \in Interval
    BY WidenInterval DEF Init
  <2>2. QED
    BY <2>1 DEF Init, TypeOK
<1>2. TypeOK /\ [Next]_vars => TypeOK'
  <2> SUFFICES ASSUME TypeOK, [Next]_vars PROVE TypeOK'
    OBVIOUS
  <2>1. CASE ReturnRange
    BY <2>1, ReturnType DEF ReturnRange, TypeOK
  <2>2. CASE SatNear
    BY <2>2, FoundType, HalvesInt DEF SatNear
  <2>3. CASE UnsatNear
    BY <2>3, MissedType, HalvesInt DEF UnsatNear, TypeOK
  <2>4. CASE SatFar
    BY <2>4, FoundType, HalvesInt DEF SatFar
  <2>5. CASE UnsatFar
    BY <2>5, ReturnType, MissedType, HalvesInt DEF UnsatFar, TypeOK
  <2>6. CASE Report
    BY <2>6 DEF Report, TypeOK
  <2>7. CASE Ended \/ UNCHANGED vars
    BY <2>7 DEF Ended, vars, TypeOK
  <2>8. QED
    BY <2>1, <2>2, <2>3, <2>4, <2>5, <2>6, <2>7 DEF Next
<1>3. QED
  BY <1>1, <1>2, PTL DEF Spec

-------------------------------------------------------------------------------
\* The inductive invariant

Searching == pc \in {"call", "far"}

\* Nothing is lost: a value of the feature in the widened range lies on the
\* right side of the end that the search approaches, and between the two ends
\* unless the last witness already beats it up to the precision limit.
NothingLost ==
  Searching =>
    /\ \A f \in feasible : range.left <= f /\ f <= range.right =>
         IF dir < 0
         THEN /\ given.left <= f
              /\ f <= given.right \/ (sat # None /\ sat.left - Eps < f)
         ELSE /\ f <= given.right
              /\ given.left <= f \/ (sat # None /\ f < sat.right + Eps)
    /\ pc = "far" => ~Reachable(NearHalf(given))

\* The interval that is left ends one precision limit beyond the last witness,
\* whose trace is the last one written.
LastWitness ==
  Searching =>
    /\ sat = None => given = range
    /\ sat # None =>
         /\ sat.right - sat.left <= Delta
         /\ \E f \in perturbed : sat.left <= f /\ f <= sat.right
         /\ given.id = sat.id
         /\ IF dir < 0 THEN given.right = sat.left - Eps
                       ELSE given.left = sat.right + Eps

SearchInv == TypeOK /\ NothingLost /\ LastWitness

LEMMA FoundLastWitness ==
  ASSUME TypeOK, NEW h, h.left \in Int, h.right \in Int, Found(h)
  PROVE  LastWitness'
<1>1. PICK w \in Witnesses(h) :
        /\ sat' = w
        /\ given' = Beyond(h, w)
        /\ UNCHANGED <<feasible, perturbed, range, dir, corner>>
  BY DEF Found
<1>2. /\ w \in Interval
      /\ w.right - w.left <= Delta
      /\ \E f \in perturbed : w.left <= f /\ f <= w.right
  BY WitnessInterval
<1>3. w # None
  BY <1>2
<1>4. Delta' = Delta
  BY DEF Delta
<1>5. QED
  BY <1>1, <1>2, <1>3, <1>4 DEF LastWitness, Beyond, Interval

LEMMA FoundNothingLost ==
  ASSUME TypeOK, NEW h, h.left \in Int, h.right \in Int, Found(h),
         \A f \in feasible : range.left <= f /\ f <= range.right =>
           IF dir < 0 THEN h.left <= f ELSE f <= h.right
  PROVE  NothingLost'
<1>1. PICK w \in Witnesses(h) :
        /\ sat' = w
        /\ given' = Beyond(h, w)
        /\ pc' = "call"
        /\ UNCHANGED <<feasible, perturbed, range, dir, corner>>
  BY DEF Found
<1>2. w \in Interval /\ w # None
  BY WitnessInterval
<1>3. QED
  BY <1>1, <1>2 DEF NothingLost, Beyond, Interval, TypeOK

LEMMA ReturnInv ==
  ASSUME TypeOK, NEW r, Return(r)
  PROVE  NothingLost' /\ LastWitness'
BY DEF TypeOK, Return, NothingLost, LastWitness, Searching, Interval

LEMMA SearchInvariant == Spec => []SearchInv
<1>1. Init => NothingLost /\ LastWitness
  <2> SUFFICES ASSUME Init PROVE NothingLost /\ LastWitness
    OBVIOUS
  <2>1. given = range /\ pc = "call" /\ sat = None
    BY DEF Init
  <2>2. QED
    BY <2>1 DEF Init, NothingLost, LastWitness
<1>2. TypeOK /\ TypeOK' /\ SearchInv /\ [Next]_vars => SearchInv'
  <2> SUFFICES ASSUME TypeOK, TypeOK', SearchInv, [Next]_vars
               PROVE NothingLost' /\ LastWitness'
    BY DEF SearchInv
  <2> USE DEF SearchInv
  <2>1. CASE ReturnRange
    BY <2>1, ReturnInv DEF ReturnRange
  <2>2. CASE SatNear
    <3>1. Found(NearHalf(given)) /\ pc = "call"
      BY <2>2 DEF SatNear
    <3>2. \A f \in feasible : range.left <= f /\ f <= range.right =>
            IF dir < 0 THEN NearHalf(given).left <= f
                       ELSE f <= NearHalf(given).right
      BY <3>1 DEF NothingLost, Searching, NearHalf
    <3>3. QED
      BY <3>1, <3>2, HalvesInt, FoundNothingLost, FoundLastWitness
  <2>3. CASE UnsatNear
    BY <2>3 DEF UnsatNear, Missed, NothingLost, LastWitness, Searching, Reachable,
                NearHalf, Mid
  <2>4. CASE SatFar
    <3>1. Found(FarHalf(given)) /\ pc = "far"
      BY <2>4 DEF SatFar
    <3>2. ~Reachable(NearHalf(given))
      BY <3>1 DEF NothingLost, Searching
    <3>3. \A f \in feasible : range.left <= f /\ f <= range.right =>
            IF dir < 0 THEN FarHalf(given).left <= f
                       ELSE f <= FarHalf(given).right
      <4> SUFFICES ASSUME NEW f \in feasible, range.left <= f, f <= range.right
                   PROVE  IF dir < 0 THEN FarHalf(given).left <= f
                                     ELSE f <= FarHalf(given).right
        OBVIOUS
      <4>1. /\ f \in Int /\ Mid(given) \in Int
            /\ IF dir < 0 THEN given.left <= f ELSE f <= given.right
        BY <3>1, HalvesInt DEF NothingLost, Searching, TypeOK
      <4>2. ~(NearHalf(given).left <= f /\ f <= NearHalf(given).right)
        BY <3>2 DEF Reachable
      <4>3. QED
        BY <4>1, <4>2 DEF NearHalf, FarHalf
    <3>4. QED
      BY <3>1, <3>3, HalvesInt, FoundNothingLost, FoundLastWitness
  <2>5. CASE UnsatFar
    BY <2>5, ReturnInv DEF UnsatFar
  <2>6. CASE Report
    BY <2>6 DEF Report, NothingLost, LastWitness, Searching
  <2>7. CASE Ended \/ UNCHANGED vars
    BY <2>7 DEF Ended, vars, NothingLost, LastWitness, Searching, Reachable,
                NearHalf, Mid
  <2>8. QED
    BY <2>1, <2>2, <2>3, <2>4, <2>5, <2>6, <2>7 DEF Next
<1>3. QED
  BY <1>1, <1>2, TypeCorrect, PTL DEF Spec, SearchInv

-------------------------------------------------------------------------------
\* The corners main prints are the promised ones

\* What a search in direction dir may return: beyond it no value is lost, and
\* (unless the range was never searched) a witness is near it.
Answers(r) ==
  Corners!Extreme(dir, IF r = None THEN None
                       ELSE IF dir < 0 THEN r.left ELSE r.right)
  /\ (range.right - range.left > 2 * Eps =>
        Corners!Attained(dir, IF r = None THEN None
                              ELSE IF dir < 0 THEN r.left ELSE r.right))

LEMMA WitnessAttained ==
  ASSUME SearchInv, Searching, sat # None
  PROVE  \E f \in perturbed :
           /\ f <= sat.left + Delta
           /\ sat.right - Delta <= f
<1>1. sat \in Interval /\ Delta \in Int /\ perturbed \subseteq Int
  BY DeltaInt DEF SearchInv, TypeOK
<1>2. sat.right - sat.left <= Delta
  BY DEF SearchInv, LastWitness
<1>3. PICK f \in perturbed : sat.left <= f /\ f <= sat.right
  BY DEF SearchInv, LastWitness
<1>4. QED
  BY <1>1, <1>2, <1>3 DEF Interval

LEMMA RangeAnswers ==
  ASSUME SearchInv, Eps > 0, Searching, Narrow(given)
  PROVE  Answers(given)
<1>1. given \in Interval /\ given # None /\ range \in Interval /\ Delta \in Int
  BY DeltaInt DEF SearchInv, TypeOK
<1>2. given.left # None /\ given.right # None
  BY <1>1 DEF Interval
<1>3. Corners!Extreme(dir, IF dir < 0 THEN given.left ELSE given.right)
  BY <1>1, <1>2 DEF Corners!Extreme, Corners!InRange, SearchInv, NothingLost,
                    TypeOK, Interval
<1>4. ASSUME range.right - range.left > 2 * Eps
      PROVE  Corners!Attained(dir, IF dir < 0 THEN given.left ELSE given.right)
  <2>1. given # range
    BY <1>1, <1>4 DEF Narrow, Abs, Interval
  <2>2. sat # None /\ sat \in Interval
    BY <2>1 DEF SearchInv, LastWitness, TypeOK
  <2>3. IF dir < 0 THEN given.right = sat.left - Eps
                   ELSE given.left = sat.right + Eps
    BY <2>2 DEF SearchInv, LastWitness
  <2>4. PICK f \in perturbed : f <= sat.left + Delta
                              /\ sat.right - Delta <= f
    BY <2>2, WitnessAttained
  <2>5. f \in Int
    BY DEF SearchInv, TypeOK
  <2>6. IF dir < 0 THEN f <= given.left + (3 * Eps + Delta)
                   ELSE given.right - (3 * Eps + Delta) <= f
    BY <1>1, <2>2, <2>3, <2>4, <2>5 DEF Narrow, Abs, Interval
  <2>7. QED
    BY <2>6 DEF Corners!Attained
<1>5. QED
  BY <1>1, <1>3, <1>4 DEF Answers

LEMMA WitnessAnswers ==
  ASSUME SearchInv, pc = "far", ~Reachable(FarHalf(given))
  PROVE  Answers(sat)
<1>1. given \in Interval /\ feasible \subseteq Int /\ perturbed \subseteq Int
      /\ dir \in {-1, 1}
      /\ sat \in Interval \union {None}
  BY DEF SearchInv, TypeOK
<1>2. \A f \in feasible : ~(given.left <= f /\ f <= given.right)
  <2>1. ~Reachable(NearHalf(given)) /\ Mid(given) \in Int
    BY HalvesInt DEF SearchInv, NothingLost, Searching
  <2>2. QED
    BY <1>1, <2>1 DEF Reachable, NearHalf, FarHalf, Interval
<1>3. CASE sat = None
  <2>1. given = range
    BY <1>3 DEF SearchInv, LastWitness, Searching
  <2>2. QED
    BY <1>2, <1>3, <2>1 DEF Answers, Corners!Extreme, Corners!Attained,
                            Corners!InRange
<1>4. CASE sat # None
  <2>1. sat \in Interval /\ sat.left # None /\ sat.right # None
    BY <1>1, <1>4 DEF Interval
  <2>2. Corners!Extreme(dir, IF dir < 0 THEN sat.left ELSE sat.right)
    BY <1>1, <1>2, <2>1 DEF Corners!Extreme, Corners!InRange, SearchInv,
                            NothingLost, Searching, Interval
  <2>3. PICK f \in perturbed : f <= sat.left + Delta
                              /\ sat.right - Delta <= f
    BY <1>4, WitnessAttained DEF Searching
  <2>4. IF dir < 0 THEN f <= sat.left + (3 * Eps + Delta)
                   ELSE sat.right - (3 * Eps + Delta) <= f
    BY <1>1, <2>1, <2>3, DeltaInt DEF Interval
  <2>5. Corners!Attained(dir, IF dir < 0 THEN sat.left ELSE sat.right)
    BY <2>4 DEF Corners!Attained
  <2>6. QED
    BY <1>4, <2>2, <2>5 DEF Answers
<1>5. QED
  BY <1>3, <1>4

\* The prime of PrintedCorner(dir) would speak of dir': d names the direction.
LEMMA ReturnFinds ==
  ASSUME SearchInv, Searching, NEW r \in Interval \union {None}, Answers(r),
         Return(r), NEW d \in {-1, 1}, d = dir
  PROVE  Corners!PromiseNext
<1> DEFINE value == IF r = None THEN None ELSE IF d < 0 THEN r.left ELSE r.right
           printed == [c \in {-1, 1} |-> PrintedCorner(c)]
<1>1. corner \in [{-1, 1} -> Interval \union {None}]
  BY DEF SearchInv, TypeOK
<1>2. value # Pending
  BY DEF Interval
<1>3. /\ corner' = [corner EXCEPT ![d] = r]
      /\ dir' = 1
      /\ pc' = IF d < 0 THEN "call" ELSE "report"
      /\ UNCHANGED <<feasible, perturbed, range>>
  BY DEF Return
<1>4. PrintedCorner(d) = Pending
  BY DEF PrintedCorner, Searched, Searching
<1>5. PrintedCorner(d)' = value
  <2>1. Searched(d)'
    BY <1>3 DEF Searched
  <2>2. corner'[d] = r
    BY <1>1, <1>3
  <2>3. QED
    BY <2>1, <2>2 DEF PrintedCorner
<1>6. ASSUME NEW c \in {-1, 1}, c # d
      PROVE  PrintedCorner(c)' = PrintedCorner(c)
  <2>1. Searched(c)' = Searched(c)
    BY <1>3, <1>6 DEF Searched, Searching
  <2>2. corner'[c] = corner[c]
    BY <1>1, <1>3, <1>6
  <2>3. QED
    BY <2>1, <2>2 DEF PrintedCorner
<1>7. printed' = [printed EXCEPT ![d] = value]
  BY <1>5, <1>6
<1>8. printed[d] = Pending /\ printed'[d] = value
  BY <1>4, <1>5
<1>9. d = 1 => printed[-1] # Pending
  <2>1. ASSUME d = 1 PROVE Searched(-1)
    BY <2>1 DEF Searched
  <2>2. PrintedCorner(-1) # Pending \/ ~Searched(-1)
    BY <1>1 DEF PrintedCorner, Interval
  <2>3. QED
    BY <2>1, <2>2
<1>10. /\ Corners!Extreme(d, value)
       /\ range.right - range.left > 2 * Eps => Corners!Attained(d, value)
  BY DEF Answers
<1> HIDE DEF printed, value
<1>11. Corners!Find(d)
  BY <1>2, <1>3, <1>7, <1>8, <1>10 DEF Corners!Find, printed
<1>12. QED
  BY <1>9, <1>11 DEF Corners!PromiseNext, Corners!FindLeft, Corners!FindRight,
                     printed

LEMMA Stutters ==
  ASSUME UNCHANGED <<feasible, perturbed, range, dir, corner>>,
         Searching' = Searching
  PROVE  UNCHANGED <<feasible, perturbed, range, [d \in {-1, 1} |-> PrintedCorner(d)]>>
<1>1. ASSUME NEW d \in {-1, 1}
      PROVE  PrintedCorner(d)' = PrintedCorner(d)
  BY DEF PrintedCorner, Searched, Searching
<1>2. QED
  BY <1>1

\* The program implements the promise of module FeatureCorners, whatever
\* positive precision limit is typed: every step of the search maps to finding
\* a corner that keeps the promise, or to no step at all.
THEOREM CornersAsPromised ==
  ASSUME Eps > 0
  PROVE  Spec => CornersPromise
<1>1. Init => Corners!PromiseInit
  <2> SUFFICES ASSUME Init PROVE Corners!PromiseInit
    OBVIOUS
  <2>1. \A d \in {-1, 1} : PrintedCorner(d) = Pending
    BY DEF Init, PrintedCorner, Searched
  <2>2. QED
    BY <2>1 DEF Corners!PromiseInit
<1>2. SearchInv /\ [Next]_vars => [Corners!PromiseNext]_(Corners!promiseVars)
  <2> SUFFICES ASSUME SearchInv, [Next]_vars
               PROVE  Corners!PromiseNext \/ UNCHANGED Corners!promiseVars
    OBVIOUS
  <2> USE DEF Corners!promiseVars
  <2>0. dir \in {-1, 1} /\ given \in Interval /\ sat \in Interval \union {None}
    BY DEF SearchInv, TypeOK
  <2>1. CASE ReturnRange
    BY <2>0, <2>1, RangeAnswers, ReturnFinds DEF ReturnRange, Searching
  <2>2. CASE SatNear
    BY <2>2, Stutters DEF SatNear, Found, Searching
  <2>3. CASE UnsatNear
    BY <2>3, Stutters DEF UnsatNear, Searching
  <2>4. CASE SatFar
    BY <2>4, Stutters DEF SatFar, Found, Searching
  <2>5. CASE UnsatFar
    BY <2>0, <2>5, WitnessAnswers, ReturnFinds DEF UnsatFar, Missed, Searching
  <2>6. CASE Report
    BY <2>6, Stutters DEF Report, Searching
  <2>7. CASE Ended \/ UNCHANGED vars
    BY <2>7, Stutters DEF Ended, vars, Searching
  <2>8. QED
    BY <2>1, <2>2, <2>3, <2>4, <2>5, <2>6, <2>7 DEF Next
<1>3. QED
  BY <1>1, <1>2, SearchInvariant, PTL DEF Spec, CornersPromise, Corners!Promise

-------------------------------------------------------------------------------
\* The recursion

\* The interval that is left stays in the widened range, and a witness sets its
\* ends back behind each other by no more than two precision limits.
IntervalInv ==
  /\ range.left <= range.right
  /\ Searching =>
       /\ range.left <= given.left
       /\ given.right <= range.right
       /\ given.left - 2 * Eps <= given.right
       /\ pc = "far" => ~Narrow(given)

LEMMA FoundShrinks ==
  ASSUME TypeOK, IntervalInv, PrecisionUsable, Searching, ~Narrow(given),
         NEW h \in {NearHalf(given), FarHalf(given)}, Found(h)
  PROVE  /\ Width(given') < Width(given)
         /\ IntervalInv'
<1>1. /\ h.left \in Int /\ h.right \in Int /\ given \in Interval
      /\ range \in Interval /\ Delta \in Int
  BY HalvesInt, DeltaInt DEF TypeOK
<1>2. PICK w \in Witnesses(h) :
        /\ given' = Beyond(h, w)
        /\ pc' = "call"
        /\ UNCHANGED <<range, dir>>
  BY DEF Found
<1>3. /\ w \in Interval
      /\ h.left - Delta <= w.left /\ w.right <= h.right + Delta
      /\ w.left <= w.right
  BY <1>1, WitnessInterval
<1>4. given.left + 2 * Eps < given.right
  BY <1>1 DEF IntervalInv, Narrow, Abs, Interval
<1>5. /\ given.left < Mid(given) /\ Mid(given) < given.right
      /\ Mid(given) \in Int
      /\ h.left \in {given.left, Mid(given)}
      /\ h.right \in {given.right, Mid(given)}
      /\ h.left < h.right
  BY <1>1, <1>4 DEF Mid, NearHalf, FarHalf, Interval, PrecisionUsable
<1>6. CASE dir < 0
  <2>1. given'.left = h.left /\ given'.right = w.left - Eps
    BY <1>2, <1>6 DEF Beyond
  <2>2. /\ h.left - 2 * Eps <= given'.right
        /\ given'.right <= h.right
    BY <1>1, <1>3, <2>1 DEF PrecisionUsable, Interval
  <2>3. h.right - h.left < given.right - given.left
    BY <1>1, <1>5 DEF NearHalf, FarHalf, Interval
  <2>4. given'.right - given'.left < given.right - given.left
        /\ given'.left - given'.right < given.right - given.left
    BY <1>1, <1>3, <1>4, <2>1, <2>2, <2>3 DEF Interval
  <2>5. Width(given') < Width(given)
    BY <1>1, <1>3, <1>4, <2>1, <2>4 DEF Width, Abs, Interval
  <2>6. IntervalInv'
    BY <1>1, <1>2, <1>3, <1>5, <2>1, <2>2 DEF IntervalInv, Interval, Searching
  <2>7. QED
    BY <2>5, <2>6
<1>7. CASE ~(dir < 0)
  <2>1. given'.left = w.right + Eps /\ given'.right = h.right
    BY <1>2, <1>7 DEF Beyond
  <2>2. /\ given'.left <= h.right + 2 * Eps
        /\ h.left <= given'.left
    BY <1>1, <1>3, <2>1 DEF PrecisionUsable, Interval
  <2>3. h.right - h.left < given.right - given.left
    BY <1>1, <1>5 DEF NearHalf, FarHalf, Interval
  <2>4. given'.right - given'.left < given.right - given.left
        /\ given'.left - given'.right < given.right - given.left
    BY <1>1, <1>3, <1>4, <2>1, <2>2, <2>3 DEF Interval
  <2>5. Width(given') < Width(given)
    BY <1>1, <1>3, <1>4, <2>1, <2>4 DEF Width, Abs, Interval
  <2>6. IntervalInv'
    BY <1>1, <1>2, <1>3, <1>5, <2>1, <2>2 DEF IntervalInv, Interval, Searching
  <2>7. QED
    BY <2>5, <2>6
<1>8. QED
  BY <1>6, <1>7

LEMMA FloorBelow ==
  ASSUME NEW x \in Int
  PROVE  Floor(x) <= x
<1>1. Unit \in Int /\ Unit > 0
  OBVIOUS
<1>2. x = (x \div Unit) * Unit + (x % Unit) /\ 0 <= x % Unit
  BY <1>1
<1>3. QED
  BY <1>1, <1>2 DEF Floor

LEMMA IntervalInvariant ==
  ASSUME PrecisionUsable
  PROVE  Spec => []IntervalInv
<1>1. Init => IntervalInv
  <2> SUFFICES ASSUME Init PROVE IntervalInv
    OBVIOUS
  <2>1. PICK l \in Values, r \in Values, junk \in JunkIds :
          l <= r /\ range = Widen(l, r, junk)
    BY DEF Init
  <2>2. l - Eps \in Int /\ -(r + Eps) \in Int /\ l \in Int /\ r \in Int
    OBVIOUS
  <2>3. /\ Floor(l - Eps) \in Int /\ Floor(l - Eps) <= l - Eps
        /\ Ceil(r + Eps) \in Int /\ r + Eps <= Ceil(r + Eps)
    BY <2>2, FloorInt, FloorBelow DEF Ceil
  <2>4. given = range /\ pc = "call"
    BY DEF Init
  <2>5. range.left <= range.right /\ range.left \in Int /\ range.right \in Int
    BY <2>1, <2>2, <2>3 DEF Widen
  <2>6. QED
    BY <2>4, <2>5 DEF IntervalInv, PrecisionUsable
<1>2. TypeOK /\ TypeOK' /\ IntervalInv /\ [Next]_vars => IntervalInv'
  <2> SUFFICES ASSUME TypeOK, TypeOK', IntervalInv, [Next]_vars
               PROVE  IntervalInv'
    OBVIOUS
  <2>1. ASSUME NEW r, Return(r)
        PROVE  IntervalInv'
    BY <2>1 DEF Return, IntervalInv, TypeOK, Interval, PrecisionUsable
  <2>2. CASE SatNear
    BY <2>2, FoundShrinks DEF SatNear, Searching
  <2>3. CASE UnsatNear
    BY <2>3 DEF UnsatNear, IntervalInv, Searching, Narrow
  <2>4. CASE SatFar
    BY <2>4, FoundShrinks DEF SatFar, IntervalInv, Searching
  <2>5. CASE ReturnRange \/ UnsatFar
    BY <2>1, <2>5 DEF ReturnRange, UnsatFar
  <2>6. CASE Report \/ Ended \/ UNCHANGED vars
    BY <2>6 DEF Report, Ended, vars, IntervalInv, Searching, Narrow
  <2>7. QED
    BY <2>2, <2>3, <2>4, <2>5, <2>6 DEF Next
<1>3. QED
  BY <1>1, <1>2, TypeCorrect, PTL DEF Spec

\* Every goal that is sent to dReach is a nonempty part of the widened range.
THEOREM GoalsAreProper ==
  ASSUME PrecisionUsable
  PROVE  Spec => []GoalsProper
<1>1. TypeOK /\ IntervalInv => GoalsProper
  <2> SUFFICES ASSUME TypeOK, IntervalInv,
                      pc = "far" \/ (pc = "call" /\ ~Narrow(given))
               PROVE  /\ range.left <= given.left
                      /\ given.left < Mid(given) /\ Mid(given) < given.right
                      /\ given.right <= range.right
    BY DEF GoalsProper
  <2>1. given \in Interval /\ ~Narrow(given)
    BY DEF TypeOK, IntervalInv, Searching
  <2>2. given.left + 2 * Eps < given.right
    BY <2>1 DEF IntervalInv, Searching, Narrow, Abs, Interval
  <2>3. QED
    BY <2>1, <2>2 DEF IntervalInv, Searching, Mid, Interval, PrecisionUsable
<1>2. QED
  BY <1>1, TypeCorrect, IntervalInvariant, PTL

\* Each recursive call gets a shorter interval than its caller, whatever
\* witness the solver returns: the recursion is bounded.
THEOREM CallsDoShrink ==
  ASSUME PrecisionUsable
  PROVE  Spec => CallsShrink
<1>1. TypeOK /\ IntervalInv /\ [Next]_vars
        => [SatNear \/ SatFar => Width(given') < Width(given)]_vars
  <2> SUFFICES ASSUME TypeOK, IntervalInv, SatNear \/ SatFar
               PROVE  Width(given') < Width(given)
    OBVIOUS
  <2>1. CASE SatNear
    BY <2>1, FoundShrinks DEF SatNear, Searching
  <2>2. CASE SatFar
    BY <2>2, FoundShrinks DEF SatFar, IntervalInv, Searching
  <2>3. QED
    BY <2>1, <2>2
<1>2. QED
  BY <1>1, TypeCorrect, IntervalInvariant, PTL DEF Spec, CallsShrink

-------------------------------------------------------------------------------
\* The traces behind the corners

\* The innermost witness is on file, after the trace of the left corner.
TracesKept ==
  /\ Searching => corner[1] = None
  /\ Searching /\ dir < 0 => corner[-1] = None
  /\ Searching /\ sat # None =>
       /\ sat.id \in DOMAIN traces
       /\ traces[sat.id] = sat
       /\ corner[-1] # None /\ ~Narrow(range) => corner[-1].id < sat.id

WitnessInv == CornersWitnessed /\ TracesKept

LEMMA FoundKeepsTraces ==
  ASSUME TypeOK, WitnessInv, NEW h, h.left \in Int, h.right \in Int,
         Searching, Found(h)
  PROVE  WitnessInv'
<1>1. PICK w \in Witnesses(h) :
        /\ sat' = w
        /\ traces' = Append(traces, w)
        /\ pc' = "call"
        /\ UNCHANGED <<range, dir, corner>>
  BY DEF Found
<1>2. w \in Interval /\ w.id = Len(traces) + 1
  BY WitnessInterval
<1>3. traces \in Seq(Interval) /\ Len(traces) \in Nat
  BY DEF TypeOK
<1>4. /\ DOMAIN traces' = 1 .. Len(traces) + 1
      /\ \A i \in DOMAIN traces : traces'[i] = traces[i]
      /\ traces'[w.id] = w
  BY <1>1, <1>2, <1>3
<1>5. DOMAIN traces = 1 .. Len(traces)
  BY <1>3
<1>6. corner[1] = None
  BY DEF WitnessInv, TracesKept
<1>7. ASSUME ~Narrow(range), corner[-1] # None
      PROVE  /\ corner[-1].id \in DOMAIN traces'
             /\ corner[-1].id < w.id
             /\ Near(corner[-1].left, traces'[corner[-1].id].left)
  BY <1>2, <1>3, <1>4, <1>5, <1>7 DEF WitnessInv, CornersWitnessed
<1>8. CornersWitnessed'
  BY <1>1, <1>6, <1>7 DEF CornersWitnessed, Narrow
<1>9. TracesKept'
  BY <1>1, <1>2, <1>3, <1>4, <1>6, <1>7
     DEF WitnessInv, TracesKept, Searching, Narrow
<1>10. QED
  BY <1>8, <1>9 DEF WitnessInv

\* A search returns the range it was given, its last witness, or an interval
\* that ends one precision limit beyond that witness.
LEMMA ReturnKeepsTraces ==
  ASSUME SearchInv, WitnessInv, Searching, NEW r, Return(r),
         r = sat \/ (r = given /\ Narrow(given))
  PROVE  WitnessInv'
<1>1. /\ given \in Interval /\ sat \in Interval \union {None}
      /\ dir \in {-1, 1} /\ traces \in Seq(Interval)
      /\ corner \in [{-1, 1} -> Interval \union {None}]
  BY DEF SearchInv, TypeOK
<1>2. /\ corner' = [corner EXCEPT ![dir] = r]
      /\ sat' = None
      /\ dir' = 1
      /\ pc' = IF dir < 0 THEN "call" ELSE "report"
      /\ UNCHANGED <<range, traces>>
  BY DEF Return
<1>3. ASSUME ~Narrow(range), r # None
      PROVE  /\ sat # None /\ r.id = sat.id /\ r \in Interval
             /\ IF dir < 0 THEN Near(r.left, sat.left)
                           ELSE Near(r.right, sat.right)
  <2>1. CASE r = given /\ Narrow(given)
    <3>1. sat # None
      BY <1>3, <2>1 DEF SearchInv, LastWitness
    <3>2. /\ given.id = sat.id
          /\ IF dir < 0 THEN given.right = sat.left - Eps
                        ELSE given.left = sat.right + Eps
      BY <3>1 DEF SearchInv, LastWitness
    <3>3. QED
      BY <1>1, <2>1, <3>1, <3>2 DEF Near, Narrow, Abs, Interval
  <2>2. CASE r = sat
    BY <1>1, <1>3, <2>2 DEF Near, Abs, Interval
  <2>3. QED
    BY <2>1, <2>2
<1>4. ASSUME ~Narrow(range), r # None
      PROVE  /\ r.id \in DOMAIN traces
             /\ IF dir < 0 THEN Near(r.left, traces[r.id].left)
                           ELSE Near(r.right, traces[r.id].right)
             /\ corner[-1] # None => corner[-1].id < r.id
  BY <1>3, <1>4 DEF WitnessInv, TracesKept
<1>5. CASE dir < 0
  <2>1. corner'[-1] = r /\ corner'[1] = None
    BY <1>1, <1>2, <1>5 DEF WitnessInv, TracesKept
  <2>2. CornersWitnessed'
    BY <1>2, <1>4, <1>5, <2>1 DEF CornersWitnessed, Narrow
  <2>3. TracesKept'
    BY <1>2, <2>1 DEF TracesKept
  <2>4. QED
    BY <2>2, <2>3 DEF WitnessInv
<1>6. CASE ~(dir < 0)
  <2>1. corner'[-1] = corner[-1] /\ corner'[1] = r
    BY <1>1, <1>2, <1>6
  <2>2. CornersWitnessed'
    BY <1>2, <1>4, <1>6, <2>1 DEF WitnessInv, CornersWitnessed, Narrow
  <2>3. TracesKept'
    BY <1>2, <1>6 DEF TracesKept, Searching
  <2>4. QED
    BY <2>2, <2>3 DEF WitnessInv
<1>7. QED
  BY <1>5, <1>6

\* The id printed with a corner names a trace of the search of that corner, and
\* that trace ends within three precision limits of the corner; no range wide
\* enough to be searched is excepted.
THEOREM CornersAreWitnessed == Spec => []CornersWitnessed
<1>1. Init => WitnessInv
  BY DEF Init, WitnessInv, CornersWitnessed, TracesKept
<1>2. SearchInv /\ WitnessInv /\ [Next]_vars => WitnessInv'
  <2> SUFFICES ASSUME SearchInv, WitnessInv, [Next]_vars PROVE WitnessInv'
    OBVIOUS
  <2>0. TypeOK
    BY DEF SearchInv
  <2>1. CASE ReturnRange
    BY <2>1, ReturnKeepsTraces DEF ReturnRange, Searching
  <2>2. CASE SatNear
    BY <2>0, <2>2, FoundKeepsTraces, HalvesInt DEF SatNear, Searching
  <2>3. CASE UnsatNear
    BY <2>3 DEF UnsatNear, WitnessInv, CornersWitnessed, TracesKept, Searching,
                Narrow
  <2>4. CASE SatFar
    BY <2>0, <2>4, FoundKeepsTraces, HalvesInt DEF SatFar, Searching
  <2>5. CASE UnsatFar
    BY <2>5, ReturnKeepsTraces DEF UnsatFar, Searching
  <2>6. CASE Report \/ Ended \/ UNCHANGED vars
    BY <2>6 DEF Report, Ended, vars, WitnessInv, CornersWitnessed, TracesKept,
                Searching, Narrow
  <2>7. QED
    BY <2>1, <2>2, <2>3, <2>4, <2>5, <2>6 DEF Next
<1>3. QED
  BY <1>1, <1>2, SearchInvariant, PTL DEF Spec, WitnessInv

-------------------------------------------------------------------------------
\* Both corners or neither

Lower == [left |-> range.left, right |-> Mid(range)]

Upper == [left |-> Mid(range), right |-> range.right]

SomeFound == <<Lower, TRUE>> \in verdicts \/ <<Upper, TRUE>> \in verdicts

BothMissed == <<Lower, FALSE>> \in verdicts /\ <<Upper, FALSE>> \in verdicts

\* A search has a witness as soon as one of the two halves of the widened range
\* was sat, and gives up only when both were unsat; no goal was both.
VerdictsInv ==
  /\ pc = "far" => ~Narrow(given)
  /\ \A h : ~(<<h, TRUE>> \in verdicts /\ <<h, FALSE>> \in verdicts)
  /\ ~Narrow(range) =>
       /\ Searching /\ sat # None => SomeFound
       /\ pc = "far" /\ sat = None => <<NearHalf(range), FALSE>> \in verdicts
       /\ (Searching /\ dir < 0) \/ (IF corner[-1] = None THEN BothMissed
                                                        ELSE SomeFound)
       /\ Searching \/ (IF corner[1] = None THEN BothMissed ELSE SomeFound)
  /\ Narrow(range) =>
       /\ Searching => sat = None /\ pc = "call"
       /\ (Searching /\ dir < 0) \/ corner[-1] # None
       /\ Searching \/ corner[1] # None

LEMMA Consistent ==
  ASSUME VerdictsInv, NEW h, NEW v \in BOOLEAN, Answer(h, v)
  PROVE  /\ \A g : ~(<<g, TRUE>> \in verdicts' /\ <<g, FALSE>> \in verdicts')
         /\ verdicts \subseteq verdicts'
         /\ <<h, v>> \in verdicts'
<1>1. /\ <<h, ~v>> \notin verdicts
      /\ verdicts' = verdicts \union {<<h, v>>}
  BY DEF Answer
<1>2. \A g : ~(<<g, TRUE>> \in verdicts /\ <<g, FALSE>> \in verdicts)
  BY DEF VerdictsInv
<1>3. CASE v = TRUE
  BY <1>1, <1>2, <1>3
<1>4. CASE v = FALSE
  BY <1>1, <1>2, <1>4
<1>5. QED
  BY <1>3, <1>4

LEMMA HalvesOfRange ==
  ASSUME TypeOK, given = range
  PROVE  /\ {NearHalf(given), FarHalf(given)} = {Lower, Upper}
         /\ NearHalf(given) = NearHalf(range)
BY DEF NearHalf, FarHalf, Lower, Upper

LEMMA FoundVerdicts ==
  ASSUME SearchInv, VerdictsInv, Searching, ~Narrow(given),
         NEW h \in {NearHalf(given), FarHalf(given)}, Found(h)
  PROVE  VerdictsInv'
<1>1. PICK w \in Witnesses(h) :
        /\ sat' = w
        /\ pc' = "call"
        /\ UNCHANGED <<range, dir, corner>>
  BY DEF Found
<1>2. /\ \A g : ~(<<g, TRUE>> \in verdicts' /\ <<g, FALSE>> \in verdicts')
      /\ verdicts \subseteq verdicts'
      /\ <<h, TRUE>> \in verdicts'
  BY Consistent DEF Found
<1>3. Lower' = Lower /\ Upper' = Upper /\ Narrow(range)' = Narrow(range)
  BY <1>1 DEF Lower, Upper, Mid, Narrow
<1>4. SomeFound => SomeFound'
  BY <1>2, <1>3 DEF SomeFound
<1>5. BothMissed => BothMissed'
  BY <1>2, <1>3 DEF BothMissed
<1>6. sat = None => given = range /\ SomeFound'
  <2> SUFFICES ASSUME sat = None PROVE given = range /\ SomeFound'
    OBVIOUS
  <2>1. given = range
    BY DEF SearchInv, LastWitness
  <2>2. h \in {Lower, Upper}
    BY <2>1, HalvesOfRange DEF SearchInv
  <2>3. QED
    BY <1>2, <1>3, <2>1, <2>2 DEF SomeFound
<1>7. ~Narrow(range)
  BY <1>6 DEF VerdictsInv
<1>8. SomeFound'
  BY <1>4, <1>6, <1>7 DEF VerdictsInv
<1>9. Searching'
  BY <1>1 DEF Searching
<1>10. QED
  BY <1>1, <1>2, <1>3, <1>4, <1>5, <1>7, <1>8, <1>9 DEF VerdictsInv

\* A search that was not cut off by the precision limit returns NULL only when
\* both halves of the widened range were unsat.
LEMMA ReturnVerdicts ==
  ASSUME SearchInv, VerdictsInv, Searching, NEW r, Return(r),
         verdicts \subseteq verdicts',
         \A g : ~(<<g, TRUE>> \in verdicts' /\ <<g, FALSE>> \in verdicts'),
         \/ r = given /\ Narrow(given)
         \/ /\ r = sat
            /\ pc = "far"
            /\ <<FarHalf(given), FALSE>> \in verdicts'
  PROVE  VerdictsInv'
<1>1. /\ corner' = [corner EXCEPT ![dir] = r]
      /\ sat' = None
      /\ dir' = 1
      /\ pc' = IF dir < 0 THEN "call" ELSE "report"
      /\ UNCHANGED range
  BY DEF Return
<1>2. /\ given # None /\ dir \in {-1, 1}
      /\ corner \in [{-1, 1} -> Interval \union {None}]
  BY DEF SearchInv, TypeOK
<1>3. Lower' = Lower /\ Upper' = Upper /\ Narrow(range)' = Narrow(range)
  BY <1>1 DEF Lower, Upper, Mid, Narrow
<1>4. SomeFound => SomeFound'
  BY <1>3 DEF SomeFound
<1>5. BothMissed => BothMissed'
  BY <1>3 DEF BothMissed
<1>6. ASSUME ~Narrow(range)
      PROVE  IF r = None THEN BothMissed' ELSE SomeFound'
  <2>1. CASE sat # None
    BY <1>2, <1>4, <1>6, <2>1 DEF VerdictsInv
  <2>2. CASE sat = None
    <3>1. given = range
      BY <2>2 DEF SearchInv, LastWitness
    <3>2. /\ r = None /\ pc = "far"
          /\ <<FarHalf(given), FALSE>> \in verdicts'
      BY <1>6, <2>2, <3>1
    <3>3. <<NearHalf(given), FALSE>> \in verdicts'
      BY <1>6, <2>2, <3>1, <3>2 DEF VerdictsInv
    <3>4. {NearHalf(given), FarHalf(given)} = {Lower, Upper}
      BY <3>1, HalvesOfRange DEF SearchInv
    <3>5. <<Lower, FALSE>> \in verdicts' /\ <<Upper, FALSE>> \in verdicts'
      BY <3>2, <3>3, <3>4
    <3>6. QED
      BY <1>3, <3>2, <3>5 DEF BothMissed
  <2>3. QED
    BY <2>1, <2>2
<1>7. ASSUME Narrow(range)
      PROVE  r # None
  BY <1>2, <1>7 DEF VerdictsInv
<1>8. CASE dir < 0
  <2>1. corner'[-1] = r /\ Searching' /\ pc' = "call"
    BY <1>1, <1>2, <1>8 DEF Searching
  <2>2. QED
    BY <1>1, <1>3, <1>6, <1>7, <2>1 DEF VerdictsInv
<1>9. CASE ~(dir < 0)
  <2>1. /\ corner'[-1] = corner[-1] /\ corner'[1] = r
        /\ ~Searching' /\ pc' = "report"
    BY <1>1, <1>2, <1>9 DEF Searching
  <2>2. QED
    BY <1>1, <1>3, <1>4, <1>5, <1>6, <1>7, <1>9, <2>1 DEF VerdictsInv
<1>10. QED
  BY <1>8, <1>9

LEMMA VerdictsInvariant == Spec => []VerdictsInv
<1>1. Init => VerdictsInv
  BY DEF Init, VerdictsInv, Searching
<1>2. SearchInv /\ VerdictsInv /\ [Next]_vars => VerdictsInv'
  <2> SUFFICES ASSUME SearchInv, VerdictsInv, [Next]_vars PROVE VerdictsInv'
    OBVIOUS
  <2>1. CASE ReturnRange
    <3>1. \A g : ~(<<g, TRUE>> \in verdicts' /\ <<g, FALSE>> \in verdicts')
      BY <2>1 DEF ReturnRange, VerdictsInv
    <3>2. QED
      BY <2>1, <3>1, ReturnVerdicts DEF ReturnRange, Searching
  <2>2. CASE SatNear
    BY <2>2, FoundVerdicts DEF SatNear, Searching
  <2>3. CASE UnsatNear
    <3>1. /\ Answer(NearHalf(given), FALSE)
          /\ pc = "call" /\ ~Narrow(given) /\ pc' = "far"
          /\ UNCHANGED <<range, dir, given, sat, corner>>
      BY <2>3 DEF UnsatNear, Missed
    <3>2. /\ \A g : ~(<<g, TRUE>> \in verdicts' /\ <<g, FALSE>> \in verdicts')
          /\ verdicts \subseteq verdicts'
          /\ <<NearHalf(given), FALSE>> \in verdicts'
      BY <3>1, Consistent
    <3>3. /\ Lower' = Lower /\ Upper' = Upper
          /\ Narrow(range)' = Narrow(range)
          /\ NearHalf(range)' = NearHalf(range)
          /\ Narrow(given)' = Narrow(given)
      BY <3>1 DEF Lower, Upper, Mid, Narrow, NearHalf
    <3>4. (SomeFound => SomeFound') /\ (BothMissed => BothMissed')
      BY <3>2, <3>3 DEF SomeFound, BothMissed
    <3>5. sat = None => given = range
      BY <3>1 DEF SearchInv, LastWitness, Searching
    <3>6. ~Narrow(range)
      BY <3>1, <3>5 DEF VerdictsInv, Searching
    <3>7. Searching /\ Searching'
      BY <3>1 DEF Searching
    <3>8. QED
      BY <3>1, <3>2, <3>3, <3>4, <3>5, <3>6, <3>7 DEF VerdictsInv
  <2>4. CASE SatFar
    BY <2>4, FoundVerdicts DEF SatFar, VerdictsInv, Searching
  <2>5. CASE UnsatFar
    BY <2>5, Consistent, ReturnVerdicts DEF UnsatFar, Missed, Searching
  <2>6. CASE Report \/ Ended \/ UNCHANGED vars
    <3>1. /\ UNCHANGED <<range, dir, given, sat, corner, verdicts>>
          /\ Searching' = Searching /\ (pc' = "far" <=> pc = "far")
          /\ (pc' = "call" <=> pc = "call")
      BY <2>6 DEF Report, Ended, vars, Searching
    <3>2. QED
      BY <3>1 DEF VerdictsInv, SomeFound, BothMissed, Lower, Upper, Mid, Narrow,
                  NearHalf
  <2>7. QED
    BY <2>1, <2>2, <2>3, <2>4, <2>5, <2>6 DEF Next
<1>3. QED
  BY <1>1, <1>2, SearchInvariant, PTL DEF Spec

\* Neither search finds a corner without the other one: the summary, which
\* prints the right corner whenever there is a left one, never reads NULL as
\* long as the solver's children do not fail.
THEOREM CornersComeTogether == Spec => []CornersTogether
<1>1. VerdictsInv => CornersTogether
  <2> SUFFICES ASSUME VerdictsInv, ~Searching
               PROVE  corner[-1] = None <=> corner[1] = None
    BY DEF CornersTogether, Searching
  <2>1. ~(SomeFound /\ BothMissed)
    BY DEF VerdictsInv, SomeFound, BothMissed
  <2>2. QED
    BY <2>1 DEF VerdictsInv
<1>2. QED
  BY <1>1, VerdictsInvariant, PTL
===============================================================================
