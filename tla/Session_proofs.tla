---------------------------- MODULE Session_proofs ----------------------------
(***************************************************************************)
(* Proofs about the dialogue and about a whole session, for any features,  *)
(* models, numbers and values, and any bounds of the run file.             *)
(***************************************************************************)
EXTENDS Session, SequenceTheorems, WellFoundedInduction, TLAPS

\* A set of numbers that is not empty has a least one.
LEMMA LeastOfNats ==
  ASSUME NEW T \in SUBSET Nat, T # {}
  PROVE  \E k \in T : \A m \in T : k <= m
<1>1. PICK k \in T : \A m \in T : ~(<<m, k>> \in OpToRel(<, Nat))
  BY NatLessThanWellFounded, WFMin
<1>2. ASSUME NEW m \in T PROVE k <= m
  <2>1. m \in Nat /\ k \in Nat
    OBVIOUS
  <2>2. m < k => <<m, k>> \in OpToRel(<, Nat)
    BY <2>1 DEF OpToRel
  <2>3. ~(m < k)
    BY <1>1, <2>2
  <2> QED
    BY <2>1, <2>3
<1> QED
  BY <1>2

\* A set that has 0 and with every number below n the next one has all up to n:
\* there is no least one outside of it.
LEMMA Upwards ==
  ASSUME NEW n \in Nat, NEW T, 0 \in T, \A k \in 1..n : k - 1 \in T => k \in T
  PROVE  \A k \in 0..n : k \in T
<1> SUFFICES ASSUME NEW k \in 0..n, k \notin T PROVE FALSE
  OBVIOUS
<1> DEFINE rest == {m \in 0..n : m \notin T}
<1>1. rest \in SUBSET Nat /\ rest # {}
  OBVIOUS
<1>2. PICK m \in rest : \A l \in rest : m <= l
  BY <1>1, LeastOfNats
<1>3. m \in 1..n /\ m - 1 \in 0..n
  BY <1>2
<1>4. m - 1 \in T
  BY <1>2, <1>3
<1> QED
  BY <1>2, <1>3, <1>4

-------------------------------------------------------------------------------
\* The dialogue

\* A value is asked for only with a parameter in hand.
Entering == pc = "enter" => id \in 1..Count

\* The run file as a sequence, so that it has a length.
LogShape == runFile \in Seq(Ids \union Values)

IInv == TypeOK /\ Entering /\ LogShape

\* What is pending is not a number.
Left == [kind: {"fresh", "point", "part", "word", "eof"}]

LEMMA CountNat == TypeOK => Count \in Nat
BY FeaturesAssumption DEF TypeOK, Count

\* What scanf("%d") leaves behind is never a whole number.
LEMMA IntLeaves ==
  ASSUME TypeOK, NEW t \in Pending, NEW old \in Ids
  PROVE  ScanInt(t, old) \in Ids /\ AfterInt(t) \subseteq Left
<1>1. t \in Tokens \union Left
  BY DEF TypeOK, Pending, Left
<1>2. ScanInt(t, old) \in Ids
  BY InputAssumption DEF ScanInt, Numbers
<1>3. AfterInt(t) \subseteq Left
  <2>1. t.kind \notin {"int", "sign", "frac", "hex"} => t \in Left
    BY <1>1 DEF Tokens, Numbers, Left
  <2>2. Fresh \in Left /\ [kind |-> "word"] \in Left /\ [kind: {"point", "part"}] \subseteq Left
    BY DEF Fresh, Left
  <2> QED
    BY <2>1, <2>2 DEF AfterInt
<1> QED
  BY <1>2, <1>3

\* Nor is what scanf("%lf"), scanf("%s") and scanf("%c") leave behind.
LEMMA RestLeft ==
  ASSUME TypeOK, NEW t \in Pending
  PROVE  AfterReal(t) \in Left /\ AfterText(t) \in Left
<1>1. t \in Tokens \union Left
  BY DEF TypeOK, Pending, Left
<1>2. t.kind \in {"word", "eof"} => t \in Left
  BY <1>1 DEF Tokens, Numbers, Left
<1> QED
  BY <1>2 DEF AfterReal, AfterText, Fresh, Left

\* A part of the run file is a run file.
LEMMA CutShort ==
  ASSUME NEW S, NEW s \in Seq(S), NEW n \in 0 .. Len(s)
  PROVE  SubSeq(s, 1, n) \in Seq(S) /\ Len(SubSeq(s, 1, n)) \in 0 .. Len(s)
<1>1. Len(s) \in Nat /\ \A i \in 1 .. Len(s) : s[i] \in S
  BY LenProperties, ElementOfSeq
<1>2. n \in Int /\ 1 \in Int /\ \A i \in 1 .. n : s[i] \in S
  BY <1>1
<1>3. SubSeq(s, 1, n) \in Seq(S) /\ Len(SubSeq(s, 1, n)) = IF 1 <= n THEN n - 1 + 1 ELSE 0
  BY <1>2, SubSeqProperties
<1> QED
  BY <1>1, <1>3

LEMMA InitIInv == Init => IInv
<1> SUFFICES ASSUME Init PROVE IInv
  OBVIOUS
<1>1. Count \in Nat
  BY FeaturesAssumption DEF Init, Count
<1>2. TypeOK
  <2>1. paramValues \in [1..Count -> {Unset} \union Values]
    BY DEF Init
  <2>2. Len(runFile) \in 0..MaxLines /\ id \in Ids
    BY InputAssumption DEF Init
  <2>3. pc \in {"menu", "choose", "enter", "update", "done", "crashed", "exited"}
    BY DEF Init
  <2> QED
    BY <2>1, <2>2, <2>3 DEF Init, TypeOK, Fresh
<1>3. LogShape /\ Entering
  BY <1>1 DEF Init, LogShape, Entering
<1> QED
  BY <1>2, <1>3 DEF IInv

LEMMA StepIInv == IInv /\ [Next]_vars => IInv'
<1> SUFFICES ASSUME IInv, [Next]_vars PROVE IInv'
  OBVIOUS
<1> USE DEF IInv
<1>0. Count \in Nat
  BY CountNat
<1>1. CASE Menu
  <2>1. (flag \/ \E n \in 1..Count : paramValues[n] # Unset) \in BOOLEAN
    OBVIOUS
  <2>2. TypeOK'
    BY <1>1, <2>1, InputAssumption DEF Menu, TypeOK, Count
  <2>3. Entering' /\ LogShape'
    BY <1>1 DEF Menu, Entering, LogShape, Count
  <2> QED
    BY <2>2, <2>3
<1>2. CASE Reject \/ Choose \/ Finish
  <2>1. Read
    BY <1>2 DEF Reject, Choose, Finish
  <2>2. PICK t \in Pending : id' = ScanInt(t, id) /\ input' \in AfterInt(t)
    BY <2>1 DEF Read
  <2>3. id' \in Ids /\ input' \in Left
    BY <2>2, IntLeaves DEF TypeOK
  <2>4. UNCHANGED <<feature, paramValues, texts>> /\ Count' = Count
    BY <2>1 DEF Read, Count
  <2>5. LogShape' /\ Len(runFile') \in 0..MaxLines
    <3>1. id' \in Ids /\ 0 \in Ids
      BY <2>3, InputAssumption
    <3>2. UNCHANGED runFile \/ \E n \in Ids : Log(n)
      BY <1>2, <3>1 DEF Reject, Choose, Finish
    <3>3. runFile \in Seq(Ids \union Values) /\ Len(runFile) \in 0 .. MaxLines /\ MaxLines \in Nat
      BY InputAssumption DEF LogShape, TypeOK
    <3>4. CASE UNCHANGED runFile
      BY <3>3, <3>4 DEF LogShape
    <3>5. CASE \E n \in Ids : Log(n)
      <4>1. PICK n \in Ids : Len(runFile) < MaxLines /\ runFile' = Append(runFile, n)
        BY <3>5 DEF Log
      <4>2. runFile' \in Seq(Ids \union Values) /\ Len(runFile') = Len(runFile) + 1
        BY <3>3, <4>1
      <4>3. Len(runFile') \in 0 .. MaxLines
        BY <3>3, <4>1, <4>2
      <4> QED
        BY <4>2, <4>3 DEF LogShape
    <3> QED
      BY <3>2, <3>4, <3>5
  <2>6. /\ flag' \in BOOLEAN
        /\ pc' \in {"menu", "choose", "enter", "update", "done", "crashed", "exited"}
        /\ pc' = "enter" => id' \in 1..Count
    <3>1. CASE Reject
      BY <3>1, <2>1 DEF Reject, Read, TypeOK
    <3>2. CASE Choose
      BY <3>2 DEF Choose, TypeOK
    <3>3. CASE Finish
      <4>1. (flag /\ AllSet) \in BOOLEAN
        BY DEF AllSet
      <4> QED
        BY <3>3, <4>1 DEF Finish
    <3> QED
      BY <1>2, <3>1, <3>2, <3>3
  <2>7. TypeOK'
    BY <2>3, <2>4, <2>5, <2>6 DEF TypeOK, Left
  <2>8. Entering'
    BY <2>4, <2>6 DEF Entering
  <2> QED
    BY <2>5, <2>7, <2>8
<1>3. CASE Enter
  <2>1. PICK t \in Pending, v \in Values :
          /\ input' = AfterReal(t)
          /\ paramValues' = IF ReadsReal(t) \/ paramValues[id] = Unset
                            THEN [paramValues EXCEPT ![id] = v] ELSE paramValues
    BY <1>3 DEF Enter
  <2>2. id \in 1..Count /\ paramValues \in [1..Count -> {Unset} \union Values]
    BY <1>3 DEF Enter, Entering, TypeOK
  <2>3. input' \in Left
    BY <2>1, RestLeft
  <2>4. UNCHANGED <<feature, flag, id, texts>> /\ Count' = Count /\ pc' = "menu"
    BY <1>3 DEF Enter, Count
  <2>5. paramValues' \in [1..Count -> {Unset} \union Values] /\ paramValues'[id] \in Values
    BY <2>1, <2>2
  <2>6. LogShape' /\ Len(runFile') \in 0..MaxLines
    <3>1. Log(paramValues'[id])
      BY <1>3 DEF Enter
    <3> QED
      BY <2>5, <3>1, InputAssumption DEF LogShape, Log, TypeOK
  <2>7. TypeOK'
    BY <2>3, <2>4, <2>5, <2>6 DEF TypeOK, Left
  <2>8. Entering'
    BY <2>4 DEF Entering
  <2> QED
    BY <2>6, <2>7, <2>8
<1>4. CASE UpdateFails \/ Update \/ Stopped \/ UNCHANGED vars
  <2>1. /\ UNCHANGED <<feature, paramValues, flag, id, input, runFile>>
        /\ pc' \in {pc, "exited", "done"}
    BY <1>4 DEF UpdateFails, Update, Stopped, vars
  <2>2. Count' = Count
    BY <2>1 DEF Count
  <2> QED
    BY <2>1, <2>2 DEF TypeOK, Entering, LogShape
<1>5. CASE UpdateCrashes
  <2>1. UNCHANGED <<feature, paramValues, flag, id, input>> /\ pc' = "crashed"
    BY <1>5 DEF UpdateCrashes
  <2>2. PICK n \in 0 .. Len(runFile) : runFile' = SubSeq(runFile, 1, n)
    BY <1>5 DEF UpdateCrashes
  <2>3. runFile' \in Seq(Ids \union Values) /\ Len(runFile') \in 0 .. Len(runFile)
    BY <2>2, CutShort DEF LogShape
  <2>4. Len(runFile') \in 0 .. MaxLines
    BY <2>3, InputAssumption DEF TypeOK
  <2>5. Count' = Count
    BY <2>1 DEF Count
  <2> QED
    BY <2>1, <2>3, <2>4, <2>5 DEF TypeOK, Entering, LogShape
<1> QED
  BY <1>1, <1>2, <1>3, <1>4, <1>5 DEF Next

\* The values, the input and the run file (getParamValueFromIO,
\* requestFeatureParamChoice, updateFeatureParamList) stay in their ranges.
THEOREM ParamTypeCorrect == Spec => []TypeOK
BY InitIInv, StepIInv, PTL DEF Spec, IInv

-------------------------------------------------------------------------------
\* The dialogue, repeated from its run file

\* The dialogue fed with lines, as a function from the number of lines.
ReplayOf(f, lines) ==
  f = [n \in 0..Len(lines) |-> IF n = 0 THEN ReplayStart ELSE ReplayLine(f[n - 1], lines[n])]

Over == Count # 0 /\ pc \in {"update", "done", "exited"}

Here == [values |-> paramValues, chosen |-> IF pc = "enter" THEN id ELSE 0, ended |-> Over]

\* f replays the run file up to here, and does not end before.
Follows(f) ==
  /\ ReplayOf(f, runFile)
  /\ f[Len(runFile)] = Here
  /\ \A n \in 0 .. Len(runFile) - 1 : ~f[n].ended

Followed == \E f : Follows(f)

\* The dialogue ends when all values are set.
Flagged == pc = "choose" /\ Count # 0 /\ AllSet => flag

\* Without parameters there is no dialogue.
NoDialogue == Count = 0 => pc = "done" /\ runFile = << >>

\* Only a crash loses lines.
RInv == (pc # "crashed" => Followed) /\ Flagged

\* The replay, line by line.
LEMMA ReplayLines ==
  ASSUME NEW lines, Len(lines) \in Nat, NEW f, ReplayOf(f, lines)
  PROVE  /\ f = [k \in 0..Len(lines) |-> f[k]]
         /\ f[0] = ReplayStart
         /\ \A k \in 1..Len(lines) : f[k] = ReplayLine(f[k - 1], lines[k])
<1> DEFINE n == Len(lines)
    h == [k \in 0..n |-> IF k = 0 THEN ReplayStart ELSE ReplayLine(f[k - 1], lines[k])]
<1>1. f = h
  BY DEF ReplayOf
<1> HIDE DEF n
<1>2. h[0] = ReplayStart /\ \A k \in 1..n : h[k] = ReplayLine(f[k - 1], lines[k])
  BY DEF n
<1>3. h = [k \in 0..n |-> h[k]]
  OBVIOUS
<1> HIDE DEF h
<1> QED
  BY <1>1, <1>2, <1>3 DEF n

\* What a line does.
LEMMA LineReplayed ==
  ASSUME NEW V, NEW line
  PROVE  /\ \A c : c # 0 => ReplayLine([values |-> V, chosen |-> c, ended |-> FALSE], line)
                              = [values |-> [V EXCEPT ![c] = line], chosen |-> 0, ended |-> FALSE]
         /\ line # 0 => ReplayLine([values |-> V, chosen |-> 0, ended |-> FALSE], line)
                          = [values |-> V, chosen |-> line, ended |-> FALSE]
         /\ ReplayLine([values |-> V, chosen |-> 0, ended |-> FALSE], 0)
              = [values |-> V, chosen |-> 0, ended |-> \A k \in 1..Count : V[k] # Unset]
<1>1. ASSUME NEW c, c # 0
      PROVE  ReplayLine([values |-> V, chosen |-> c, ended |-> FALSE], line)
               = [values |-> [V EXCEPT ![c] = line], chosen |-> 0, ended |-> FALSE]
  BY <1>1 DEF ReplayLine
<1>2. ASSUME line # 0
      PROVE  ReplayLine([values |-> V, chosen |-> 0, ended |-> FALSE], line)
               = [values |-> V, chosen |-> line, ended |-> FALSE]
  BY <1>2 DEF ReplayLine
<1>3. ReplayLine([values |-> V, chosen |-> 0, ended |-> FALSE], 0)
        = [values |-> V, chosen |-> 0, ended |-> \A k \in 1..Count : V[k] # Unset]
  BY DEF ReplayLine
<1> QED
  BY <1>1, <1>2, <1>3

\* There is one replay.
LEMMA ReplayUnique ==
  ASSUME NEW lines \in Seq(Ids \union Values), NEW f, NEW g,
         ReplayOf(f, lines), ReplayOf(g, lines)
  PROVE  f = g
<1> DEFINE n == Len(lines)
    T == {k \in 0..n : f[k] = g[k]}
<1>1. n \in Nat
  BY LenProperties
<1> HIDE DEF n
<1>4. f[0] = ReplayStart /\ \A k \in 1..n : f[k] = ReplayLine(f[k - 1], lines[k])
  BY <1>1, ReplayLines DEF n
<1>5. g[0] = ReplayStart /\ \A k \in 1..n : g[k] = ReplayLine(g[k - 1], lines[k])
  BY <1>1, ReplayLines DEF n
<1>6. 0 \in T
  BY <1>1, <1>4, <1>5
<1>7. ASSUME NEW k \in 1..n, k - 1 \in T PROVE k \in T
  BY <1>1, <1>4, <1>5, <1>7
<1>8. \A k \in 0..n : k \in T
  <2> HIDE DEF T
  <2>1. \A k \in 1..n : k - 1 \in T => k \in T
    BY <1>7
  <2> QED
    BY <1>1, <1>6, <2>1, Upwards
<1>9. \A k \in 0..n : f[k] = g[k]
  BY <1>8
<1>10. f = [k \in 0..n |-> f[k]] /\ g = [k \in 0..n |-> g[k]]
  BY <1>1, ReplayLines DEF n
<1> QED
  BY <1>9, <1>10

\* A line more.
LEMMA ReplayLonger ==
  ASSUME NEW lines \in Seq(Ids \union Values), NEW line \in Ids \union Values,
         NEW f, ReplayOf(f, lines), \A n \in 0 .. Len(lines) : ~f[n].ended
  PROVE  \E g : /\ ReplayOf(g, Append(lines, line))
                /\ g[Len(lines) + 1] = ReplayLine(f[Len(lines)], line)
                /\ \A n \in 0 .. Len(lines) : ~g[n].ended
<1> DEFINE n == Len(lines)
    more == Append(lines, line)
    g == [k \in 0 .. n + 1 |-> IF k = n + 1 THEN ReplayLine(f[n], line) ELSE f[k]]
<1>1. n \in Nat /\ Len(more) = n + 1 /\ more[n + 1] = line /\ \A k \in 1..n : more[k] = lines[k]
  BY LenProperties, AppendProperties
<1> HIDE DEF n, more
<1>3. f[0] = ReplayStart /\ \A k \in 1..n : f[k] = ReplayLine(f[k - 1], lines[k])
  BY <1>1, ReplayLines DEF n
<1>4. /\ \A k \in 0..n : g[k] = f[k]
      /\ g[n + 1] = ReplayLine(f[n], line)
  BY <1>1
<1>5. g = [k \in 0 .. n + 1 |-> g[k]]
  OBVIOUS
<1> HIDE DEF g
<1>6. ASSUME NEW k \in 0 .. n + 1
      PROVE  g[k] = IF k = 0 THEN ReplayStart ELSE ReplayLine(g[k - 1], more[k])
  <2>1. CASE k = 0
    BY <1>1, <1>3, <1>4, <2>1
  <2>2. CASE k \in 1..n
    <3>1. k - 1 \in 0..n /\ k \in 0..n
      BY <1>1, <2>2
    <3> QED
      BY <1>1, <1>3, <1>4, <2>2, <3>1
  <2>3. CASE k = n + 1
    <3>1. k - 1 = n /\ n \in 0..n /\ k # 0
      BY <1>1, <2>3
    <3> QED
      BY <1>1, <1>4, <2>3, <3>1
  <2> QED
    BY <1>1, <2>1, <2>2, <2>3
<1>7. ReplayOf(g, more)
  BY <1>1, <1>5, <1>6 DEF ReplayOf
<1>8. \A k \in 0..n : ~g[k].ended
  BY <1>4 DEF n
<1> QED
  BY <1>4, <1>7, <1>8 DEF n, more

\* What the run file holds says where the dialogue is.
LEMMA FollowedReplays ==
  ASSUME IInv, pc # "crashed" => Followed
  PROVE  Replays
<1> SUFFICES ASSUME pc # "crashed" PROVE Replays
  BY DEF Replays
<1>1. PICK f : Follows(f)
  BY DEF Followed
<1>2. ReplayOf(f, runFile)
  BY <1>1 DEF Follows
<1>3. ReplayOf(Replayed, runFile)
  BY <1>2 DEF ReplayOf, Replayed
<1>4. Replayed = f
  BY <1>2, <1>3, ReplayUnique DEF IInv, LogShape
<1>5. f[Len(runFile)] = Here
  BY <1>1 DEF Follows
<1>6. f[Len(runFile)].values = paramValues /\ f[Len(runFile)].ended = Over
  BY <1>5 DEF Here
<1>7. Count # 0 => f[Len(runFile)].ended = (pc \in {"update", "done", "exited"})
  BY <1>6 DEF Over
<1>8. \A n \in 0 .. Len(runFile) - 1 : ~f[n].ended
  BY <1>1 DEF Follows
<1> QED
  BY <1>4, <1>6, <1>7, <1>8 DEF Replays

\* Before anything is typed.
LEMMA EmptyFollowed ==
  ASSUME Count \in Nat, runFile = << >>, pc \in {"menu", "done"}, Count # 0 => pc = "menu",
         paramValues = [k \in 1..Count |-> Unset]
  PROVE  Followed
<1> DEFINE f == [n \in 0..0 |-> ReplayStart]
<1>1. f = [n \in 0..Len(runFile) |-> IF n = 0 THEN ReplayStart ELSE ReplayLine(f[n - 1], runFile[n])]
  OBVIOUS
<1>2. Over = FALSE
  BY DEF Over
<1>3. Here = ReplayStart
  BY <1>2 DEF Here, ReplayStart
<1>4. f[Len(runFile)] = Here
  BY <1>3
<1>5. \A n \in 0 .. Len(runFile) - 1 : ~f[n].ended
  OBVIOUS
<1> HIDE DEF f
<1>6. Follows(f)
  BY <1>1, <1>4, <1>5 DEF Follows, ReplayOf
<1> QED
  BY <1>6 DEF Followed

\* A line is written, and the dialogue goes where the replay of it goes.
LEMMA FollowedLonger ==
  ASSUME IInv, Followed, ~Over, Count' = Count,
         NEW line \in Ids \union Values, runFile' = Append(runFile, line),
         ReplayLine(Here, line) = Here'
  PROVE  Followed'
<1>1. PICK f : Follows(f)
  BY DEF Followed
<1>2. Here.ended = FALSE
  BY DEF Here, Over
<1>3. Len(runFile) \in Nat /\ runFile \in Seq(Ids \union Values)
  BY LenProperties DEF IInv, LogShape
<1>4. \A n \in 0 .. Len(runFile) : ~f[n].ended
  <2> SUFFICES ASSUME NEW n \in 0 .. Len(runFile) PROVE ~f[n].ended
    OBVIOUS
  <2>1. n = Len(runFile) \/ n \in 0 .. Len(runFile) - 1
    BY <1>3
  <2> QED
    BY <1>1, <1>2, <2>1 DEF Follows
<1>5. PICK g : /\ ReplayOf(g, Append(runFile, line))
               /\ g[Len(runFile) + 1] = ReplayLine(f[Len(runFile)], line)
               /\ \A n \in 0 .. Len(runFile) : ~g[n].ended
  BY <1>1, <1>3, <1>4, ReplayLonger DEF Follows
<1>6. Len(runFile') = Len(runFile) + 1
  BY <1>3, AppendProperties
<1>7. g[Len(runFile')] = Here'
  BY <1>1, <1>5, <1>6 DEF Follows
<1>8. \A n \in 0 .. Len(runFile') - 1 : ~g[n].ended
  BY <1>3, <1>5, <1>6
<1>9. ReplayStart' = ReplayStart
  BY DEF ReplayStart
<1>10. ReplayOf(g, runFile)'
  <2>1. \A r, l : ReplayLine(r, l)' = ReplayLine(r, l)
    BY DEF ReplayLine
  <2> QED
    BY <1>5, <1>9, <2>1 DEF ReplayOf
<1>11. Follows(g)'
  BY <1>7, <1>8, <1>10 DEF Follows
<1> QED
  BY <1>11 DEF Followed

\* Nothing is written, and the dialogue stays where the replay of it is.
LEMMA FollowedStill ==
  ASSUME Followed, UNCHANGED <<runFile, Count>>, Here' = Here
  PROVE  Followed'
<1>1. PICK f : Follows(f)
  BY DEF Followed
<1>2. ReplayStart' = ReplayStart /\ \A r, l : ReplayLine(r, l)' = ReplayLine(r, l)
  BY DEF ReplayStart, ReplayLine
<1>3. ReplayOf(f, runFile)'
  BY <1>1, <1>2 DEF Follows, ReplayOf
<1>4. Follows(f)'
  BY <1>1, <1>3 DEF Follows
<1> QED
  BY <1>4 DEF Followed

LEMMA StepRInv == IInv /\ NoDialogue /\ RInv /\ [Next]_vars => NoDialogue' /\ RInv'
<1> SUFFICES ASSUME IInv, NoDialogue, RInv, [Next]_vars PROVE NoDialogue' /\ RInv'
  OBVIOUS
<1>0. Count \in Nat /\ (pc # "crashed" => Followed) /\ Flagged
  BY CountNat DEF IInv, RInv
<1>1. CASE Menu
  <2>1. /\ pc = "menu" /\ pc' = "choose" /\ UNCHANGED <<feature, paramValues, runFile>>
        /\ flag' = (flag \/ \E n \in 1..Count : paramValues[n] # Unset)
    BY <1>1 DEF Menu
  <2>2. Count' = Count /\ Count # 0
    BY <2>1 DEF Count, NoDialogue
  <2>3. Here' = Here
    BY <2>1, <2>2 DEF Here, Over
  <2>4. Followed'
    BY <1>0, <2>1, <2>2, <2>3, FollowedStill
  <2>5. AllSet' => flag'
    <3>1. AllSet' => paramValues[1] # Unset
      BY <1>0, <2>1, <2>2 DEF AllSet
    <3> QED
      <4>1. 1 \in 1..Count
        BY <1>0, <2>2
      <4> QED
        BY <2>1, <3>1, <4>1
  <2> QED
    BY <2>2, <2>4, <2>5 DEF Flagged, NoDialogue, RInv
<1>2. CASE Reject
  <2>1. pc = "choose" /\ UNCHANGED <<feature, paramValues, runFile, flag, pc>>
    BY <1>2 DEF Reject, Read
  <2>2. Count' = Count
    BY <2>1 DEF Count
  <2>3. Here' = Here
    BY <2>1, <2>2 DEF Here, Over
  <2>4. Followed'
    BY <1>0, <2>1, <2>2, <2>3, FollowedStill
  <2>5. Flagged'
    BY <1>0, <2>1, <2>2 DEF Flagged, AllSet
  <2> QED
    BY <2>1, <2>2, <2>4, <2>5 DEF NoDialogue, RInv
<1>3. CASE Choose
  <2>1. /\ pc = "choose" /\ pc' = "enter" /\ id' \in 1..Count
        /\ UNCHANGED <<feature, paramValues>> /\ runFile' = Append(runFile, id')
    BY <1>3 DEF Choose, Read, Log
  <2>2. Count' = Count /\ Count # 0
    BY <1>0, <2>1 DEF Count, NoDialogue
  <2>3. id' \in Ids
    BY <1>3, StepIInv DEF IInv, TypeOK, Next
  <2>4. ReplayLine(Here, id') = Here'
    <3>1. Here = [values |-> paramValues, chosen |-> 0, ended |-> FALSE]
      BY <2>1 DEF Here, Over
    <3>2. Here' = [values |-> paramValues, chosen |-> id', ended |-> FALSE]
      BY <2>1, <2>2 DEF Here, Over
    <3>3. id' # 0
      BY <1>0, <2>1
    <3> QED
      BY <3>1, <3>2, <3>3, LineReplayed
  <2>5. ~Over
    BY <2>1 DEF Over
  <2>6. Followed'
    BY <1>0, <2>1, <2>2, <2>3, <2>4, <2>5, FollowedLonger
  <2> QED
    BY <2>1, <2>2, <2>6 DEF Flagged, NoDialogue, RInv
<1>4. CASE Finish
  <2>1. /\ pc = "choose" /\ id' = 0 /\ flag' = (flag /\ AllSet)
        /\ pc' = IF flag' THEN "update" ELSE "menu"
        /\ UNCHANGED <<feature, paramValues>> /\ runFile' = Append(runFile, 0)
    BY <1>4 DEF Finish, Read, Log
  <2>2. Count' = Count /\ Count # 0
    BY <2>1 DEF Count, NoDialogue
  <2>3. flag' = AllSet
    BY <1>0, <2>1, <2>2 DEF Flagged, AllSet
  <2>4. AllSet = \A k \in 1..Count : paramValues[k] # Unset
    BY DEF AllSet
  <2>5. ReplayLine(Here, 0) = Here'
    <3>1. Here = [values |-> paramValues, chosen |-> 0, ended |-> FALSE]
      BY <2>1 DEF Here, Over
    <3>2. Over' = AllSet
      BY <2>1, <2>2, <2>3 DEF Over
    <3>3. Here' = [values |-> paramValues, chosen |-> 0, ended |-> AllSet]
      BY <2>1, <2>2, <3>2 DEF Here
    <3> QED
      BY <2>4, <3>1, <3>3, LineReplayed
  <2>6. ~Over
    BY <2>1 DEF Over
  <2>7. Followed'
    BY <1>0, <2>1, <2>2, <2>5, <2>6, FollowedLonger, InputAssumption
  <2> QED
    BY <2>1, <2>2, <2>7 DEF Flagged, NoDialogue, RInv
<1>5. CASE Enter
  <2> DEFINE text == paramValues'[id]
  <2>1. /\ pc = "enter" /\ pc' = "menu" /\ id \in 1..Count
        /\ UNCHANGED <<feature, id>> /\ runFile' = Append(runFile, text)
    BY <1>5 DEF Enter, Log, IInv, Entering
  <2>2. Count' = Count /\ Count # 0
    BY <1>0, <2>1 DEF Count, NoDialogue
  <2>3. text \in Values /\ paramValues' = [paramValues EXCEPT ![id] = text]
    <3>1. PICK v \in Values, t \in Pending :
            paramValues' = IF ReadsReal(t) \/ paramValues[id] = Unset
                           THEN [paramValues EXCEPT ![id] = v] ELSE paramValues
      BY <1>5 DEF Enter
    <3>2. paramValues \in [1..Count -> {Unset} \union Values]
      BY DEF IInv, TypeOK
    <3> QED
      BY <2>1, <3>1, <3>2
  <2>4. ReplayLine(Here, text) = Here'
    <3>1. Here = [values |-> paramValues, chosen |-> id, ended |-> FALSE]
      BY <2>1 DEF Here, Over
    <3>2. Here' = [values |-> paramValues', chosen |-> 0, ended |-> FALSE]
      BY <2>1, <2>2 DEF Here, Over
    <3>3. id # 0
      BY <1>0, <2>1
    <3> HIDE DEF text
    <3> QED
      BY <2>3, <3>1, <3>2, <3>3, LineReplayed
  <2>5. ~Over
    BY <2>1 DEF Over
  <2>6. Followed'
    <3> HIDE DEF text
    <3> QED
      BY <1>0, <2>1, <2>2, <2>3, <2>4, <2>5, FollowedLonger
  <2> QED
    BY <2>1, <2>2, <2>6 DEF Flagged, NoDialogue, RInv
<1>6. CASE UpdateFails \/ Update
  <2>1. /\ pc = "update" /\ pc' \in {"exited", "done"}
        /\ UNCHANGED <<feature, paramValues, flag, id, input, runFile>>
    BY <1>6 DEF UpdateFails, Update, StopsAt
  <2>2. Count' = Count
    BY <2>1 DEF Count
  <2>3. Here' = Here
    BY <2>1, <2>2 DEF Here, Over
  <2>4. Followed'
    BY <1>0, <2>1, <2>2, <2>3, FollowedStill
  <2> QED
    BY <2>1, <2>2, <2>4 DEF Flagged, NoDialogue, RInv
<1>7. CASE Stopped \/ UNCHANGED vars
  <2>1. UNCHANGED vars
    BY <1>7 DEF Stopped
  <2>2. UNCHANGED Count
    BY <2>1 DEF vars, Count
  <2>3. Here' = Here
    BY <2>1, <2>2 DEF Here, Over, vars
  <2>4. pc # "crashed" => Followed'
    BY <1>0, <2>1, <2>2, <2>3, FollowedStill DEF vars
  <2> QED
    BY <1>0, <2>1, <2>2, <2>4 DEF Flagged, AllSet, NoDialogue, RInv, vars
<1>8. CASE UpdateCrashes
  <2>1. pc = "update" /\ pc' = "crashed" /\ UNCHANGED feature
    BY <1>8 DEF UpdateCrashes, StopsAt
  <2>2. Count' = Count /\ Count # 0
    BY <2>1 DEF Count, NoDialogue
  <2> QED
    BY <2>1, <2>2 DEF Flagged, NoDialogue, RInv
<1> QED
  BY <1>1, <1>2, <1>3, <1>4, <1>5, <1>6, <1>7, <1>8 DEF Next

LEMMA InitRInv == Init => NoDialogue /\ RInv
<1> SUFFICES ASSUME Init PROVE NoDialogue /\ RInv
  OBVIOUS
<1>1. Count \in Nat
  BY InitIInv, CountNat DEF IInv
<1>2. /\ runFile = << >> /\ pc \in {"menu", "done"} /\ (Count # 0 => pc = "menu")
      /\ paramValues = [k \in 1..Count |-> Unset]
  BY DEF Init
<1>3. Followed
  BY <1>1, <1>2, EmptyFollowed
<1> QED
  BY <1>3 DEF Init, NoDialogue, RInv, Flagged

\* A session repeated from its run file (printed by requestFeatureParamChoice and
\* updateFeatureParamList) sets the same values and ends the dialogue where this
\* one did, unless updateFeature crashes and loses lines that are not written out;
\* for any features, numbers and values, and any length of the run file.
THEOREM DialogueReplays == Spec => []Replays
<1>1. IInv /\ RInv => Replays
  BY FollowedReplays DEF RInv
<1> QED
  BY InitIInv, StepIInv, InitRInv, StepRInv, <1>1, PTL DEF Spec

-------------------------------------------------------------------------------
\* A session: what is proved of the dialogue holds in it, whatever input the prompts
\* before it have left over

Stages == {"model", "param", "value", "number", "feature", "gap", "dialogue", "exited"}

\* Until the dialogue no parameter of the feature has a value.
Untouched ==
  /\ runFile = << >> /\ pc \in {"menu", "done"} /\ (Count # 0 => pc = "menu")
  /\ paramValues = [n \in 1..Count |-> Unset]

\* A model is there once one is chosen.
ModelThere ==
  /\ model \in {0} \union DOMAIN FeatureLists
  /\ stage \notin {"model", "exited"} => model \in DOMAIN FeatureLists

SInv ==
  /\ IInv
  /\ stage \in Stages
  /\ ModelThere
  /\ stage # "dialogue" => Untouched
  /\ RInv
  /\ stage \in {"gap", "dialogue"} => NoDialogue

\* Nothing to repeat yet.
LEMMA UntouchedRepeats == Untouched /\ Count \in Nat => RInv
BY EmptyFollowed DEF Untouched, RInv, Flagged

LEMMA UntouchedNext == (Untouched /\ Count \in Nat)' => RInv'
BY UntouchedRepeats, PTL

\* A prompt before the dialogue that leaves the feature alone.
LEMMA PromptKeeps ==
  ASSUME SInv, stage # "dialogue",
         UNCHANGED <<feature, paramValues, flag, runFile, texts, pc>>,
         id' \in Ids, input' \in Left
  PROVE  IInv' /\ Untouched' /\ RInv'
<1>1. Count' = Count
  BY DEF Count
<1>2. Untouched
  BY DEF SInv
<1>3. Untouched'
  BY <1>1, <1>2 DEF Untouched
<1>4. TypeOK' /\ LogShape'
  BY <1>1, <1>2 DEF SInv, IInv, TypeOK, LogShape, Untouched, Left
<1>5. Entering'
  BY <1>1, <1>3 DEF Entering, Untouched
<1>6. RInv'
  BY <1>1, <1>3, CountNat, UntouchedNext DEF SInv, IInv
<1> QED
  BY <1>3, <1>4, <1>5, <1>6 DEF IInv

\* What a prompt for a number does to the input.
LEMMA AskNumberKeeps ==
  ASSUME SInv, NEW name, NEW range, AskNumber(name, range)
  PROVE  id' \in Ids /\ input' \in Left
<1>1. PICK t \in Pending : input' \in AfterInt(t) /\ id' \in Answers(t)
  BY DEF AskNumber
<1>2. input' \in Left
  BY <1>1, IntLeaves DEF SInv, IInv, TypeOK
<1>3. Answers(t) \subseteq Ids
  BY InputAssumption DEF SInv, IInv, TypeOK, Answers, Numbers
<1> QED
  BY <1>1, <1>2, <1>3

LEMMA SessionInitSInv == SessionInit => SInv
<1> SUFFICES ASSUME SessionInit PROVE SInv
  OBVIOUS
<1>1. feature \in Features
  BY SessionAssumption DEF SessionInit
<1>2. Count \in Nat
  BY <1>1, FeaturesAssumption DEF Count
<1>3. TypeOK
  <2>1. paramValues \in [1..Count -> {Unset} \union Values]
    BY DEF SessionInit
  <2>2. Len(runFile) \in 0..MaxLines /\ id \in Ids
    BY InputAssumption DEF SessionInit
  <2> QED
    BY <1>1, <2>1, <2>2 DEF SessionInit, TypeOK, Fresh
<1>4. LogShape /\ Entering /\ Untouched
  BY <1>2 DEF SessionInit, LogShape, Entering, Untouched
<1> QED
  BY <1>2, <1>3, <1>4, UntouchedRepeats DEF SInv, IInv, SessionInit, Stages, ModelThere

LEMMA SessionStep == SInv /\ [SessionNext]_allVars => SInv'
<1> SUFFICES ASSUME SInv, [SessionNext]_allVars PROVE SInv'
  OBVIOUS
<1>1. CASE ChooseModel
  <2>1. id' \in Ids /\ input' \in Left
    BY <1>1, AskNumberKeeps DEF ChooseModel
  <2>2. /\ stage = "model"
        /\ UNCHANGED <<feature, paramValues, flag, runFile, texts, pc>>
    BY <1>1 DEF ChooseModel, AskNumber
  <2>3. IInv' /\ Untouched' /\ RInv'
    BY <2>1, <2>2, PromptKeeps
  <2>4. stage' \in Stages \ {"gap", "dialogue"} /\ ModelThere'
    BY <1>1, <2>2 DEF ChooseModel, AskNumber, SInv, ModelThere, Stages
  <2> QED
    BY <2>3, <2>4 DEF SInv
<1>2. CASE ChooseParam
  <2>1. id' \in Ids /\ input' \in Left
    BY <1>2, AskNumberKeeps DEF ChooseParam
  <2>2. /\ stage = "param"
        /\ UNCHANGED <<feature, paramValues, flag, runFile, texts, pc, model>>
    BY <1>2 DEF ChooseParam, AskNumber
  <2>3. IInv' /\ Untouched' /\ RInv'
    BY <2>1, <2>2, PromptKeeps
  <2>4. stage' \in Stages \ {"gap", "dialogue"} /\ ModelThere'
    BY <1>2, <2>2 DEF ChooseParam, AskNumber, SInv, ModelThere, Stages
  <2> QED
    BY <2>3, <2>4 DEF SInv
<1>3. CASE EditParam
  <2>1. input' \in Left
    BY <1>3, RestLeft DEF EditParam, SInv, IInv
  <2>2. /\ stage = "value" /\ id' \in Ids
        /\ UNCHANGED <<feature, paramValues, flag, runFile, texts, pc, model>>
    BY <1>3 DEF EditParam, SInv, IInv, TypeOK
  <2>3. IInv' /\ Untouched' /\ RInv'
    BY <2>1, <2>2, PromptKeeps
  <2>4. stage' \in Stages \ {"gap", "dialogue"} /\ ModelThere'
    BY <1>3, <2>2 DEF EditParam, SInv, ModelThere, Stages
  <2> QED
    BY <2>3, <2>4 DEF SInv
<1>4. CASE GiveNumber
  <2>1. input' \in Left
    BY <1>4, RestLeft DEF GiveNumber, SInv, IInv
  <2>2. /\ stage = "number" /\ id' \in Ids
        /\ UNCHANGED <<feature, paramValues, flag, runFile, texts, pc, model>>
    BY <1>4 DEF GiveNumber, SInv, IInv, TypeOK
  <2>3. IInv' /\ Untouched' /\ RInv'
    BY <2>1, <2>2, PromptKeeps
  <2>4. stage' \in {"number", "feature"}
    BY <1>4, <2>2 DEF GiveNumber
  <2> QED
    BY <2>2, <2>3, <2>4 DEF SInv, ModelThere, Stages
<1>5. CASE ChooseFeature
  <2>1. id' \in Ids /\ input' \in Left
    BY <1>5, AskNumberKeeps DEF ChooseFeature
  <2>2. /\ stage = "feature"
        /\ UNCHANGED <<flag, runFile, texts, model>>
    BY <1>5 DEF ChooseFeature, AskNumber
  <2>3. CASE /\ asked' \/ stage' = "exited"
             /\ UNCHANGED <<feature, paramValues, pc>>
    <3>1. IInv' /\ Untouched' /\ RInv'
      BY <2>1, <2>2, <2>3, PromptKeeps
    <3>2. stage' \in Stages \ {"gap", "dialogue"} /\ ModelThere'
      BY <1>5, <2>2, <2>3 DEF ChooseFeature, AskNumber, SInv, ModelThere, Stages
    <3> QED
      BY <3>1, <3>2 DEF SInv
  <2>4. CASE /\ id' \in DOMAIN FeatureLists[model]
             /\ feature' = FeatureLists[model][id']
             /\ paramValues' = [k \in DOMAIN feature'.params |-> Unset]
             /\ pc' = IF feature'.params = << >> THEN "done" ELSE "menu"
             /\ stage' = "gap"
    <3>1. FeatureLists[model] \in Seq(Features)
      BY <2>2, SessionAssumption DEF SInv, ModelThere
    <3>2. feature' \in Features
      BY <2>4, <3>1
    <3>3. DOMAIN feature'.params = 1..Count' /\ Count' \in Nat
      BY <3>2, FeaturesAssumption DEF Count
    <3>4. Untouched'
      BY <2>2, <2>4, <3>3 DEF SInv, Untouched
    <3>5. paramValues' \in [1..Count' -> {Unset} \union Values]
      BY <2>4, <3>3
    <3>6. TypeOK'
      BY <2>1, <2>2, <3>2, <3>4, <3>5 DEF SInv, IInv, TypeOK, Left, Untouched
    <3>7. Entering' /\ LogShape'
      BY <3>4 DEF Entering, LogShape, Untouched
    <3>8. stage' \in Stages /\ ModelThere'
      BY <2>2, <2>4 DEF SInv, ModelThere, Stages
    <3>9. RInv' /\ NoDialogue'
      <4>1. Count' = 0 => pc' = "done"
        BY <2>4, <3>2, FeaturesAssumption, EmptySeq DEF Count
      <4> QED
        BY <3>3, <3>4, <4>1, UntouchedNext DEF NoDialogue, Untouched
    <3> QED
      BY <3>4, <3>6, <3>7, <3>8, <3>9 DEF SInv, IInv
  <2> QED
    BY <1>5, <2>3, <2>4 DEF ChooseFeature
<1>6. CASE Gap
  <2>1. input' \in Left
    BY <1>6 DEF Gap, AfterText, Fresh, SInv, IInv, TypeOK, Left
  <2>2. /\ stage = "gap" /\ stage' = "dialogue" /\ id' \in Ids
        /\ UNCHANGED <<feature, paramValues, flag, runFile, texts, pc, model>>
    BY <1>6 DEF Gap, SInv, IInv, TypeOK
  <2>3. IInv' /\ RInv'
    BY <2>1, <2>2, PromptKeeps
  <2>4. NoDialogue'
    BY <2>2 DEF SInv, NoDialogue, Count
  <2> QED
    BY <2>2, <2>3, <2>4 DEF SInv, ModelThere, Stages
<1>7. CASE Dialogue
  <2>1. Next /\ UNCHANGED sessionVars /\ stage = "dialogue"
    BY <1>7 DEF Dialogue, Next
  <2>2. IInv' /\ RInv' /\ NoDialogue'
    BY <2>1, StepIInv, StepRInv DEF SInv
  <2> QED
    BY <2>1, <2>2 DEF SInv, ModelThere, sessionVars
<1>8. CASE UNCHANGED allVars
  <2>1. UNCHANGED vars /\ UNCHANGED sessionVars
    BY <1>8 DEF allVars
  <2>2. IInv'
    BY <2>1, StepIInv DEF SInv
  <2>3. Untouched' = Untouched /\ NoDialogue' = NoDialogue
    BY <2>1 DEF Untouched, NoDialogue, vars, Count
  <2>4. RInv'
    <3>1. UNCHANGED <<runFile, Count, pc>> /\ Here' = Here /\ Flagged' = Flagged
      BY <2>1 DEF vars, Count, Here, Over, Flagged, AllSet
    <3> QED
      BY <3>1, FollowedStill DEF SInv, RInv
  <2> QED
    BY <2>1, <2>2, <2>3, <2>4 DEF SInv, ModelThere, sessionVars
<1>9. CASE Crash
  <2>1. Next /\ UNCHANGED <<stage, model>> /\ stage = "dialogue"
    BY <1>9 DEF Crash, Next
  <2>2. IInv' /\ RInv' /\ NoDialogue'
    BY <2>1, StepIInv, StepRInv DEF SInv
  <2> QED
    BY <2>1, <2>2 DEF SInv, ModelThere
<1> QED
  BY <1>1, <1>2, <1>3, <1>4, <1>5, <1>6, <1>7, <1>8, <1>9 DEF SessionNext

\* In a session too the dialogue's state stays in its ranges; no prompt of main
\* (requestFeatureChoice, scanf("%c")) leaves a number to the next.
THEOREM SessionTypeCorrect == SessionSpec => []TypeOK
BY SessionInitSInv, SessionStep, PTL DEF SessionSpec, SInv, IInv

-------------------------------------------------------------------------------
\* The session, repeated from its run file

\* The menus fed with lines, as a function from the number of lines.
FeedOf(f, lines) ==
  f = [n \in 0..Len(lines) |-> IF n = 0 THEN Start ELSE Feed(f[n - 1], lines[n])]

\* They stand at s after the last line.
Fed(lines, s) == \E f : FeedOf(f, lines) /\ f[Len(lines)] = s

LEMMA FeedLines ==
  ASSUME NEW lines, Len(lines) \in Nat, NEW f, FeedOf(f, lines)
  PROVE  f[0] = Start /\ \A k \in 1..Len(lines) : f[k] = Feed(f[k - 1], lines[k])
<1> DEFINE n == Len(lines)
    h == [k \in 0..n |-> IF k = 0 THEN Start ELSE Feed(f[k - 1], lines[k])]
<1>1. f = h
  BY DEF FeedOf
<1> HIDE DEF n
<1>2. h[0] = Start /\ \A k \in 1..n : h[k] = Feed(f[k - 1], lines[k])
  BY DEF n
<1> HIDE DEF h
<1> QED
  BY <1>1, <1>2 DEF n

LEMMA FedStart == Fed(<< >>, Start)
<1> DEFINE f == [n \in 0..0 |-> Start]
<1>1. f = [n \in 0..Len(<< >>) |-> IF n = 0 THEN Start ELSE Feed(f[n - 1], << >>[n])]
  OBVIOUS
<1>2. f[Len(<< >>)] = Start
  OBVIOUS
<1> HIDE DEF f
<1> QED
  BY <1>1, <1>2 DEF Fed, FeedOf

\* A line more.
LEMMA FedLonger ==
  ASSUME NEW lines \in Seq(Int), NEW line \in Int, NEW s, Fed(lines, s)
  PROVE  Fed(Append(lines, line), Feed(s, line))
<1> DEFINE n == Len(lines)
    more == Append(lines, line)
<1>1. PICK f : FeedOf(f, lines) /\ f[n] = s
  BY DEF Fed
<1> DEFINE g == [k \in 0 .. n + 1 |-> IF k = n + 1 THEN Feed(s, line) ELSE f[k]]
<1>2. n \in Nat /\ Len(more) = n + 1 /\ more[n + 1] = line /\ \A k \in 1..n : more[k] = lines[k]
  BY LenProperties, AppendProperties
<1>3. f[0] = Start /\ \A k \in 1..n : f[k] = Feed(f[k - 1], lines[k])
  BY <1>1, <1>2, FeedLines
<1> HIDE DEF n, more
<1>4. (\A k \in 0..n : g[k] = f[k]) /\ g[n + 1] = Feed(s, line)
  BY <1>2
<1>5. g = [k \in 0 .. n + 1 |-> g[k]]
  OBVIOUS
<1> HIDE DEF g
<1>6. ASSUME NEW k \in 0 .. n + 1
      PROVE  g[k] = IF k = 0 THEN Start ELSE Feed(g[k - 1], more[k])
  <2>1. CASE k = 0
    BY <1>2, <1>3, <1>4, <2>1
  <2>2. CASE k \in 1..n
    <3>1. k - 1 \in 0..n /\ k \in 0..n
      BY <1>2, <2>2
    <3> QED
      BY <1>2, <1>3, <1>4, <2>2, <3>1
  <2>3. CASE k = n + 1
    <3>1. k - 1 = n /\ n \in 0..n /\ k # 0
      BY <1>2, <2>3
    <3> QED
      BY <1>1, <1>2, <1>4, <2>3, <3>1
  <2> QED
    BY <1>2, <2>1, <2>2, <2>3
<1>7. FeedOf(g, more)
  BY <1>2, <1>5, <1>6 DEF FeedOf
<1> QED
  BY <1>2, <1>4, <1>7 DEF Fed, more

\* There is one such place, the one the menus are found at.
LEMMA FedAgain ==
  ASSUME head \in Seq(Int), NEW s, Fed(head, s)
  PROVE  Again = s
<1> DEFINE n == Len(head)
    g == CHOOSE g : g = [k \in 0..n |-> IF k = 0 THEN Start ELSE Feed(g[k - 1], head[k])]
<1>1. n \in Nat
  BY LenProperties
<1>2. PICK f : FeedOf(f, head) /\ f[n] = s
  BY DEF Fed
<1>3. Again = g[n]
  BY DEF Again
<1>4. f = [k \in 0..n |-> IF k = 0 THEN Start ELSE Feed(f[k - 1], head[k])]
  BY <1>2 DEF FeedOf
<1>5. g = [k \in 0..n |-> IF k = 0 THEN Start ELSE Feed(g[k - 1], head[k])]
  BY <1>4
<1> HIDE DEF g
<1>6. FeedOf(g, head)
  BY <1>5 DEF FeedOf
<1>7. f[0] = Start /\ \A k \in 1..n : f[k] = Feed(f[k - 1], head[k])
  BY <1>1, <1>2, FeedLines
<1>8. g[0] = Start /\ \A k \in 1..n : g[k] = Feed(g[k - 1], head[k])
  BY <1>1, <1>6, FeedLines
<1> HIDE DEF n
<1> DEFINE T == {k \in 0..n : f[k] = g[k]}
<1>9. 0 \in T
  BY <1>1, <1>7, <1>8
<1>10. ASSUME NEW k \in 1..n, k - 1 \in T PROVE k \in T
  BY <1>1, <1>7, <1>8, <1>10
<1>11. n \in T
  <2> HIDE DEF T
  <2>1. \A k \in 1..n : k - 1 \in T => k \in T
    BY <1>10
  <2>2. \A k \in 0..n : k \in T
    BY <1>1, <1>9, <2>1, Upwards
  <2> QED
    BY <1>1, <2>2
<1> QED
  BY <1>2, <1>3, <1>11

\* Where the menus stand.
At(st, m, p, sl, ns, f) ==
  [stage |-> st, model |-> m, params |-> p, slot |-> sl, numbers |-> ns, feature |-> f]

\* What a line does at each prompt.
LEMMA ModelFed ==
  ASSUME NEW m, NEW p, NEW sl, NEW ns, NEW f, NEW line \in DOMAIN FeatureLists
  PROVE  Feed(At("model", m, p, sl, ns, f), line) = At("param", line, p, sl, ns, f)
BY DEF Feed, At

LEMMA ParamFed ==
  ASSUME NEW m, NEW p, NEW sl, NEW ns, NEW f, NEW line \in 1..ParamCount
  PROVE  Feed(At("param", m, p, sl, ns, f), line) = At("value", m, p, line, ns, f)
<1>1. line # 0
  BY SessionAssumption
<1> QED
  BY <1>1 DEF Feed, At

LEMMA NoParamFed ==
  ASSUME NEW m, NEW p, NEW sl, NEW ns, NEW f
  PROVE  Feed(At("param", m, p, sl, ns, f), 0) = At("number", m, p, sl, ns, f)
BY SessionAssumption DEF Feed, At

LEMMA ValueFed ==
  ASSUME NEW m, NEW p, NEW sl, NEW ns, NEW f, NEW line
  PROVE  Feed(At("value", m, p, sl, ns, f), line) = At("param", m, [p EXCEPT ![sl] = line], sl, ns, f)
BY DEF Feed, At

LEMMA NumberFed ==
  ASSUME NEW m, NEW p, NEW sl, NEW ns, NEW f, NEW line
  PROVE  Feed(At("number", m, p, sl, ns, f), line)
           = At(IF Len(ns) = 2 THEN "feature" ELSE "number", m, p, sl, Append(ns, line), f)
BY DEF Feed, At

LEMMA FeatureFed ==
  ASSUME NEW m, 0 \notin DOMAIN FeatureLists[m], NEW p, NEW sl, NEW ns, NEW f, NEW line
  PROVE  Feed(At("feature", m, p, sl, ns, f), line) =
           IF line = 0 THEN At("exited", m, p, sl, ns, f)
           ELSE IF line \in DOMAIN FeatureLists[m] THEN At("dialogue", m, p, sl, ns, line)
           ELSE At("feature", m, p, sl, ns, f)
<1>1. CASE line = 0
  BY <1>1 DEF Feed, At
<1>2. CASE line # 0 /\ line \in DOMAIN FeatureLists[m]
  <2>1. Feed(At("feature", m, p, sl, ns, f), line) = At("dialogue", m, p, sl, ns, line)
    BY <1>2 DEF Feed, At
  <2> QED
    BY <1>2, <2>1
<1>3. CASE line # 0 /\ line \notin DOMAIN FeatureLists[m]
  BY <1>3 DEF Feed, At
<1> QED
  BY <1>1, <1>2, <1>3

\* The numbers as they are written, the stage a repeated session is at.
Given == IF Len(numbers) < 3 THEN << >> ELSE [k \in 1..3 |-> Printed[numbers[k]]]

Mirror ==
  CASE stage = "gap" -> "dialogue"
    [] stage = "exited" /\ model = 0 -> "model"
    [] OTHER -> stage

\* The menus, fed with the lines, are where those of the session are.
Mirrored(sl, f) ==
  /\ Fed(head, At(Mirror, model, params, sl, Given, f))
  /\ stage = "value" => sl = id
  /\ stage \in {"gap", "dialogue"} => feature = FeatureLists[model][f]

\* What the prompts have read so far.
Prompts ==
  /\ params \in [1..ParamCount -> Int] /\ head \in Seq(Int)
  /\ numbers \in Seq(Reals \union {0})
  /\ stage \in {"model", "param", "value"} => numbers = << >>
  /\ stage = "number" => Len(numbers) < 3
  /\ stage = "model" => model = 0
  /\ stage = "value" => id \in 1..ParamCount

\* Only a crash loses lines.
FInv == Prompts /\ (pc # "crashed" => \E sl, f : Mirrored(sl, f))

LEMMA FInvReplays == FInv => SessionReplays
<1> SUFFICES ASSUME FInv, pc # "crashed" PROVE SessionReplays
  BY DEF SessionReplays
<1>1. PICK sl, f : Mirrored(sl, f)
  BY DEF FInv
<1>2. Again = At(Mirror, model, params, sl, Given, f)
  BY <1>1, FedAgain DEF FInv, Prompts, Mirrored
<1>3. /\ Again.model = model /\ Again.params = params /\ Again.numbers = Given
      /\ Again.stage = Mirror /\ Again.feature = f
  BY <1>2 DEF At
<1>4. Mirror = "dialogue" => stage \in {"gap", "dialogue"}
  BY DEF Mirror
<1> QED
  BY <1>1, <1>3, <1>4 DEF Mirrored, SessionReplays, Given, Mirror

LEMMA SessionInitFInv == SessionInit => FInv
<1> SUFFICES ASSUME SessionInit PROVE FInv
  OBVIOUS
<1>1. Prompts
  BY DEF SessionInit, Prompts
<1>2. Given = << >> /\ Mirror = "model"
  BY DEF SessionInit, Given, Mirror
<1>3. At(Mirror, model, params, 0, Given, 0) = Start
  BY <1>2 DEF SessionInit, At, Start
<1>4. Mirrored(0, 0)
  BY <1>3, FedStart DEF SessionInit, Mirrored
<1> QED
  BY <1>1, <1>4 DEF FInv

\* A line of the run file.
LEMMA Noted ==
  ASSUME head \in Seq(Int), NEW line \in Int, Note(<<line>>)
  PROVE  head' = Append(head, line) /\ head' \in Seq(Int)
BY AppendIsConcat, AppendProperties DEF Note

\* Sequences of numbers, one longer.
LEMMA Grown ==
  ASSUME NEW a \in Int, NEW b \in Int, NEW c \in Int
  PROVE  /\ Append(<< >>, a) = <<a>>
         /\ Append(<<a>>, b) = <<a, b>>
         /\ Append(<<a, b>>, c) = <<a, b, c>>
<1>1. << >> \in Seq(Int) /\ <<a>> \in Seq(Int) /\ <<a, b>> \in Seq(Int)
  OBVIOUS
<1>2. Append(<< >>, a) = <<a>>
  OBVIOUS
<1>3. Append(<<a>>, b) = <<a, b>>
  <2> DEFINE s == Append(<<a>>, b)
  <2>1. s \in Seq(Int) /\ Len(s) = 2 /\ s[1] = a /\ s[2] = b
    BY <1>1, AppendProperties
  <2> HIDE DEF s
  <2>2. s = [k \in 1..2 |-> s[k]]
    BY <2>1
  <2>3. [k \in 1..2 |-> s[k]] = <<a, b>>
    BY <2>1
  <2> QED
    BY <2>2, <2>3 DEF s
<1>4. Append(<<a, b>>, c) = <<a, b, c>>
  <2> DEFINE s == Append(<<a, b>>, c)
  <2>1. s \in Seq(Int) /\ Len(s) = 3 /\ s[1] = a /\ s[2] = b /\ s[3] = c
    BY <1>1, AppendProperties
  <2> HIDE DEF s
  <2>2. s = [k \in 1..3 |-> s[k]]
    BY <2>1
  <2>3. [k \in 1..3 |-> s[k]] = <<a, b, c>>
    BY <2>1
  <2> QED
    BY <2>2, <2>3 DEF s
<1> QED
  BY <1>2, <1>3, <1>4

\* Three lines at once.
LEMMA NotedThree ==
  ASSUME NEW h \in Seq(Int), NEW a \in Int, NEW b \in Int, NEW c \in Int
  PROVE  h \o <<a, b, c>> = Append(Append(Append(h, a), b), c)
<1>1. Append(h, a) \in Seq(Int) /\ Append(Append(h, a), b) \in Seq(Int)
  BY AppendProperties
<1>2. Append(Append(Append(h, a), b), c) = ((h \o <<a>>) \o <<b>>) \o <<c>>
  BY <1>1, AppendIsConcat
<1>3. (h \o <<a>>) \o <<b>> = h \o (<<a>> \o <<b>>)
  BY ConcatAssociative
<1>4. <<a>> \o <<b>> = <<a, b>> /\ <<a, b>> \o <<c>> = <<a, b, c>>
  <2>1. Append(<<a>>, b) = <<a, b>> /\ Append(<<a, b>>, c) = <<a, b, c>>
    BY Grown
  <2>2. <<a>> \in Seq(Int) /\ <<a, b>> \in Seq(Int)
    OBVIOUS
  <2> QED
    BY <2>1, <2>2, AppendIsConcat
<1>5. (h \o <<a, b>>) \o <<c>> = h \o (<<a, b>> \o <<c>>)
  BY ConcatAssociative
<1> QED
  BY <1>2, <1>3, <1>4, <1>5

\* After a crash the lines are numbers still, and nothing more is asked.
LEMMA CrashFInv ==
  ASSUME SInv, FInv, [SessionNext]_allVars, Crash \/ pc = "crashed"
  PROVE  FInv'
<1>1. stage = "dialogue" /\ Prompts
  BY DEF Crash, SInv, Untouched, FInv
<1>2. CASE Crash
  <2>1. pc' = "crashed" /\ UNCHANGED <<stage, model, params, numbers>>
    BY <1>2 DEF Crash, UpdateCrashes
  <2>2. head' \in Seq(Int)
    <3>1. head \in Seq(Int)
      BY <1>1 DEF Prompts
    <3> QED
      BY <1>2, <3>1, CutShort DEF Crash
  <2> QED
    BY <1>1, <2>1, <2>2 DEF FInv, Prompts
<1>3. CASE pc = "crashed" /\ ~Crash
  <2>1. UNCHANGED allVars
    BY <1>1, <1>3 DEF SessionNext, ChooseModel, ChooseParam, EditParam, GiveNumber, ChooseFeature,
         Gap, AskNumber, Dialogue, Menu, Reject, Read, Choose, Finish, Enter, UpdateFails, Update, StopsAt
  <2> QED
    BY <1>1, <1>3, <2>1 DEF FInv, Prompts, allVars, vars, sessionVars
<1> QED
  BY <1>2, <1>3

LEMMA SessionFInv == SInv /\ FInv /\ [SessionNext]_allVars => FInv'
<1> SUFFICES ASSUME SInv, FInv, [SessionNext]_allVars, ~Crash, pc # "crashed" PROVE FInv'
  BY CrashFInv
<1>1. PICK sl, f : Mirrored(sl, f)
  BY DEF FInv
<1>2. Prompts
  BY DEF FInv
<1>3. Ids \subseteq Int /\ id \in Ids
  BY InputAssumption DEF SInv, IInv, TypeOK
<1>4. CASE /\ UNCHANGED <<head, model, params, numbers, stage, feature>>
           /\ id' = id \/ stage # "value"
  <2>1. Mirror' = Mirror /\ Given' = Given
    BY <1>4 DEF Mirror, Given
  <2>2. Mirrored(sl, f)'
    BY <1>1, <1>4, <2>1 DEF Mirrored
  <2>3. Prompts'
    BY <1>2, <1>4 DEF Prompts
  <2> QED
    BY <2>2, <2>3 DEF FInv
<1>5. CASE ChooseModel
  <2>1. stage = "model" /\ UNCHANGED <<feature, params, numbers>> /\ id' \in Ids
    BY <1>5, AskNumberKeeps DEF ChooseModel, AskNumber
  <2>2. CASE asked'
    <3>1. UNCHANGED <<head, model, params, numbers, stage, feature>>
      BY <1>5, <2>2 DEF ChooseModel, AskNumber
    <3> QED
      BY <1>4, <2>1, <3>1
  <2>3. CASE id' = 0 /\ stage' = "exited" /\ UNCHANGED <<model, head>>
    <3>1. model = 0
      BY <1>2, <2>1 DEF Prompts
    <3>2. Mirror' = Mirror /\ Given' = Given
      BY <2>1, <2>3, <3>1 DEF Mirror, Given
    <3>3. Mirrored(sl, f)'
      BY <1>1, <2>1, <2>3, <3>2 DEF Mirrored
    <3>4. Prompts'
      BY <1>2, <2>1, <2>3 DEF Prompts
    <3> QED
      BY <3>3, <3>4 DEF FInv
  <2>4. CASE /\ id' \in DOMAIN FeatureLists /\ model' = id' /\ stage' = "param"
             /\ Note(<<id'>>)
    <3>1. head' = Append(head, id') /\ head' \in Seq(Int)
      BY <1>2, <1>3, <2>1, <2>4, Noted DEF Prompts
    <3>2. Mirror = "model" /\ Mirror' = "param" /\ Given' = Given
      BY <2>1, <2>4 DEF Mirror, Given
    <3>3. Feed(At("model", model, params, sl, Given, f), id')
            = At("param", id', params, sl, Given, f)
      BY <2>4, ModelFed
    <3>4. Fed(head, At("model", model, params, sl, Given, f))
      BY <1>1, <3>2 DEF Mirrored
    <3>5. Fed(head', At("param", id', params, sl, Given, f))
      BY <1>2, <1>3, <2>1, <3>1, <3>3, <3>4, FedLonger DEF Prompts
    <3>6. Mirrored(sl, f)'
      BY <2>1, <2>4, <3>2, <3>5 DEF Mirrored
    <3>7. Prompts'
      BY <1>2, <2>1, <2>4, <3>1 DEF Prompts
    <3> QED
      BY <3>6, <3>7 DEF FInv
  <2> QED
    BY <1>5, <2>2, <2>3, <2>4 DEF ChooseModel
<1>6. CASE ChooseParam
  <2>1. stage = "param" /\ UNCHANGED <<feature, params, numbers, model>> /\ id' \in Ids
    BY <1>6, AskNumberKeeps DEF ChooseParam, AskNumber
  <2>2. CASE asked'
    <3>1. UNCHANGED <<head, model, params, numbers, stage, feature>>
      BY <1>6, <2>2 DEF ChooseParam, AskNumber
    <3> QED
      BY <1>4, <2>1, <3>1
  <2>3. CASE ~asked'
    <3>1. /\ stage' = IF id' = 0 THEN "number" ELSE "value"
          /\ Note(<<id'>>) /\ id' \in 0..ParamCount
      BY <1>6, <2>3 DEF ChooseParam, AskNumber
    <3>2. head' = Append(head, id') /\ head' \in Seq(Int)
      BY <1>2, <1>3, <2>1, <3>1, Noted DEF Prompts
    <3>3. Mirror = "param" /\ Mirror' = stage' /\ Given' = Given
      BY <2>1, <3>1 DEF Mirror, Given
    <3>4. Fed(head', Feed(At("param", model, params, sl, Given, f), id'))
      BY <1>1, <1>2, <1>3, <2>1, <3>2, <3>3, FedLonger DEF Prompts, Mirrored
    <3>5. Prompts'
      <4>1. stage' = "value" => id' \in 1..ParamCount
        BY <3>1, SessionAssumption
      <4>2. numbers = << >>
        BY <1>2, <2>1 DEF Prompts
      <4> QED
        BY <1>2, <2>1, <3>1, <3>2, <4>1, <4>2 DEF Prompts
    <3>6. CASE id' = 0
      <4>1. Feed(At("param", model, params, sl, Given, f), 0)
              = At("number", model, params, sl, Given, f)
        BY NoParamFed
      <4>2. Mirrored(sl, f)'
        BY <2>1, <3>1, <3>3, <3>4, <3>6, <4>1 DEF Mirrored
      <4> QED
        BY <3>5, <4>2 DEF FInv
    <3>7. CASE id' # 0
      <4>1. id' \in 1..ParamCount
        BY <3>1, <3>7, SessionAssumption
      <4>2. Feed(At("param", model, params, sl, Given, f), id')
              = At("value", model, params, id', Given, f)
        BY <4>1, ParamFed
      <4>3. Mirrored(id, f)'
        BY <2>1, <3>1, <3>3, <3>4, <3>7, <4>2 DEF Mirrored
      <4> QED
        BY <3>5, <4>3 DEF FInv
    <3> QED
      BY <3>6, <3>7
  <2> QED
    BY <2>2, <2>3
<1>7. CASE EditParam
  <2>1. /\ stage = "value" /\ stage' = "param" /\ Note(<<params'[id]>>)
        /\ UNCHANGED <<feature, id, model, numbers>>
    BY <1>7 DEF EditParam
  <2>2. id \in 1..ParamCount /\ params \in [1..ParamCount -> Int] /\ sl = id
    BY <1>1, <1>2, <2>1 DEF Prompts, Mirrored
  <2>3. params' \in [1..ParamCount -> Int] /\ params' = [params EXCEPT ![id] = params'[id]]
    <3>1. PICK t \in Pending, w \in Words :
            params' = IF t.kind = "eof" THEN params ELSE [params EXCEPT ![id] = w]
      BY <1>7 DEF EditParam
    <3>2. w \in Int
      BY <3>1, SessionAssumption
    <3>3. CASE params' = params
      BY <2>2, <3>3
    <3>4. CASE params' = [params EXCEPT ![id] = w]
      BY <2>2, <3>2, <3>4
    <3> QED
      BY <3>1, <3>3, <3>4
  <2>4. head' = Append(head, params'[id]) /\ head' \in Seq(Int) /\ params'[id] \in Int
    BY <1>2, <2>1, <2>2, <2>3, Noted DEF Prompts
  <2>5. Mirror = "value" /\ Mirror' = "param" /\ Given' = Given
    BY <2>1 DEF Mirror, Given
  <2>6. Fed(head', Feed(At("value", model, params, sl, Given, f), params'[id]))
    BY <1>1, <1>2, <2>4, <2>5, FedLonger DEF Prompts, Mirrored
  <2>7. Feed(At("value", model, params, sl, Given, f), params'[id])
          = At("param", model, params', sl, Given, f)
    <3>1. Feed(At("value", model, params, sl, Given, f), params'[id])
            = At("param", model, [params EXCEPT ![sl] = params'[id]], sl, Given, f)
      BY ValueFed
    <3>2. [params EXCEPT ![sl] = params'[id]] = params'
      BY <2>2, <2>3
    <3> QED
      BY <3>1, <3>2
  <2>8. Mirrored(sl, f)'
    BY <2>1, <2>5, <2>6, <2>7 DEF Mirrored
  <2>9. Prompts'
    BY <1>2, <2>1, <2>3, <2>4 DEF Prompts
  <2> QED
    BY <2>8, <2>9 DEF FInv
<1>8. CASE GiveNumber
  <2>1. stage = "number" /\ UNCHANGED <<feature, id, model, params>>
    BY <1>8 DEF GiveNumber
  <2>2. numbers \in Seq(Reals \union {0}) /\ Len(numbers) < 3
    BY <1>2, <2>1 DEF Prompts
  <2>3. PICK n \in Reals \union {0} : numbers' = Append(numbers, n)
    BY <1>8 DEF GiveNumber
  <2>4. numbers' \in Seq(Reals \union {0}) /\ Len(numbers') = Len(numbers) + 1
        /\ Len(numbers) \in Nat
    BY <2>2, <2>3, AppendProperties, LenProperties
  <2>5. CASE Len(numbers') # 3
    <3>1. UNCHANGED <<stage, head>> /\ Given' = Given
      BY <1>8, <2>2, <2>4, <2>5 DEF GiveNumber, Given
    <3>2. Mirror' = Mirror
      BY <2>1, <3>1 DEF Mirror
    <3>3. Mirrored(sl, f)'
      BY <1>1, <2>1, <3>1, <3>2 DEF Mirrored
    <3>4. Prompts'
      BY <1>2, <2>1, <2>2, <2>4, <2>5, <3>1 DEF Prompts
    <3> QED
      BY <3>3, <3>4 DEF FInv
  <2>6. CASE Len(numbers') = 3
    <3> DEFINE a == Printed[numbers'[1]]
               b == Printed[numbers'[2]]
               c == Printed[numbers'[3]]
    <3>1. stage' = "feature" /\ Note([k \in 1..3 |-> Printed[numbers'[k]]])
      BY <1>8, <2>6 DEF GiveNumber
    <3>2. a \in Int /\ b \in Int /\ c \in Int
      <4>1. \A k \in 1..3 : numbers'[k] \in Reals \union {0}
        BY <2>4, <2>6, ElementOfSeq
      <4>2. \A r \in Reals \union {0} : Printed[r] \in Int
        <5>1. Printed \in [Reals \union {0} -> Reals \union {0}] /\ Reals \union {0} \subseteq Int
          BY SessionAssumption
        <5> QED
          BY <5>1
      <4>3. \A k \in 1..3 : Printed[numbers'[k]] \in Int
        BY <4>1, <4>2
      <4> QED
        BY <4>3
    <3>3. [k \in 1..3 |-> Printed[numbers'[k]]] = <<a, b, c>>
      OBVIOUS
    <3>4. Given = << >> /\ Given' = <<a, b, c>>
      BY <2>2, <2>6, <3>3 DEF Given
    <3> HIDE DEF a, b, c
    <3>5. head' = Append(Append(Append(head, a), b), c)
      <4>1. head \in Seq(Int) /\ head' = head \o <<a, b, c>>
        BY <1>2, <3>1, <3>3 DEF Prompts, Note
      <4> QED
        BY <3>2, <4>1, NotedThree
    <3>6. /\ Append(head, a) \in Seq(Int) /\ Append(Append(head, a), b) \in Seq(Int)
          /\ head' \in Seq(Int)
      BY <1>2, <3>2, <3>5, AppendProperties DEF Prompts
    <3>7. Mirror = "number" /\ Mirror' = "feature"
      BY <2>1, <3>1 DEF Mirror
    <3>8. Fed(head, At("number", model, params, sl, << >>, f))
      BY <1>1, <3>4, <3>7 DEF Mirrored
    <3>9. Fed(Append(head, a), At("number", model, params, sl, <<a>>, f))
      <4>1. Feed(At("number", model, params, sl, << >>, f), a)
              = At("number", model, params, sl, <<a>>, f)
        <5>1. Append(<< >>, a) = <<a>>
          BY <3>2, Grown
        <5>2. Len(<< >>) # 2
          OBVIOUS
        <5>3. Feed(At("number", model, params, sl, Given, f), a)
                = At(IF Len(Given) = 2 THEN "feature" ELSE "number",
                     model, params, sl, Append(Given, a), f)
          BY NumberFed
        <5> QED
          BY <3>4, <5>1, <5>2, <5>3
      <4> QED
        BY <1>2, <3>2, <3>8, <4>1, FedLonger DEF Prompts
    <3>10. Fed(Append(Append(head, a), b), At("number", model, params, sl, <<a, b>>, f))
      <4>1. Feed(At("number", model, params, sl, <<a>>, f), b)
              = At("number", model, params, sl, <<a, b>>, f)
        <5>1. Append(<<a>>, b) = <<a, b>>
          BY <3>2, Grown
        <5>2. Len(<<a>>) # 2
          OBVIOUS
        <5>3. Feed(At("number", model, params, sl, <<a>>, f), b)
                = At(IF Len(<<a>>) = 2 THEN "feature" ELSE "number",
                     model, params, sl, Append(<<a>>, b), f)
          BY NumberFed
        <5> QED
          BY <5>1, <5>2, <5>3
      <4> QED
        BY <3>2, <3>6, <3>9, <4>1, FedLonger
    <3>11. Fed(head', At("feature", model, params, sl, <<a, b, c>>, f))
      <4>1. Feed(At("number", model, params, sl, <<a, b>>, f), c)
              = At("feature", model, params, sl, <<a, b, c>>, f)
        <5>1. Append(<<a, b>>, c) = <<a, b, c>>
          BY <3>2, Grown
        <5>2. Len(<<a, b>>) = 2
          OBVIOUS
        <5>3. Feed(At("number", model, params, sl, <<a, b>>, f), c)
                = At(IF Len(<<a, b>>) = 2 THEN "feature" ELSE "number",
                     model, params, sl, Append(<<a, b>>, c), f)
          BY NumberFed
        <5> QED
          BY <5>1, <5>2, <5>3
      <4> QED
        BY <3>2, <3>5, <3>6, <3>10, <4>1, FedLonger
    <3>12. Mirrored(sl, f)'
      BY <2>1, <3>1, <3>4, <3>7, <3>11 DEF Mirrored
    <3>13. Prompts'
      BY <1>2, <2>1, <2>4, <3>1, <3>6 DEF Prompts
    <3> QED
      BY <3>12, <3>13 DEF FInv
  <2> QED
    BY <2>5, <2>6
<1>9. CASE ChooseFeature
  <2>1. /\ stage = "feature" /\ UNCHANGED <<params, numbers, model>> /\ id' \in Ids
        /\ Note(<<id'>>)
    BY <1>9, AskNumberKeeps DEF ChooseFeature, AskNumber
  <2>2. head' = Append(head, id') /\ head' \in Seq(Int)
    BY <1>2, <1>3, <2>1, Noted DEF Prompts
  <2>3. Mirror = "feature" /\ Given' = Given
    BY <2>1 DEF Mirror, Given
  <2>4. Fed(head', Feed(At("feature", model, params, sl, Given, f), id'))
    BY <1>1, <1>2, <1>3, <2>1, <2>2, <2>3, FedLonger DEF Prompts, Mirrored
  <2>5. /\ model \in DOMAIN FeatureLists /\ FeatureLists[model] \in Seq(Features)
        /\ model # 0
    BY <2>1, SessionAssumption DEF SInv, ModelThere
  <2>6. 0 \notin DOMAIN FeatureLists[model] /\ Len(FeatureLists[model]) \in Nat
        /\ DOMAIN FeatureLists[model] = 1..Len(FeatureLists[model])
    BY <2>5
  <2>7. CASE asked' /\ UNCHANGED <<feature, paramValues, pc>>
    <3>1. stage' = stage /\ id' \notin 0..Len(FeatureLists[model])
      BY <1>9, <2>7 DEF ChooseFeature, AskNumber
    <3>2. id' # 0 /\ id' \notin DOMAIN FeatureLists[model]
      BY <2>6, <3>1
    <3>3. Feed(At("feature", model, params, sl, Given, f), id')
            = At("feature", model, params, sl, Given, f)
      BY <2>6, <3>2, FeatureFed
    <3>4. Mirrored(sl, f)'
      BY <2>1, <2>3, <2>4, <3>1, <3>3 DEF Mirrored, Mirror
    <3>5. Prompts'
      BY <1>2, <2>1, <2>2, <3>1 DEF Prompts
    <3> QED
      BY <3>4, <3>5 DEF FInv
  <2>8. CASE id' = 0 /\ stage' = "exited" /\ UNCHANGED <<feature, paramValues, pc>>
    <3>1. Feed(At("feature", model, params, sl, Given, f), 0)
            = At("exited", model, params, sl, Given, f)
      BY <2>6, FeatureFed
    <3>2. Mirror' = "exited"
      BY <2>1, <2>5, <2>8 DEF Mirror
    <3>3. Mirrored(sl, f)'
      BY <2>1, <2>3, <2>4, <2>8, <3>1, <3>2 DEF Mirrored
    <3>4. Prompts'
      BY <1>2, <2>1, <2>2, <2>8 DEF Prompts
    <3> QED
      BY <3>3, <3>4 DEF FInv
  <2>9. CASE /\ id' \in DOMAIN FeatureLists[model]
             /\ feature' = FeatureLists[model][id']
             /\ stage' = "gap"
    <3>1. id' # 0
      BY <2>6, <2>9
    <3>2. Feed(At("feature", model, params, sl, Given, f), id')
            = At("dialogue", model, params, sl, Given, id')
      BY <2>6, <2>9, <3>1, FeatureFed
    <3>3. Mirror' = "dialogue"
      BY <2>9 DEF Mirror
    <3>4. Mirrored(sl, id)'
      BY <2>1, <2>3, <2>4, <2>9, <3>2, <3>3 DEF Mirrored
    <3>5. Prompts'
      BY <1>2, <2>1, <2>2, <2>9 DEF Prompts
    <3> QED
      BY <3>4, <3>5 DEF FInv
  <2> QED
    BY <1>9, <2>7, <2>8, <2>9 DEF ChooseFeature
<1>10. CASE Gap
  <2>1. /\ stage = "gap" /\ stage' = "dialogue"
        /\ UNCHANGED <<feature, id, model, params, numbers, head>>
    BY <1>10 DEF Gap
  <2>2. Mirror = "dialogue" /\ Mirror' = "dialogue" /\ Given' = Given
    BY <2>1 DEF Mirror, Given
  <2>3. Mirrored(sl, f)'
    BY <1>1, <2>1, <2>2 DEF Mirrored
  <2>4. Prompts'
    BY <1>2, <2>1 DEF Prompts
  <2> QED
    BY <2>3, <2>4 DEF FInv
<1>11. CASE Dialogue
  <2>1. stage = "dialogue" /\ UNCHANGED <<stage, model, params, numbers, head>>
    BY <1>11 DEF Dialogue, sessionVars
  <2>2. UNCHANGED feature
    BY <1>11 DEF Dialogue, Menu, Reject, Choose, Finish, Read, Enter, UpdateFails, Update
  <2> QED
    BY <1>4, <2>1, <2>2
<1>12. CASE UNCHANGED allVars
  BY <1>4, <1>12 DEF allVars, vars, sessionVars
<1> QED
  BY <1>5, <1>6, <1>7, <1>8, <1>9, <1>10, <1>11, <1>12 DEF SessionNext

\* In a session too the dialogue, repeated from its run file, ends where this one
\* did and with the same values, unless updateFeature crashes.
THEOREM SessionDialogueReplays == SessionSpec => []Replays
<1>1. SInv => Replays
  BY FollowedReplays DEF SInv, RInv
<1> QED
  BY SessionInitSInv, SessionStep, <1>1, PTL DEF SessionSpec

\* The menus (requestModelChoice, requestParamChoice, requestFeatureChoice and the
\* lines main writes), fed with the run file of a session, choose the same model,
\* parameters, numbers and feature, for any input and any length of the file, unless
\* updateFeature crashes and loses lines that are not written out.
THEOREM SessionRepeats == SessionSpec => []SessionReplays
BY SessionInitSInv, SessionStep, SessionInitFInv, SessionFInv, FInvReplays, PTL DEF SessionSpec

-------------------------------------------------------------------------------
\* The values in the texts

\* f takes the steps from start on.
Stepping(f, S, start, n, step) ==
  f \in [0..n -> S] /\ f[0] = start /\ \A k \in 1..n : f[k] = step[k][f[k - 1]]

\* A start and a step for every number up to n make a function.
LEMMA StepByStep ==
  ASSUME NEW S, NEW start \in S, NEW n \in Nat, NEW step \in [1..n -> [S -> S]]
  PROVE  \E f : Stepping(f, S, start, n, step)
<1> DEFINE Good(m, f) ==
      f \in [0..m -> S] /\ f[0] = start /\ \A k \in 1..m : f[k] = step[k][f[k - 1]]
    T == {m \in 0..n : \E f : Good(m, f)}
<1>1. 0 \in T
  <2>1. Good(0, [k \in 0..0 |-> start])
    OBVIOUS
  <2>2. 0 \in 0..n
    OBVIOUS
  <2> HIDE DEF Good
  <2> QED
    BY <2>1, <2>2
<1> HIDE DEF Good
<1>2. ASSUME NEW l \in 1..n, l - 1 \in T PROVE l \in T
  <2> DEFINE m == l - 1
  <2>1. m \in Nat /\ m <= n /\ m + 1 \in 1..n /\ m + 1 = l
    OBVIOUS
  <2>2. PICK f : Good(m, f)
    BY <1>2
  <2> HIDE DEF m
  <2> DEFINE g == [k \in 0 .. m + 1 |-> IF k = m + 1 THEN step[m + 1][f[m]] ELSE f[k]]
  <2>3. step[m + 1][f[m]] \in S
    BY <2>1, <2>2 DEF Good
  <2>4. g \in [0 .. m + 1 -> S] /\ g[0] = start
    BY <2>1, <2>2, <2>3 DEF Good
  <2>5. ASSUME NEW k \in 1 .. m + 1 PROVE g[k] = step[k][g[k - 1]]
    <3>1. CASE k = m + 1
      BY <2>1, <3>1
    <3>2. CASE k # m + 1
      <4>1. k \in 1..m /\ k - 1 \in 0..m /\ g[k] = f[k] /\ g[k - 1] = f[k - 1]
        BY <2>1, <3>2
      <4> QED
        BY <2>2, <4>1 DEF Good
    <3> QED
      BY <3>1, <3>2
  <2> HIDE DEF g
  <2>6. Good(l, g)
    BY <2>1, <2>4, <2>5 DEF Good
  <2> QED
    BY <2>6
<1> HIDE DEF T
<1>3. n \in T
  <2>1. \A k \in 1..n : k - 1 \in T => k \in T
    BY <1>2
  <2>2. \A k \in 0..n : k \in T
    BY <1>1, <2>1, Upwards
  <2> QED
    BY <2>2
<1> QED
  BY <1>3 DEF T, Good, Stepping

-------------------------------------------------------------------------------
\* The texts with the values in them

\* F has the first pieces of t one behind the other.
Heads(F, t, C) ==
  /\ F \in [0 .. Len(t) -> Seq(C)] /\ F[0] = << >>
  /\ \A k \in 1 .. Len(t) : F[k] = F[k - 1] \o t[k]

\* The same, as the library has it.
FlatOf(g, t) == g = [i \in 1 .. Len(t) |-> IF i = 1 THEN t[i] ELSE g[i - 1] \o t[i]]

\* Two functions that add up the same pieces agree.
LEMMA FlatUnique ==
  ASSUME NEW C, NEW t \in Seq(Seq(C)), NEW F, Heads(F, t, C), NEW g, FlatOf(g, t)
  PROVE  \A k \in 1 .. Len(t) : g[k] = F[k]
<1>1. Len(t) \in Nat /\ DOMAIN t = 1 .. Len(t) /\ \A k \in 1 .. Len(t) : t[k] \in Seq(C)
  OBVIOUS
<1> DEFINE T == {k \in 0 .. Len(t) : k # 0 => g[k] = F[k]}
<1>2. 0 \in T
  BY <1>1
<1>3. ASSUME NEW k \in 1 .. Len(t), k - 1 \in T PROVE k \in T
  <2>1. g[k] = IF k = 1 THEN t[k] ELSE g[k - 1] \o t[k]
    BY DEF FlatOf
  <2>2. F[k] = F[k - 1] \o t[k]
    BY DEF Heads
  <2>3. CASE k = 1
    <3>1. F[k - 1] = << >> /\ t[k] \in Seq(C)
      BY <1>1, <2>3 DEF Heads
    <3>2. F[k] = t[k]
      BY <2>2, <3>1
    <3> QED
      BY <2>1, <2>3, <3>2
  <2>4. CASE k # 1
    <3>1. k - 1 # 0
      BY <2>4
    <3>2. g[k - 1] = F[k - 1]
      BY <1>3, <3>1
    <3>3. g[k] = F[k]
      BY <2>1, <2>2, <2>4, <3>2
    <3> QED
      BY <3>3
  <2> QED
    BY <2>3, <2>4
<1> HIDE DEF T
<1>4. \A k \in 0 .. Len(t) : k \in T
  BY <1>1, <1>2, <1>3, Upwards
<1> QED
  BY <1>4 DEF T

\* The pieces of a text, one behind the other, make the text.
LEMMA Flattened ==
  ASSUME NEW C, NEW t \in Seq(Seq(C))
  PROVE  \E F : Heads(F, t, C) /\ FlattenSeq(t) = F[Len(t)]
<1>1. Len(t) \in Nat /\ DOMAIN t = 1 .. Len(t) /\ \A k \in 1 .. Len(t) : t[k] \in Seq(C)
  OBVIOUS
<1> DEFINE step == [k \in 1 .. Len(t) |-> [s \in Seq(C) |-> s \o t[k]]]
<1>2. step \in [1 .. Len(t) -> [Seq(C) -> Seq(C)]]
  BY <1>1
<1>3. << >> \in Seq(C)
  OBVIOUS
<1> HIDE DEF step
<1>4. PICK F : Stepping(F, Seq(C), << >>, Len(t), step)
  BY <1>1, <1>2, <1>3, StepByStep
<1>5. F \in [0 .. Len(t) -> Seq(C)] /\ F[0] = << >>
  BY <1>4 DEF Stepping
<1>6. ASSUME NEW k \in 1 .. Len(t) PROVE F[k] = F[k - 1] \o t[k]
  <2>1. F[k] = step[k][F[k - 1]] /\ k - 1 \in 0 .. Len(t)
    BY <1>1, <1>4 DEF Stepping
  <2>2. F[k - 1] \in Seq(C)
    BY <1>5, <2>1
  <2> QED
    BY <2>1, <2>2 DEF step
<1>7. Heads(F, t, C)
  BY <1>5, <1>6 DEF Heads
<1>8. CASE t = << >>
  <2>1. FlattenSeq(t) = << >> /\ Len(t) = 0
    BY <1>8 DEF FlattenSeq
  <2> QED
    BY <1>7, <2>1, <1>5
<1>9. CASE t # << >>
  <2>1. Len(t) # 0 /\ Len(t) \in 1 .. Len(t)
    BY <1>1, <1>9
  <2> DEFINE g == [i \in 1 .. Len(t) |-> F[i]]
  <2>2. FlatOf(g, t)
    <3>1. ASSUME NEW i \in 1 .. Len(t) PROVE g[i] = IF i = 1 THEN t[i] ELSE g[i - 1] \o t[i]
      <4>1. CASE i = 1
        <5>1. F[i] = F[i - 1] \o t[i] /\ F[i - 1] = << >> /\ t[i] \in Seq(C)
          BY <1>1, <1>5, <1>6, <4>1
        <5> QED
          BY <4>1, <5>1
      <4>2. CASE i # 1
        <5>1. i - 1 \in 1 .. Len(t)
          BY <1>1, <4>2
        <5>2. g[i] = F[i] /\ g[i - 1] = F[i - 1]
          BY <5>1
        <5> HIDE DEF g
        <5> QED
          BY <1>6, <4>2, <5>2
      <4> QED
        BY <4>1, <4>2
    <3>2. g = [i \in 1 .. Len(t) |-> g[i]]
      OBVIOUS
    <3> HIDE DEF g
    <3> QED
      BY <3>1, <3>2 DEF FlatOf
  <2> HIDE DEF g
  <2> DEFINE h == CHOOSE x : FlatOf(x, t)
  <2>3. FlatOf(h, t)
    BY <2>2
  <2>4. FlattenSeq(t) = h[Len(t)]
    BY <2>1 DEF FlattenSeq, FlatOf
  <2> HIDE DEF h
  <2>5. h[Len(t)] = F[Len(t)]
    BY <1>7, <2>1, <2>3, FlatUnique
  <2> QED
    BY <1>7, <2>4, <2>5
<1> QED
  BY <1>8, <1>9

\* One sequence behind another.
LEMMA Behind ==
  ASSUME NEW C, NEW a \in Seq(C), NEW b \in Seq(C), NEW c, c = a \o b
  PROVE  /\ Len(a) \in Nat /\ Len(b) \in Nat /\ c \in Seq(C) /\ Len(c) = Len(a) + Len(b)
         /\ \A j \in 1 .. Len(a) : c[j] = a[j]
         /\ \A j \in 1 .. Len(b) : c[Len(a) + j] = b[j]
OBVIOUS

\* A piece stands in the text behind those before it.
Stands(F, t, i, C) ==
  /\ F[i - 1] \in Seq(C) /\ F[i] \in Seq(C) /\ F[Len(t)] \in Seq(C)
  /\ Len(F[i]) = Len(F[i - 1]) + Len(t[i]) /\ Len(F[i]) <= Len(F[Len(t)])
  /\ \A j \in 1 .. Len(t[i]) : F[Len(t)][Len(F[i - 1]) + j] = t[i][j]

\* A piece of a text stands in it, behind the pieces before it.
LEMMA Placed ==
  ASSUME NEW C, NEW t \in Seq(Seq(C)), NEW F, Heads(F, t, C), NEW i \in 1 .. Len(t)
  PROVE  Stands(F, t, i, C)
<1> DEFINE n == Len(t)
<1>1. n \in Nat /\ i \in 1 .. n /\ i - 1 \in 0 .. n /\ i \in 0 .. n /\ n \in 0 .. n /\ t[i] \in Seq(C)
  OBVIOUS
<1>2. F[i - 1] \in Seq(C) /\ F[i] \in Seq(C) /\ F[n] \in Seq(C)
  BY <1>1 DEF Heads
<1>3. F[i] = F[i - 1] \o t[i]
  BY DEF Heads
<1>4. /\ Len(F[i]) = Len(F[i - 1]) + Len(t[i])
      /\ \A j \in 1 .. Len(t[i]) : F[i][Len(F[i - 1]) + j] = t[i][j]
  <2>1. PICK a, b, c : a = F[i - 1] /\ b = t[i] /\ c = F[i]
    OBVIOUS
  <2>2. a \in Seq(C) /\ b \in Seq(C) /\ c = a \o b
    BY <1>1, <1>2, <1>3, <2>1
  <2>3. Len(c) = Len(a) + Len(b) /\ \A j \in 1 .. Len(b) : c[Len(a) + j] = b[j]
    BY <2>2, Behind
  <2> QED
    BY <2>1, <2>3
<1> DEFINE Keeps(k) == Len(F[i]) <= Len(F[k]) /\ \A j \in 1 .. Len(F[i]) : F[k][j] = F[i][j]
           T == {k \in 0 .. n : k >= i => Keeps(k)}
<1>5. 0 \in T
  BY <1>1
<1>6. ASSUME NEW k \in 1 .. n, k - 1 \in T PROVE k \in T
  <2>1. k \in Nat /\ i \in Nat /\ k \in 0 .. n
    BY <1>1
  <2>2. CASE k < i
    BY <2>1, <2>2
  <2>3. CASE k = i
    <3>1. Keeps(k)
      BY <1>2, <2>3
    <3> QED
      BY <2>1, <3>1
  <2>4. CASE k > i
    <3>1. Keeps(k - 1)
      BY <1>6, <2>1, <2>4
    <3>2. F[k] = F[k - 1] \o t[k] /\ F[k - 1] \in Seq(C) /\ t[k] \in Seq(C)
      <4>1. k - 1 \in 0 .. n /\ k \in DOMAIN t /\ k \in 1 .. Len(t) /\ k - 1 \in 0 .. Len(t)
        BY <1>1, <2>1
      <4>2. t[k] \in Seq(C)
        BY <4>1
      <4> HIDE DEF n
      <4>3. F[k] = F[k - 1] \o t[k] /\ F[k - 1] \in Seq(C)
        BY <4>1 DEF Heads
      <4> QED
        BY <4>2, <4>3
    <3>3. /\ Len(F[k]) = Len(F[k - 1]) + Len(t[k])
          /\ \A j \in 1 .. Len(F[k - 1]) : F[k][j] = F[k - 1][j]
      <4>1. PICK a, b, c : a = F[k - 1] /\ b = t[k] /\ c = F[k]
        OBVIOUS
      <4>2. a \in Seq(C) /\ b \in Seq(C) /\ c = a \o b
        BY <3>2, <4>1
      <4>3. Len(c) = Len(a) + Len(b) /\ \A j \in 1 .. Len(a) : c[j] = a[j]
        BY <4>2, Behind
      <4> QED
        BY <4>1, <4>3
    <3>4. Len(F[k - 1]) \in Nat /\ Len(t[k]) \in Nat /\ Len(F[i]) \in Nat
      <4>1. F[k - 1] \in Seq(C) /\ t[k] \in Seq(C) /\ F[i] \in Seq(C)
        BY <1>2, <3>2
      <4>2. \A a \in Seq(C) : Len(a) \in Nat
        OBVIOUS
      <4> QED
        BY <4>1, <4>2, Zenon
    <3>5. Len(F[i]) <= Len(F[k])
      <4>1. PICK a, b, c, d : a = Len(F[k - 1]) /\ b = Len(t[k]) /\ c = Len(F[k]) /\ d = Len(F[i])
        OBVIOUS
      <4>2. a \in Nat /\ b \in Nat /\ d \in Nat /\ c = a + b /\ d <= a
        BY <3>1, <3>3, <3>4, <4>1
      <4>3. d <= c
        BY <4>2
      <4> QED
        BY <4>1, <4>3
    <3>6. ASSUME NEW j \in 1 .. Len(F[i]) PROVE F[k][j] = F[i][j]
      <4>1. j \in 1 .. Len(F[k - 1]) /\ F[k - 1][j] = F[i][j]
        BY <3>1, <3>4
      <4> QED
        BY <3>3, <4>1
    <3> QED
      BY <2>1, <3>5, <3>6
  <2> QED
    BY <2>1, <2>2, <2>3, <2>4
<1> HIDE DEF T
<1>7. \A k \in 0 .. n : k \in T
  BY <1>1, <1>5, <1>6, Upwards
<1>8. Keeps(n)
  BY <1>1, <1>7 DEF T
<1>9. Len(F[i - 1]) \in Nat /\ Len(t[i]) \in Nat
  BY <1>1, <1>2
<1>10. ASSUME NEW j \in 1 .. Len(t[i]) PROVE F[n][Len(F[i - 1]) + j] = t[i][j]
  <2>1. Len(F[i - 1]) + j \in 1 .. Len(F[i])
    <3>1. Len(F[i]) = Len(F[i - 1]) + Len(t[i])
      BY <1>4
    <3>2. PICK a, b : a = Len(F[i - 1]) /\ b = Len(t[i])
      OBVIOUS
    <3>3. a \in Nat /\ b \in Nat /\ j \in 1 .. b /\ Len(F[i]) = a + b
      BY <1>9, <3>1, <3>2
    <3>4. a + j \in 1 .. a + b
      BY <3>3
    <3> QED
      BY <3>2, <3>3, <3>4
  <2> QED
    BY <1>4, <1>8, <2>1
<1> QED
  BY <1>2, <1>4, <1>8, <1>10 DEF Stands

\* The name p begins at k.
Occurs(text, p, k) == k + Len(p) - 1 <= Len(text) /\ SubSeq(text, k, k + Len(p) - 1) = p

\* What becomes of a text from k on, when f has it from the places behind k on.
Scanned(text, p, r, f, k) ==
  IF k > Len(text) THEN << >>
  ELSE IF Occurs(text, p, k) THEN r \o f[k + Len(p)]
  ELSE <<text[k]>> \o f[k + 1]

Scans(f, text, p, r, C, m) ==
  /\ f \in [m .. Len(text) + 1 -> Seq(C)]
  /\ \A k \in m .. Len(text) + 1 : f[k] = Scanned(text, p, r, f, k)

\* The scan of a text, as replaceStrWithStr does it.
ScanOf(f, text, p, r) == f = [k \in 1 .. Len(text) + 1 |-> Scanned(text, p, r, f, k)]

\* What a place becomes is a text when that of the places behind it is, and is
\* up to those only.
LEMMA ScanStep ==
  ASSUME NEW C, NEW text \in Seq(C), NEW p \in Seq(C), Len(p) > 0, NEW r \in Seq(C),
         NEW k \in 1 .. Len(text) + 1, NEW f, \A l \in k + 1 .. Len(text) + 1 : f[l] \in Seq(C)
  PROVE  /\ Scanned(text, p, r, f, k) \in Seq(C)
         /\ \A g : (\A l \in k + 1 .. Len(text) + 1 : g[l] = f[l]) =>
              Scanned(text, p, r, g, k) = Scanned(text, p, r, f, k)
<1>1. Len(text) \in Nat /\ Len(p) \in Nat /\ k \in Nat
  OBVIOUS
<1>2. CASE k > Len(text)
  BY <1>2 DEF Scanned
<1>3. CASE k <= Len(text)
  <2>1. k + 1 \in k + 1 .. Len(text) + 1 /\ ~(k > Len(text))
    BY <1>1, <1>3
  <2>2. text[k] \in C
    BY <1>1, <1>3
  <2>3. CASE Occurs(text, p, k)
    <3>1. k + Len(p) \in k + 1 .. Len(text) + 1
      BY <1>1, <2>3 DEF Occurs
    <3>2. f[k + Len(p)] \in Seq(C)
      BY <3>1
    <3>3. r \o f[k + Len(p)] \in Seq(C)
      BY <3>2
    <3> QED
      BY <2>1, <2>3, <3>1, <3>3 DEF Scanned
  <2>4. CASE ~Occurs(text, p, k)
    <3>1. f[k + 1] \in Seq(C) /\ <<text[k]>> \in Seq(C)
      BY <2>1, <2>2
    <3>2. <<text[k]>> \o f[k + 1] \in Seq(C)
      BY <3>1
    <3> QED
      BY <2>1, <2>4, <3>2 DEF Scanned
  <2> QED
    BY <2>3, <2>4
<1> QED
  BY <1>1, <1>2, <1>3

\* A text can be scanned.
LEMMA ScanExists ==
  ASSUME NEW C, NEW text \in Seq(C), NEW p \in Seq(C), Len(p) > 0, NEW r \in Seq(C)
  PROVE  \E f : Scans(f, text, p, r, C, 1)
<1> DEFINE n == Len(text)
           T == {m \in 0 .. n : \E f : Scans(f, text, p, r, C, n + 1 - m)}
<1>1. n \in Nat
  OBVIOUS
<1>2. 0 \in T
  <2> DEFINE f == [k \in n + 1 .. n + 1 |-> << >>]
  <2>1. f \in [n + 1 .. n + 1 -> Seq(C)]
    OBVIOUS
  <2>2. ASSUME NEW k \in n + 1 .. n + 1 PROVE f[k] = Scanned(text, p, r, f, k)
    <3>1. k > Len(text)
      BY <1>1
    <3> QED
      BY <3>1 DEF Scanned
  <2> HIDE DEF f
  <2>3. Scans(f, text, p, r, C, n + 1 - 0)
    BY <1>1, <2>1, <2>2 DEF Scans
  <2> QED
    BY <1>1, <2>3
<1>3. ASSUME NEW l \in 1 .. n, l - 1 \in T PROVE l \in T
  <2>1. PICK f : Scans(f, text, p, r, C, n + 1 - (l - 1))
    BY <1>3
  <2> DEFINE m == n + 1 - l
  <2>2. m \in 1 .. n /\ n + 1 - (l - 1) = m + 1
    BY <1>1
  <2> HIDE DEF m
  <2>3. f \in [m + 1 .. n + 1 -> Seq(C)] /\ \A k \in m + 1 .. n + 1 : f[k] = Scanned(text, p, r, f, k)
    BY <2>1, <2>2 DEF Scans
  <2> DEFINE g == [k \in m .. n + 1 |-> IF k = m THEN Scanned(text, p, r, f, m) ELSE f[k]]
  <2>4. m \in 1 .. n + 1 /\ \A k \in m + 1 .. n + 1 : f[k] \in Seq(C)
    <3>1. m \in 1 .. n + 1
      BY <1>1, <2>2
    <3>2. \A k \in m + 1 .. n + 1 : f[k] \in Seq(C)
      BY <2>3
    <3> QED
      BY <3>1, <3>2
  <2>5. Scanned(text, p, r, f, m) \in Seq(C)
    BY <2>4, ScanStep
  <2>6. g \in [m .. n + 1 -> Seq(C)] /\ \A k \in m + 1 .. n + 1 : g[k] = f[k]
    BY <1>1, <2>2, <2>4, <2>5
  <2>7. g[m] = Scanned(text, p, r, f, m)
    BY <1>1, <2>2
  <2> HIDE DEF g
  <2>8. ASSUME NEW k \in m .. n + 1 PROVE g[k] = Scanned(text, p, r, g, k)
    <3>1. k \in 1 .. n + 1 /\ k + 1 \in m + 1 .. n + 2
      BY <1>1, <2>2
    <3>2. ASSUME NEW j \in k + 1 .. n + 1 PROVE f[j] \in Seq(C) /\ g[j] = f[j]
      <4>1. j \in m + 1 .. n + 1
        BY <1>1, <2>2, <3>1
      <4> QED
        BY <2>4, <2>6, <4>1
    <3>3. Scanned(text, p, r, g, k) = Scanned(text, p, r, f, k)
      BY <3>1, <3>2, ScanStep
    <3>4. CASE k = m
      BY <2>7, <3>3, <3>4
    <3>5. CASE k # m
      <4>1. k \in m + 1 .. n + 1
        BY <1>1, <2>2, <3>5
      <4> QED
        BY <2>3, <2>6, <3>3, <4>1
    <3> QED
      BY <3>4, <3>5
  <2>9. Scans(g, text, p, r, C, n + 1 - l)
    BY <2>6, <2>8 DEF Scans, m
  <2> QED
    BY <1>1, <2>9
<1> HIDE DEF T
<1>4. \A k \in 0 .. n : k \in T
  BY <1>1, <1>2, <1>3, Upwards
<1>5. n \in T
  BY <1>1, <1>4
<1>6. n + 1 - n = 1
  BY <1>1
<1> QED
  BY <1>5, <1>6 DEF T

\* What replaceStrWithStr makes of a text, from each of its places on.
LEMMA ReplaceScans ==
  ASSUME NEW C, NEW text \in Seq(C), NEW p \in Seq(C), Len(p) > 0, NEW r \in Seq(C)
  PROVE  \E f : Scans(f, text, p, r, C, 1) /\ Replace(text, p, r) = f[1]
<1>1. PICK e : Scans(e, text, p, r, C, 1)
  BY ScanExists
<1>2. ScanOf(e, text, p, r)
  BY <1>1 DEF Scans, ScanOf
<1> DEFINE f == CHOOSE x : ScanOf(x, text, p, r)
<1>3. ScanOf(f, text, p, r)
  BY <1>2
<1>4. Replace(text, p, r) = f[1]
  BY DEF Replace, ScanOf, Scanned, Occurs
<1> HIDE DEF f
<1> DEFINE n == Len(text)
           T == {m \in 0 .. n : \A k \in n + 1 - m .. n + 1 : f[k] \in Seq(C)}
<1>5. n \in Nat
  OBVIOUS
<1>6. \A k \in 1 .. n + 1 : f[k] = Scanned(text, p, r, f, k)
  BY <1>3 DEF ScanOf
<1>7. 0 \in T
  <2>1. \A k \in n + 1 - 0 .. n + 1 : k = n + 1
    BY <1>5
  <2>2. f[n + 1] = << >>
    <3>1. n + 1 \in 1 .. n + 1 /\ n + 1 > Len(text)
      BY <1>5
    <3>2. f[n + 1] = Scanned(text, p, r, f, n + 1)
      BY <1>6, <3>1
    <3> QED
      BY <3>1, <3>2 DEF Scanned
  <2>3. << >> \in Seq(C)
    OBVIOUS
  <2>4. \A k \in n + 1 - 0 .. n + 1 : f[k] \in Seq(C)
    BY <2>1, <2>2, <2>3
  <2>5. 0 \in 0 .. n
    BY <1>5
  <2> QED
    BY <2>4, <2>5
<1>8. ASSUME NEW l \in 1 .. n, l - 1 \in T PROVE l \in T
  <2>1. \A j \in n + 1 - l + 1 .. n + 1 : f[j] \in Seq(C)
    BY <1>5, <1>8
  <2>2. n + 1 - l \in 1 .. n + 1
    BY <1>5
  <2>3. f[n + 1 - l] \in Seq(C)
    <3>1. PICK k : k = n + 1 - l
      OBVIOUS
    <3>2. k \in 1 .. n + 1 /\ f[k] = Scanned(text, p, r, f, k)
      BY <1>6, <2>2, <3>1
    <3>3. \A j \in k + 1 .. n + 1 : f[j] \in Seq(C)
      BY <2>1, <3>1
    <3>4. Scanned(text, p, r, f, k) \in Seq(C)
      BY <3>2, <3>3, ScanStep
    <3> QED
      BY <3>1, <3>2, <3>4
  <2>4. ASSUME NEW k \in n + 1 - l .. n + 1 PROVE f[k] \in Seq(C)
    <3>1. PICK a : a = n + 1 - l
      OBVIOUS
    <3>2. a \in Int /\ n \in Int /\ k \in a .. n + 1
      BY <1>5, <3>1
    <3> HIDE DEF n
    <3>3. k = a \/ k \in a + 1 .. n + 1
      BY <3>2
    <3> QED
      BY <2>1, <2>3, <3>1, <3>3
  <2> QED
    BY <2>4
<1> HIDE DEF T
<1>9. \A k \in 0 .. n : k \in T
  BY <1>5, <1>7, <1>8, Upwards
<1>10. n \in T /\ n + 1 - n = 1
  BY <1>5, <1>9
<1>11. \A k \in 1 .. n + 1 : f[k] \in Seq(C)
  BY <1>10 DEF T
<1>12. f \in [1 .. n + 1 -> Seq(C)]
  BY <1>3, <1>11 DEF ScanOf
<1>13. Scans(f, text, p, r, C, 1)
  BY <1>6, <1>12 DEF Scans
<1> QED
  BY <1>4, <1>13

\* A sequence up to j is that up to the one before, and its j-th element.
LEMMA UpTo ==
  ASSUME NEW C, NEW t \in Seq(C), NEW j \in 1 .. Len(t)
  PROVE  SubSeq(t, 1, j - 1) \o <<t[j]>> = SubSeq(t, 1, j)
<1>1. Len(t) \in Nat /\ j - 1 \in 0 .. Len(t) /\ t[j] \in C
  OBVIOUS
<1>2. SubSeq(t, 1, j - 1) \in Seq(C) /\ Len(SubSeq(t, 1, j - 1)) = j - 1
  BY <1>1
<1>3. SubSeq(t, 1, j) \in Seq(C) /\ Len(SubSeq(t, 1, j)) = j
  BY <1>1
<1> DEFINE a == SubSeq(t, 1, j - 1)
           b == SubSeq(t, 1, j)
           c == a \o <<t[j]>>
<1>4. c \in Seq(C) /\ Len(c) = j
  BY <1>1, <1>2
<1>5. ASSUME NEW k \in 1 .. j PROVE c[k] = b[k]
  <2>1. b[k] = t[k]
    BY <1>1
  <2>2. CASE k = j
    BY <1>1, <1>2, <2>1, <2>2
  <2>3. CASE k # j
    <3>1. k \in 1 .. j - 1
      BY <1>1, <2>3
    <3>2. a[k] = t[k]
      BY <1>1, <3>1
    <3>3. c[k] = a[k]
      BY <1>1, <1>2, <3>1
    <3> QED
      BY <2>1, <3>2, <3>3
  <2> QED
    BY <2>2, <2>3
<1> HIDE DEF a, b, c
<1>6. b \in Seq(C) /\ Len(b) = j
  BY <1>3 DEF b
<1>7. c = b
  BY <1>4, <1>5, <1>6
<1> QED
  BY <1>7 DEF a, b, c

\* Three sequences, one behind the other.
IsRow(a, b, c) == a \o (b \o c) = (a \o b) \o c

\* Sequences are joined in any grouping.
LEMMA InRow ==
  ASSUME NEW C, NEW a \in Seq(C), NEW b \in Seq(C), NEW c \in Seq(C)
  PROVE  IsRow(a, b, c)
BY DEF IsRow

\* The name p begins in the text only where a piece does that is p.
WholeOnly(F, t, p) ==
  \A i \in 1 .. Len(t) : \A j \in 1 .. Len(t[i]) :
    Occurs(F[Len(t)], p, Len(F[i - 1]) + j) => j = 1 /\ t[i] = p

Put(t, p, r) == [k \in 1 .. Len(t) |-> IF t[k] = p THEN r ELSE t[k]]

\* A scan goes over a piece in one go.
Passes(f, F, t, p, r, i) ==
  /\ Len(F[i - 1]) + 1 \in 1 .. Len(F[Len(t)]) + 1 /\ Len(F[i]) + 1 \in 1 .. Len(F[Len(t)]) + 1
  /\ f[Len(F[i - 1]) + 1] = (IF t[i] = p THEN r ELSE t[i]) \o f[Len(F[i]) + 1]

\* A scan that finds the name only as a whole piece goes piece by piece.
LEMMA PiecePut ==
  ASSUME NEW C, NEW t \in Seq(Seq(C)), NEW F, Heads(F, t, C), NEW p \in Seq(C), Len(p) > 0,
         NEW r \in Seq(C), WholeOnly(F, t, p), NEW f, Scans(f, F[Len(t)], p, r, C, 1),
         NEW i \in 1 .. Len(t)
  PROVE  Passes(f, F, t, p, r, i)
<1>1. PICK text, s, w : text = F[Len(t)] /\ s = Len(F[i - 1]) /\ w = t[i]
  OBVIOUS
<1>2. w \in Seq(C) /\ text \in Seq(C) /\ s \in Nat
  <2>1. F[i - 1] \in Seq(C) /\ F[Len(t)] \in Seq(C)
    BY Placed DEF Stands
  <2>2. t[i] \in Seq(C)
    OBVIOUS
  <2> QED
    BY <1>1, <2>1, <2>2
<1>3. /\ Len(F[i]) = s + Len(w) /\ s + Len(w) <= Len(text)
      /\ \A j \in 1 .. Len(w) : text[s + j] = w[j]
  <2>1. /\ Len(F[i]) = Len(F[i - 1]) + Len(t[i]) /\ Len(F[i]) <= Len(F[Len(t)])
        /\ \A j \in 1 .. Len(t[i]) : F[Len(t)][Len(F[i - 1]) + j] = t[i][j]
    <3>1. Stands(F, t, i, C)
      BY Placed
    <3> QED
      BY <3>1 DEF Stands
  <2> QED
    BY <1>1, <2>1
<1>4. Len(w) \in Nat /\ Len(text) \in Nat /\ Len(p) \in Nat
  BY <1>2
<1>5. \A k \in 1 .. Len(text) + 1 : f[k] \in Seq(C) /\ f[k] = Scanned(text, p, r, f, k)
  BY <1>1 DEF Scans
<1>6. s + 1 \in 1 .. Len(text) + 1 /\ s + Len(w) + 1 \in 1 .. Len(text) + 1
  BY <1>2, <1>3, <1>4
<1>7. CASE w = p
  <2>1. s + 1 + Len(p) - 1 = s + Len(w) /\ s + 1 \in 1 .. Len(text)
    <3>1. PICK a, b, c : a = Len(w) /\ b = Len(text) /\ c = Len(p)
      OBVIOUS
    <3>2. a \in Nat /\ b \in Nat /\ s \in Nat /\ c = a /\ a > 0 /\ s + a <= b
      BY <1>2, <1>3, <1>4, <1>7, <3>1
    <3>3. s + 1 + c - 1 = s + a /\ s + 1 \in 1 .. b
      BY <3>2
    <3> QED
      BY <3>1, <3>3
  <2> DEFINE u == SubSeq(text, s + 1, s + Len(w))
  <2>2. u \in Seq(C) /\ Len(u) = Len(w)
    BY <1>2, <1>3, <1>4, <2>1
  <2>3. ASSUME NEW j \in 1 .. Len(w) PROVE u[j] = w[j]
    <3>1. u[j] = text[s + 1 + j - 1]
      BY <1>2, <1>3, <1>4, <2>1
    <3>2. s + 1 + j - 1 = s + j
      BY <1>2, <1>4
    <3> QED
      BY <1>3, <3>1, <3>2
  <2> HIDE DEF u
  <2>4. u = w
    <3>1. Len(u) = Len(w) /\ Len(w) \in Nat /\ u \in Seq(C) /\ w \in Seq(C)
      BY <1>2, <1>4, <2>2
    <3>2. u = [j \in 1 .. Len(w) |-> u[j]] /\ w = [j \in 1 .. Len(w) |-> w[j]]
      BY <3>1
    <3> QED
      BY <2>3, <3>2
  <2>5. Occurs(text, p, s + 1)
    BY <1>3, <1>7, <2>1, <2>4 DEF u, Occurs
  <2>6. f[s + 1] = Scanned(text, p, r, f, s + 1) /\ ~(s + 1 > Len(text))
    BY <1>2, <1>4, <1>5, <1>6, <2>1
  <2>7. f[s + 1] = r \o f[s + 1 + Len(p)]
    BY <2>5, <2>6 DEF Scanned
  <2>8. s + 1 + Len(p) = s + Len(w) + 1
    BY <1>2, <1>4, <1>7
  <2> QED
    BY <1>1, <1>3, <1>6, <1>7, <2>7, <2>8 DEF Passes
<1>8. CASE w # p
  <2> DEFINE T == {j \in 0 .. Len(w) : f[s + 1] = SubSeq(w, 1, j) \o f[s + j + 1]}
  <2>1. 0 \in T
    <3>1. SubSeq(w, 1, 0) = << >> /\ s + 0 + 1 = s + 1 /\ f[s + 1] \in Seq(C)
      BY <1>2, <1>5, <1>6
    <3>2. f[s + 1] = << >> \o f[s + 1]
      BY <3>1
    <3> QED
      BY <1>4, <3>1, <3>2
  <2>2. ASSUME NEW j \in 1 .. Len(w), j - 1 \in T PROVE j \in T
    <3>1. f[s + 1] = SubSeq(w, 1, j - 1) \o f[s + (j - 1) + 1] /\ s + (j - 1) + 1 = s + j
      <4>1. f[s + 1] = SubSeq(w, 1, j - 1) \o f[s + (j - 1) + 1]
        BY <2>2
      <4> QED
        BY <1>2, <1>4, <4>1
    <3>2. s + j \in 1 .. Len(text) /\ s + j + 1 \in 1 .. Len(text) + 1
      BY <1>2, <1>3, <1>4
    <3>3. ~Occurs(text, p, s + j)
      BY <1>1, <1>8 DEF WholeOnly
    <3>4. f[s + j] = Scanned(text, p, r, f, s + j) /\ ~(s + j > Len(text))
      BY <1>2, <1>4, <1>5, <3>2
    <3>5. f[s + j] = <<text[s + j]>> \o f[s + j + 1]
      BY <3>3, <3>4 DEF Scanned
    <3>6. f[s + 1] = SubSeq(w, 1, j - 1) \o (<<w[j]>> \o f[s + j + 1])
      BY <1>3, <3>1, <3>5
    <3>7. SubSeq(w, 1, j - 1) \in Seq(C) /\ <<w[j]>> \in Seq(C) /\ f[s + j + 1] \in Seq(C)
      <4>1. w[j] \in C /\ j - 1 \in 0 .. Len(w)
        BY <1>2, <1>4
      <4> QED
        BY <1>2, <1>4, <1>5, <3>2, <4>1
    <3>8. f[s + 1] = (SubSeq(w, 1, j - 1) \o <<w[j]>>) \o f[s + j + 1]
      <4>1. PICK a, b, c : a = SubSeq(w, 1, j - 1) /\ b = <<w[j]>> /\ c = f[s + j + 1]
        OBVIOUS
      <4>2. a \in Seq(C) /\ b \in Seq(C) /\ c \in Seq(C)
        BY <3>7, <4>1
      <4>3. IsRow(a, b, c)
        BY <4>2, InRow
      <4> QED
        BY <3>6, <4>1, <4>3 DEF IsRow
    <3>9. f[s + 1] = SubSeq(w, 1, j) \o f[s + j + 1]
      BY <1>2, <3>8, UpTo
    <3> QED
      BY <3>9
  <2> HIDE DEF T
  <2>3. \A j \in 0 .. Len(w) : j \in T
    BY <1>4, <2>1, <2>2, Upwards
  <2>4. f[s + 1] = SubSeq(w, 1, Len(w)) \o f[s + Len(w) + 1]
    <3>1. Len(w) \in T
      BY <1>4, <2>3
    <3> QED
      BY <3>1 DEF T
  <2>5. SubSeq(w, 1, Len(w)) = w
    BY <1>2
  <2> QED
    BY <1>1, <1>3, <1>6, <1>8, <2>4, <2>5 DEF Passes
<1> QED
  BY <1>7, <1>8

\* Where a name is found only as a whole piece, it is replaced piece by piece.
LEMMA PutReplaces ==
  ASSUME NEW C, NEW t \in Seq(Seq(C)), NEW F, Heads(F, t, C), NEW p \in Seq(C), Len(p) > 0,
         NEW r \in Seq(C), WholeOnly(F, t, p)
  PROVE  Put(t, p, r) \in Seq(Seq(C)) /\ Replace(F[Len(t)], p, r) = FlattenSeq(Put(t, p, r))
<1> DEFINE n == Len(t)
           q == Put(t, p, r)
<1>1. n \in Nat /\ \A k \in 1 .. n : t[k] \in Seq(C)
  OBVIOUS
<1>2. q \in Seq(Seq(C)) /\ Len(q) = n /\ \A k \in 1 .. n : q[k] = (IF t[k] = p THEN r ELSE t[k])
  <2>1. q \in [1 .. n -> Seq(C)]
    BY <1>1 DEF Put
  <2> QED
    BY <1>1, <2>1 DEF Put
<1> HIDE DEF q
<1>3. PICK G : Heads(G, q, C) /\ FlattenSeq(q) = G[n]
  BY <1>2, Flattened
<1>4. F[n] \in Seq(C) /\ F[0] = << >> /\ \A k \in 0 .. n : F[k] \in Seq(C)
  <2>1. F \in [0 .. n -> Seq(C)] /\ F[0] = << >>
    BY DEF Heads
  <2>2. n \in 0 .. n
    BY <1>1
  <2> QED
    BY <2>1, <2>2
<1>5. PICK f : Scans(f, F[n], p, r, C, 1) /\ Replace(F[n], p, r) = f[1]
  <2>1. PICK x : x = F[n]
    OBVIOUS
  <2>2. x \in Seq(C)
    BY <1>4, <2>1
  <2>3. \E f : Scans(f, x, p, r, C, 1) /\ Replace(x, p, r) = f[1]
    BY <2>2, ReplaceScans
  <2> QED
    BY <2>1, <2>3
<1>6. \A k \in 1 .. Len(F[n]) + 1 : f[k] \in Seq(C) /\ f[k] = Scanned(F[n], p, r, f, k)
  BY <1>5 DEF Scans
<1>7. G \in [0 .. n -> Seq(C)] /\ G[0] = << >> /\ \A k \in 1 .. n : G[k] = G[k - 1] \o q[k]
  BY <1>2, <1>3 DEF Heads
<1> DEFINE T == {k \in 0 .. n : f[1] = G[k] \o f[Len(F[k]) + 1]}
<1>8. 0 \in T
  <2>1. Len(F[0]) + 1 = 1 /\ 1 \in 1 .. Len(F[n]) + 1
    BY <1>4
  <2>2. f[1] \in Seq(C)
    BY <1>6, <2>1
  <2>3. f[1] = << >> \o f[1]
    BY <2>2
  <2>4. f[1] = G[0] \o f[Len(F[0]) + 1]
    BY <1>7, <2>1, <2>3
  <2>5. 0 \in 0 .. n
    BY <1>1
  <2> QED
    BY <2>4, <2>5
<1>9. ASSUME NEW k \in 1 .. n, k - 1 \in T PROVE k \in T
  <2>1. k \in 1 .. Len(t)
    OBVIOUS
  <2>2. /\ Len(F[k - 1]) + 1 \in 1 .. Len(F[n]) + 1 /\ Len(F[k]) + 1 \in 1 .. Len(F[n]) + 1
        /\ f[Len(F[k - 1]) + 1] = (IF t[k] = p THEN r ELSE t[k]) \o f[Len(F[k]) + 1]
    <3>1. Scans(f, F[Len(t)], p, r, C, 1)
      BY <1>5
    <3>2. Passes(f, F, t, p, r, k)
      BY <2>1, <3>1, PiecePut
    <3> QED
      BY <3>2 DEF Passes
  <2>3. f[1] = G[k - 1] \o (q[k] \o f[Len(F[k]) + 1])
    BY <1>2, <1>9, <2>2
  <2>4. G[k - 1] \in Seq(C) /\ q[k] \in Seq(C) /\ f[Len(F[k]) + 1] \in Seq(C)
    <3>1. k - 1 \in 0 .. n
      BY <1>1
    <3> QED
      BY <1>1, <1>2, <1>6, <1>7, <2>2, <3>1
  <2>5. f[1] = (G[k - 1] \o q[k]) \o f[Len(F[k]) + 1]
    <3>1. PICK a, b, c : a = G[k - 1] /\ b = q[k] /\ c = f[Len(F[k]) + 1]
      OBVIOUS
    <3>2. a \in Seq(C) /\ b \in Seq(C) /\ c \in Seq(C)
      BY <2>4, <3>1
    <3>3. IsRow(a, b, c)
      BY <3>2, InRow
    <3> QED
      BY <2>3, <3>1, <3>3 DEF IsRow
  <2>6. f[1] = G[k] \o f[Len(F[k]) + 1]
    BY <1>7, <2>5
  <2>7. k \in 0 .. n
    BY <1>1
  <2> QED
    BY <2>6, <2>7
<1> HIDE DEF T
<1>10. \A k \in 0 .. n : k \in T
  BY <1>1, <1>8, <1>9, Upwards
<1>11. f[1] = G[n] \o f[Len(F[n]) + 1]
  <2>1. n \in T
    BY <1>1, <1>10
  <2> QED
    BY <2>1 DEF T
<1>12. f[Len(F[n]) + 1] = << >>
  <2>1. Len(F[n]) + 1 \in 1 .. Len(F[n]) + 1 /\ Len(F[n]) + 1 > Len(F[n])
    BY <1>4
  <2> QED
    BY <1>6, <2>1 DEF Scanned
<1>13. G[n] \in Seq(C)
  BY <1>1, <1>7
<1>14. f[1] = G[n]
  BY <1>11, <1>12, <1>13
<1> QED
  BY <1>2, <1>3, <1>5, <1>14 DEF q

\* What stands where a name begins.
Agrees(text, p, k) ==
  k + Len(p) - 1 <= Len(text) /\ \A q \in 1 .. Len(p) : text[k + q - 1] = p[q]

\* Where a name occurs the text has its characters.
LEMMA OccursAt ==
  ASSUME NEW C, NEW text \in Seq(C), NEW p \in Seq(C), NEW k \in Nat \ {0}, Occurs(text, p, k)
  PROVE  Agrees(text, p, k)
<1>1. Len(text) \in Nat /\ Len(p) \in Nat /\ k + Len(p) - 1 <= Len(text)
  BY DEF Occurs
<1>2. ASSUME NEW q \in 1 .. Len(p) PROVE text[k + q - 1] = p[q]
  <2> DEFINE u == SubSeq(text, k, k + Len(p) - 1)
  <2>1. u = p
    BY DEF Occurs
  <2>2. u[q] = text[k + q - 1]
    BY <1>1
  <2> QED
    BY <2>1, <2>2
<1> QED
  BY <1>1, <1>2 DEF Agrees

\* A part of a sequence.
ArePart(u, w, j, k) == Len(u) = k - j + 1 /\ \A q \in 1 .. k - j + 1 : u[q] = w[j + q - 1]

\* What a part of a sequence has.
LEMMA PartIs ==
  ASSUME NEW C, NEW w \in Seq(C), NEW j \in 1 .. Len(w), NEW k \in j .. Len(w), NEW u, u = SubSeq(w, j, k)
  PROVE  u \in Seq(C) /\ u \in SubSeqs(w) /\ ArePart(u, w, j, k)
<1>1. Len(w) \in Nat
  OBVIOUS
<1>2. u \in Seq(C) /\ ArePart(u, w, j, k)
  BY <1>1 DEF ArePart
<1>3. PICK a, b : a = j - 1 /\ b = k
  OBVIOUS
<1>4. a \in 0 .. Len(w) /\ b \in 0 .. Len(w) /\ a + 1 = j
  BY <1>1, <1>3
<1>5. u = SubSeq(w, a + 1, b)
  BY <1>3, <1>4
<1>6. u \in SubSeqs(w)
  BY <1>4, <1>5 DEF SubSeqs
<1> QED
  BY <1>2, <1>6

\* The parameters have names and values, and no name begins with what is in a value.
Valued ==
  /\ Count \in Nat /\ feature.params \in Seq(Seq(STRING))
  /\ \A m \in 1 .. Count :
       /\ feature.params[m] \in Seq(STRING) /\ Len(feature.params[m]) > 0
       /\ paramValues[m] \in Seq(STRING) /\ Len(paramValues[m]) > 0
       /\ \A l \in 1 .. Count : feature.params[m][1] \notin ToSet(paramValues[l])

\* A text in which no name is part of a token, or goes on from one token to the next.
IsPlain(text) ==
  /\ text \in Seq(Seq(STRING)) /\ \A k \in 1 .. Len(text) : Len(text[k]) > 0
  /\ \A k \in 1 .. Len(text) - 1 :
       Last(text[k]) \notin NameChars(feature) \/ text[k + 1][1] \notin NameChars(feature)
  /\ \A m \in 1 .. Count : \A k \in 1 .. Len(text) :
       feature.params[m] \in SubSeqs(text[k]) => feature.params[m] = text[k]

\* The value of the first parameter of a name.
Meaning(token) ==
  LET n == CHOOSE m \in 1..Count :
             feature.params[m] = token /\ \A l \in 1 .. m - 1 : feature.params[l] # token
  IN paramValues[n]

IsAmong(token, n) == \E m \in 1 .. n : feature.params[m] = token

\* The text with the first n parameters replaced by tokens.
SoFar(text, n) == [k \in 1 .. Len(text) |-> IF IsAmong(text[k], n) THEN Meaning(text[k]) ELSE text[k]]

\* It is that of the parameter that has the name first.
LEMMA MeaningIs ==
  ASSUME Count \in Nat, NEW m \in 1 .. Count, NEW token, feature.params[m] = token,
         \A l \in 1 .. m - 1 : feature.params[l] # token
  PROVE  Meaning(token) = paramValues[m]
<1> DEFINE First(n) == feature.params[n] = token /\ \A l \in 1 .. n - 1 : feature.params[l] # token
           n == CHOOSE k \in 1 .. Count : First(k)
<1>1. First(m)
  OBVIOUS
<1>2. n \in 1 .. Count /\ First(n)
  BY <1>1
<1>3. Meaning(token) = paramValues[n]
  BY DEF Meaning
<1> HIDE DEF n
<1>4. ~(n < m)
  <2>1. n < m => n \in 1 .. m - 1
    BY <1>2
  <2> QED
    BY <1>1, <1>2, <2>1
<1>5. ~(m < n)
  <2>1. m < n => m \in 1 .. n - 1
    BY <1>2
  <2> QED
    BY <1>1, <1>2, <2>1
<1>6. n = m
  BY <1>2, <1>4, <1>5
<1> QED
  BY <1>3, <1>6

\* A name that a parameter has means the value of one.
LEMMA HasMeaning ==
  ASSUME Count \in Nat, NEW n \in 0 .. Count, NEW token, IsAmong(token, n)
  PROVE  \E m \in 1 .. Count : Meaning(token) = paramValues[m]
<1> DEFINE T == {m \in 1 .. n : feature.params[m] = token}
<1>1. T \in SUBSET Nat /\ T # {}
  BY DEF IsAmong
<1>2. PICK m \in T : \A l \in T : m <= l
  BY <1>1, LeastOfNats
<1>3. m \in 1 .. Count /\ feature.params[m] = token /\ m <= n /\ n \in Nat
  BY <1>2
<1>4. ASSUME NEW l \in 1 .. m - 1 PROVE feature.params[l] # token
  <2>1. l \in 1 .. n /\ ~(m <= l)
    BY <1>3
  <2> QED
    BY <1>2, <2>1
<1>5. Meaning(token) = paramValues[m]
  BY <1>3, <1>4, MeaningIs
<1> QED
  BY <1>3, <1>5

\* The pieces of the text, whatever has been replaced.
ArePieces(t, text, n) ==
  /\ t \in Seq(Seq(STRING)) /\ Len(t) = Len(text)
  /\ \A k \in 1 .. Len(text) :
       /\ t[k] \in Seq(STRING) /\ Len(t[k]) > 0
       /\ IsAmong(text[k], n) => \E m \in 1 .. Count : t[k] = paramValues[m]
       /\ ~IsAmong(text[k], n) => t[k] = text[k]

\* A text stays in pieces while its names are replaced, one after the other.
LEMMA PiecesSoFar ==
  ASSUME Valued, NEW text, IsPlain(text), NEW n \in 0 .. Count
  PROVE  ArePieces(SoFar(text, n), text, n)
<1>1. Len(text) \in Nat /\ \A k \in 1 .. Len(text) : text[k] \in Seq(STRING) /\ Len(text[k]) > 0
  BY DEF IsPlain
<1>2. ASSUME NEW k \in 1 .. Len(text)
      PROVE  /\ SoFar(text, n)[k] \in Seq(STRING) /\ Len(SoFar(text, n)[k]) > 0
             /\ IsAmong(text[k], n) => \E m \in 1 .. Count : SoFar(text, n)[k] = paramValues[m]
             /\ ~IsAmong(text[k], n) => SoFar(text, n)[k] = text[k]
  <2>1. CASE IsAmong(text[k], n)
    <3>1. PICK m \in 1 .. Count : Meaning(text[k]) = paramValues[m]
      BY <2>1, HasMeaning DEF Valued
    <3>2. SoFar(text, n)[k] = paramValues[m]
      BY <2>1, <3>1 DEF SoFar
    <3> QED
      BY <2>1, <3>2 DEF Valued
  <2>2. CASE ~IsAmong(text[k], n)
    <3>1. SoFar(text, n)[k] = text[k]
      BY <2>2 DEF SoFar
    <3> QED
      BY <1>1, <2>2, <3>1
  <2> QED
    BY <2>1, <2>2
<1>3. SoFar(text, n) \in [1 .. Len(text) -> Seq(STRING)]
  BY <1>2 DEF SoFar
<1>4. SoFar(text, n) \in Seq(Seq(STRING)) /\ Len(SoFar(text, n)) = Len(text)
  BY <1>1, <1>3
<1> QED
  BY <1>2, <1>4 DEF ArePieces

\* While the names are replaced one after the other, each is found as a whole token only.
LEMMA WholeSoFar ==
  ASSUME Valued, NEW text, IsPlain(text), NEW n \in 0 .. Count - 1, NEW t, t = SoFar(text, n),
         NEW p, p = feature.params[n + 1], NEW F, Heads(F, t, STRING)
  PROVE  WholeOnly(F, t, p)
<1>1. /\ t \in Seq(Seq(STRING)) /\ Len(t) = Len(text) /\ Len(text) \in Nat
      /\ \A k \in 1 .. Len(text) :
           /\ t[k] \in Seq(STRING) /\ Len(t[k]) > 0
           /\ IsAmong(text[k], n) => \E m \in 1 .. Count : t[k] = paramValues[m]
           /\ ~IsAmong(text[k], n) => t[k] = text[k]
  <2>1. n \in 0 .. Count /\ Len(text) \in Nat
    BY DEF Valued, IsPlain
  <2> QED
    <3>1. ArePieces(t, text, n)
      BY <2>1, PiecesSoFar
    <3> QED
      BY <2>1, <3>1 DEF ArePieces
<1>2. /\ n + 1 \in 1 .. Count /\ p \in Seq(STRING) /\ Len(p) \in Nat /\ Len(p) > 0
      /\ \A l \in 1 .. Count : p[1] \notin ToSet(paramValues[l])
  <2>1. n + 1 \in 1 .. Count
    BY DEF Valued
  <2> QED
    BY <2>1 DEF Valued
<1>3. \A m \in 1 .. Count : \A q \in 1 .. Len(feature.params[m]) : feature.params[m][q] \in NameChars(feature)
  <2> SUFFICES ASSUME NEW m \in 1 .. Count, NEW q \in 1 .. Len(feature.params[m])
               PROVE  feature.params[m][q] \in NameChars(feature)
    OBVIOUS
  <2>1. feature.params[m] \in Seq(STRING)
    BY DEF Valued
  <2>2. feature.params[m][q] \in ToSet(feature.params[m])
    BY <2>1 DEF ToSet
  <2>3. m \in DOMAIN feature.params
    BY DEF Count, Valued
  <2> QED
    BY <2>2, <2>3 DEF NameChars
<1> SUFFICES ASSUME NEW i \in 1 .. Len(t), NEW j \in 1 .. Len(t[i]), Occurs(F[Len(t)], p, Len(F[i - 1]) + j)
             PROVE  j = 1 /\ t[i] = p
  BY DEF WholeOnly
<1>4. PICK all, s, w : all = F[Len(t)] /\ s = Len(F[i - 1]) /\ w = t[i]
  OBVIOUS
<1>5. i \in 1 .. Len(text) /\ w \in Seq(STRING) /\ Len(w) \in Nat /\ Len(w) > 0 /\ j \in 1 .. Len(w)
  BY <1>1, <1>4
<1>6. /\ s \in Nat /\ all \in Seq(STRING) /\ Len(all) \in Nat /\ Len(F[i]) = s + Len(w)
      /\ s + Len(w) <= Len(all) /\ \A q \in 1 .. Len(w) : all[s + q] = w[q]
  <2>1. Stands(F, t, i, STRING)
    BY <1>1, Placed
  <2>2. F[i - 1] \in Seq(STRING) /\ F[Len(t)] \in Seq(STRING)
    BY <2>1 DEF Stands
  <2>3. /\ Len(F[i]) = Len(F[i - 1]) + Len(t[i]) /\ Len(F[i]) <= Len(F[Len(t)])
        /\ \A q \in 1 .. Len(t[i]) : F[Len(t)][Len(F[i - 1]) + q] = t[i][q]
    BY <2>1 DEF Stands
  <2>4. s \in Nat /\ all \in Seq(STRING) /\ Len(all) \in Nat
    BY <1>4, <2>2
  <2>5. Len(F[i]) = s + Len(w) /\ s + Len(w) <= Len(all)
    BY <1>4, <2>3
  <2>6. \A q \in 1 .. Len(w) : all[s + q] = w[q]
    BY <1>4, <2>3
  <2> QED
    BY <2>4, <2>5, <2>6
<1>7. s + j + Len(p) - 1 <= Len(all) /\ \A q \in 1 .. Len(p) : all[s + j + q - 1] = p[q]
  <2>1. PICK k : k = s + j
    OBVIOUS
  <2>2. k \in Nat \ {0} /\ Occurs(all, p, k)
    <3>1. s \in Nat /\ j \in Nat \ {0}
      BY <1>5, <1>6
    <3>2. Occurs(all, p, k)
      BY <1>4, <2>1
    <3> QED
      BY <2>1, <3>1, <3>2
  <2>3. Agrees(all, p, k)
    BY <1>2, <1>6, <2>2, OccursAt
  <2> QED
    BY <2>1, <2>3 DEF Agrees
<1>8. CASE IsAmong(text[i], n)
  <2>1. PICK m \in 1 .. Count : w = paramValues[m]
    BY <1>1, <1>4, <1>5, <1>8
  <2>2. p[1] = all[s + j + 1 - 1] /\ s + j + 1 - 1 = s + j
    <3>1. s \in Nat /\ j \in Nat /\ 1 \in 1 .. Len(p)
      <4>1. Len(p) \in Nat /\ Len(p) > 0
        BY <1>2
      <4>2. s \in Nat
        BY <1>6
      <4>3. Len(w) \in Nat /\ j \in 1 .. Len(w)
        BY <1>5
      <4> QED
        BY <4>1, <4>2, <4>3
    <3>2. all[s + j + 1 - 1] = p[1]
      BY <1>7, <3>1
    <3>3. s + j + 1 - 1 = s + j
      BY <3>1
    <3> QED
      BY <3>2, <3>3
  <2>3. p[1] = w[j]
    BY <1>5, <1>6, <2>2
  <2>4. p[1] \in ToSet(w)
    BY <1>5, <2>3 DEF ToSet
  <2> QED
    BY <1>2, <2>1, <2>4
<1>9. CASE ~IsAmong(text[i], n) /\ j + Len(p) - 1 <= Len(w)
  <2>1. w = text[i]
    BY <1>1, <1>4, <1>5, <1>9
  <2>2. PICK k, u : k = j + Len(p) - 1 /\ u = SubSeq(w, j, k)
    OBVIOUS
  <2>3. k \in j .. Len(w) /\ k - j + 1 = Len(p)
    <3>1. PICK a, b : a = Len(p) /\ b = Len(w)
      OBVIOUS
    <3>2. a \in Nat /\ a > 0 /\ b \in Nat /\ j \in Nat
      BY <1>2, <1>5, <3>1
    <3>3. k = j + a - 1 /\ k <= b
      BY <1>9, <2>2, <3>1
    <3>4. k \in j .. b /\ k - j + 1 = a
      BY <3>2, <3>3
    <3> QED
      BY <3>1, <3>4
  <2>4. u \in Seq(STRING) /\ u \in SubSeqs(w) /\ ArePart(u, w, j, k)
    BY <1>5, <2>2, <2>3, PartIs
  <2>5. u = p
    <3>1. Len(u) = Len(p) /\ \A q \in 1 .. Len(p) : u[q] = w[j + q - 1]
      BY <2>3, <2>4 DEF ArePart
    <3>2. ASSUME NEW q \in 1 .. Len(p) PROVE u[q] = p[q]
      <4>1. Len(p) \in Nat /\ Len(w) \in Nat /\ s \in Nat /\ j \in 1 .. Len(w)
        BY <1>2, <1>5, <1>6
      <4>2. j + q - 1 \in 1 .. Len(w) /\ s + (j + q - 1) = s + j + q - 1
        BY <1>9, <4>1
      <4> QED
        BY <1>6, <1>7, <3>1, <4>2
    <3>3. u = [q \in 1 .. Len(p) |-> u[q]] /\ p = [q \in 1 .. Len(p) |-> p[q]]
      <4>1. p \in Seq(STRING) /\ u \in Seq(STRING) /\ Len(u) = Len(p)
        BY <1>2, <2>4, <3>1
      <4>2. u = [q \in 1 .. Len(u) |-> u[q]]
        BY <4>1, LenProperties
      <4>3. p = [q \in 1 .. Len(p) |-> p[q]]
        BY <4>1, LenProperties
      <4> QED
        BY <4>1, <4>2, <4>3
    <3> QED
      BY <3>2, <3>3
  <2>6. p = w
    BY <1>2, <1>5, <2>1, <2>4, <2>5 DEF IsPlain
  <2>7. j = 1
    <3>1. j \in 1 .. Len(w) /\ Len(w) \in Nat /\ Len(p) = Len(w)
      BY <1>5, <2>6
    <3> QED
      BY <1>9, <3>1
  <2> QED
    BY <1>4, <2>6, <2>7
<1>10. CASE ~IsAmong(text[i], n) /\ j + Len(p) - 1 > Len(w)
  <2>1. w = text[i]
    BY <1>1, <1>4, <1>5, <1>10
  <2> DEFINE q == Len(w) - j + 1
  <2>2. q \in 1 .. Len(p) /\ q + 1 \in 1 .. Len(p)
    <3>1. PICK a, b, c : a = Len(p) /\ b = Len(w) /\ c = q
      OBVIOUS
    <3>2. a \in Nat /\ b \in Nat /\ j \in 1 .. b
      BY <1>2, <1>5, <3>1
    <3>3. c = b - j + 1 /\ j + a - 1 > b
      BY <1>10, <3>1
    <3> HIDE DEF q
    <3>4. c \in 1 .. a /\ c + 1 \in 1 .. a
      BY <3>2, <3>3
    <3> QED
      BY <3>1, <3>4
  <2>3. s + j + q - 1 = s + Len(w) /\ s + j + (q + 1) - 1 = s + Len(w) + 1
    BY <1>5, <1>6
  <2> HIDE DEF q
  <2>4. p[q] = w[Len(w)] /\ p[q + 1] = all[s + Len(w) + 1]
    <3>1. p[q] = all[s + Len(w)] /\ p[q + 1] = all[s + Len(w) + 1]
      BY <1>7, <2>2, <2>3
    <3> QED
      BY <1>5, <1>6, <3>1
  <2>5. Last(text[i]) \in NameChars(feature)
    BY <1>2, <1>3, <2>1, <2>2, <2>4 DEF Last
  <2>6. p[q + 1] \in NameChars(feature)
    BY <1>2, <1>3, <2>2
  <2>7. i # Len(t)
    <3>1. i = Len(t) => s + Len(w) = Len(all)
      BY <1>4, <1>6
    <3>2. s + Len(w) # Len(all)
      <4>1. PICK a, b, c : a = Len(w) /\ b = Len(all) /\ c = Len(p)
        OBVIOUS
      <4>2. a \in Nat /\ b \in Nat /\ c \in Nat /\ s \in Nat /\ j \in Nat
        BY <1>2, <1>5, <1>6, <4>1
      <4>3. s + j + c - 1 <= b /\ j + c - 1 > a
        BY <1>7, <1>10, <4>1
      <4>4. s + a # b
        BY <4>2, <4>3
      <4> QED
        BY <4>1, <4>4
    <3> QED
      BY <3>1, <3>2
  <2>8. i \in 1 .. Len(text) - 1 /\ i + 1 \in 1 .. Len(text) /\ (i + 1) - 1 = i
    <3>1. Len(t) = Len(text) /\ Len(text) \in Nat
      BY <1>1
    <3> QED
      BY <1>5, <2>7, <3>1
  <2>9. text[i + 1][1] \notin NameChars(feature)
    BY <2>5, <2>8 DEF IsPlain
  <2>10. t[i + 1][1] = p[q + 1]
    <3>1. Stands(F, t, i + 1, STRING)
      BY <1>1, <2>8, Placed
    <3>2. Len(t[i + 1]) > 0 /\ Len(t[i + 1]) \in Nat
      BY <1>1, <2>8
    <3>3. all[Len(F[i]) + 1] = t[i + 1][1]
      <4>1. F[Len(t)][Len(F[(i + 1) - 1]) + 1] = t[i + 1][1]
        <5>1. 1 \in 1 .. Len(t[i + 1])
          BY <3>2
        <5> QED
          BY <3>1, <5>1 DEF Stands
      <4> QED
        BY <1>4, <2>8, <4>1
    <3> QED
      BY <1>6, <2>4, <3>3
  <2>11. CASE IsAmong(text[i + 1], n)
    <3>1. PICK m \in 1 .. n : feature.params[m] = text[i + 1]
      BY <2>11 DEF IsAmong
    <3>2. m \in 1 .. Count
      BY <3>1 DEF Valued
    <3>3. 1 \in 1 .. Len(feature.params[m])
      <4>1. feature.params[m] \in Seq(STRING) /\ Len(feature.params[m]) > 0
        BY <3>2 DEF Valued
      <4> QED
        BY <4>1
    <3>4. text[i + 1][1] \in NameChars(feature)
      BY <1>3, <3>1, <3>2, <3>3
    <3> QED
      BY <2>9, <3>4
  <2>12. CASE ~IsAmong(text[i + 1], n)
    <3>1. t[i + 1] = text[i + 1]
      BY <1>1, <2>8, <2>12
    <3> QED
      BY <2>6, <2>9, <2>10, <3>1
  <2> QED
    BY <2>11, <2>12
<1> QED
  BY <1>2, <1>5, <1>8, <1>9, <1>10

\* One more name is replaced, by tokens.
LEMMA PutSoFar ==
  ASSUME Valued, NEW text, IsPlain(text), NEW n \in 0 .. Count - 1
  PROVE  Put(SoFar(text, n), feature.params[n + 1], paramValues[n + 1]) = SoFar(text, n + 1)
<1>1. n \in 0 .. Count /\ n + 1 \in 0 .. Count /\ n + 1 \in 1 .. Count /\ Count \in Nat
  BY DEF Valued
<1>2. PICK t, p, r : t = SoFar(text, n) /\ p = feature.params[n + 1] /\ r = paramValues[n + 1]
  OBVIOUS
<1>3. /\ Len(t) = Len(text)
      /\ \A k \in 1 .. Len(text) : ~IsAmong(text[k], n) => t[k] = text[k]
  BY <1>1, <1>2, PiecesSoFar DEF ArePieces
<1>4. p[1] \in ToSet(p) /\ \A l \in 1 .. Count : p[1] \notin ToSet(paramValues[l])
  <2>1. p \in Seq(STRING) /\ Len(p) > 0
    BY <1>1, <1>2 DEF Valued
  <2>2. p[1] \in ToSet(p)
    BY <2>1 DEF ToSet
  <2> QED
    BY <1>1, <1>2, <2>2 DEF Valued
<1>5. ASSUME NEW k \in 1 .. Len(text)
      PROVE  (IF t[k] = p THEN r ELSE t[k])
               = IF IsAmong(text[k], n + 1) THEN Meaning(text[k]) ELSE text[k]
  <2>1. CASE IsAmong(text[k], n)
    <3>1. PICK m \in 1 .. Count : Meaning(text[k]) = paramValues[m]
      BY <1>1, <2>1, HasMeaning
    <3>2. t[k] = Meaning(text[k])
      BY <1>2, <2>1 DEF SoFar
    <3>3. t[k] # p
      BY <1>4, <3>1, <3>2
    <3>4. IsAmong(text[k], n + 1)
      BY <1>1, <2>1 DEF IsAmong
    <3> QED
      BY <3>2, <3>3, <3>4
  <2>2. CASE ~IsAmong(text[k], n) /\ text[k] = p
    <3>1. IsAmong(text[k], n + 1)
      BY <1>1, <1>2, <2>2 DEF IsAmong
    <3>2. \A l \in 1 .. (n + 1) - 1 : feature.params[l] # text[k]
      BY <1>1, <2>2 DEF IsAmong
    <3>3. Meaning(text[k]) = paramValues[n + 1]
      BY <1>1, <1>2, <2>2, <3>2, MeaningIs
    <3> QED
      BY <1>2, <1>3, <2>2, <3>1, <3>3
  <2>3. CASE ~IsAmong(text[k], n) /\ text[k] # p
    <3>1. \A m \in 1 .. n + 1 : m \in 1 .. n \/ m = n + 1
      BY <1>1
    <3>2. ~IsAmong(text[k], n + 1)
      BY <1>2, <2>3, <3>1 DEF IsAmong
    <3> QED
      BY <1>3, <2>3, <3>2
  <2> QED
    BY <2>1, <2>2, <2>3
<1> QED
  BY <1>2, <1>3, <1>5 DEF Put, SoFar

\* The function of Substitute.
SubstOf(u, tokens) ==
  u = [n \in 0..Count |-> IF n = 0 THEN FlattenSeq(tokens)
                          ELSE Replace(u[n - 1], feature.params[n], paramValues[n])]

\* A text with names replaced is a text.
LEMMA ReplaceIsText ==
  ASSUME NEW C, NEW text \in Seq(C), NEW p \in Seq(C), Len(p) > 0, NEW r \in Seq(C)
  PROVE  Replace(text, p, r) \in Seq(C)
<1>1. PICK f : Scans(f, text, p, r, C, 1) /\ Replace(text, p, r) = f[1]
  BY ReplaceScans
<1>2. Len(text) \in Nat
  OBVIOUS
<1>3. 1 \in 1 .. Len(text) + 1
  BY <1>2
<1>4. f[1] \in Seq(C)
  BY <1>1, <1>3 DEF Scans
<1> QED
  BY <1>1, <1>4

\* The parameters can be replaced one after the other.
LEMMA SubstExists ==
  ASSUME Valued, NEW text, IsPlain(text)
  PROVE  SubstOf(Substitute(text), text)
<1>1. FlattenSeq(text) \in Seq(STRING)
  <2>1. text \in Seq(Seq(STRING)) /\ Len(text) \in Nat
    BY DEF IsPlain
  <2>2. PICK F : Heads(F, text, STRING) /\ FlattenSeq(text) = F[Len(text)]
    BY <2>1, Flattened
  <2>3. Len(text) \in 0 .. Len(text)
    BY <2>1
  <2> QED
    BY <2>2, <2>3 DEF Heads
<1> DEFINE step == [n \in 1 .. Count |->
                     [s \in Seq(STRING) |-> Replace(s, feature.params[n], paramValues[n])]]
<1>2. step \in [1 .. Count -> [Seq(STRING) -> Seq(STRING)]]
  <2>1. ASSUME NEW n \in 1 .. Count, NEW s \in Seq(STRING)
        PROVE  Replace(s, feature.params[n], paramValues[n]) \in Seq(STRING)
    <3>1. PICK p, r : p = feature.params[n] /\ r = paramValues[n]
      OBVIOUS
    <3>2. p \in Seq(STRING) /\ Len(p) > 0 /\ r \in Seq(STRING)
      BY <3>1 DEF Valued
    <3>3. Replace(s, p, r) \in Seq(STRING)
      BY <3>2, ReplaceIsText
    <3> QED
      BY <3>1, <3>3
  <2> QED
    BY <2>1
<1> HIDE DEF step
<1>3. PICK f : Stepping(f, Seq(STRING), FlattenSeq(text), Count, step)
  <2>1. Count \in Nat
    BY DEF Valued
  <2> QED
    BY <1>1, <1>2, <2>1, StepByStep
<1>4. /\ f \in [0 .. Count -> Seq(STRING)] /\ f[0] = FlattenSeq(text)
      /\ \A n \in 1 .. Count : f[n] = step[n][f[n - 1]]
  BY <1>3 DEF Stepping
<1>5. ASSUME NEW n \in 1 .. Count PROVE f[n] = Replace(f[n - 1], feature.params[n], paramValues[n])
  <2>1. n - 1 \in 0 .. Count
    BY DEF Valued
  <2>2. f[n - 1] \in Seq(STRING)
    BY <1>4, <2>1
  <2>3. step[n][f[n - 1]] = Replace(f[n - 1], feature.params[n], paramValues[n])
    BY <2>2 DEF step
  <2> QED
    BY <1>4, <2>3
<1>6. SubstOf(f, text)
  <2>1. ASSUME NEW n \in 0 .. Count
        PROVE  f[n] = IF n = 0 THEN FlattenSeq(text)
                      ELSE Replace(f[n - 1], feature.params[n], paramValues[n])
    <3>1. n # 0 => n \in 1 .. Count
      BY DEF Valued
    <3> QED
      BY <1>4, <1>5, <3>1
  <2>2. f = [n \in 0 .. Count |-> f[n]]
    BY <1>4
  <2> QED
    BY <2>1, <2>2 DEF SubstOf
<1> QED
  BY <1>6 DEF SubstOf, Substitute

\* What the code makes of a text by characters is what becomes of it by tokens.
LEMMA SubstituteIs ==
  ASSUME Valued, NEW text, IsPlain(text)
  PROVE  Substitute(text)[Count] = ByTokens(text)
<1>1. PICK u : u = Substitute(text)
  OBVIOUS
<1>2. SubstOf(u, text)
  BY <1>1, SubstExists
<1>3. Count \in Nat /\ text \in Seq(Seq(STRING)) /\ Len(text) \in Nat
  BY DEF Valued, IsPlain
<1>4. /\ u[0] = FlattenSeq(text)
      /\ \A n \in 1 .. Count : u[n] = Replace(u[n - 1], feature.params[n], paramValues[n])
  <2>1. 0 \in 0 .. Count /\ \A n \in 1 .. Count : n \in 0 .. Count /\ n # 0
    BY <1>3
  <2> QED
    BY <1>2, <2>1 DEF SubstOf
<1> DEFINE T == {n \in 0 .. Count : u[n] = FlattenSeq(SoFar(text, n))}
<1>5. 0 \in T
  <2>1. \A k \in 1 .. Len(text) : ~IsAmong(text[k], 0)
    BY DEF IsAmong
  <2>2. SoFar(text, 0) = [k \in 1 .. Len(text) |-> text[k]]
    BY <2>1 DEF SoFar
  <2>3. SoFar(text, 0) = text
    BY <1>3, <2>2
  <2> QED
    BY <1>3, <1>4, <2>3
<1>6. ASSUME NEW l \in 1 .. Count, l - 1 \in T PROVE l \in T
  <2>1. PICK n, t, p, r : /\ n = l - 1 /\ t = SoFar(text, n)
                          /\ p = feature.params[n + 1] /\ r = paramValues[n + 1]
    OBVIOUS
  <2>2. n \in 0 .. Count /\ n \in 0 .. Count - 1 /\ n + 1 = l /\ l \in 0 .. Count
    BY <1>3, <2>1
  <2>3. t \in Seq(Seq(STRING)) /\ p \in Seq(STRING) /\ Len(p) > 0 /\ r \in Seq(STRING)
    <3>1. t \in Seq(Seq(STRING))
      BY <2>1, <2>2, PiecesSoFar DEF ArePieces
    <3> QED
      BY <2>1, <2>2, <3>1 DEF Valued
  <2>4. PICK F : Heads(F, t, STRING) /\ FlattenSeq(t) = F[Len(t)]
    BY <2>3, Flattened
  <2>5. WholeOnly(F, t, p)
    BY <2>1, <2>2, <2>4, WholeSoFar
  <2>6. Replace(F[Len(t)], p, r) = FlattenSeq(Put(t, p, r))
    BY <2>3, <2>4, <2>5, PutReplaces
  <2>7. Put(t, p, r) = SoFar(text, l)
    BY <2>1, <2>2, PutSoFar
  <2>8. u[n] = FlattenSeq(t)
    BY <1>6, <2>1
  <2>9. u[l] = Replace(u[n], p, r)
    BY <1>4, <2>1, <2>2
  <2>10. u[l] = FlattenSeq(SoFar(text, l))
    BY <2>4, <2>6, <2>7, <2>8, <2>9
  <2> QED
    BY <2>2, <2>10
<1> HIDE DEF T
<1>7. \A n \in 0 .. Count : n \in T
  BY <1>3, <1>5, <1>6, Upwards
<1>8. u[Count] = FlattenSeq(SoFar(text, Count))
  <2>1. Count \in T
    BY <1>3, <1>7
  <2> QED
    BY <2>1 DEF T
<1>9. ByTokens(text) = FlattenSeq(SoFar(text, Count))
  <2>1. DOMAIN text = 1 .. Len(text) /\ DOMAIN feature.params = 1 .. Count
    <3>1. DOMAIN feature.params = 1 .. Count
      BY DEF Valued, Count
    <3> QED
      BY <1>3, <3>1
  <2>2. ASSUME NEW token PROVE token \in ToSet(feature.params) <=> IsAmong(token, Count)
    BY <2>1 DEF ToSet, IsAmong
  <2> DEFINE value(token) == IF token \notin ToSet(feature.params) THEN token ELSE Meaning(token)
  <2>3. ByTokens(text) = FlattenSeq([k \in DOMAIN text |-> value(text[k])])
    BY DEF ByTokens, Meaning
  <2>4. [k \in DOMAIN text |-> value(text[k])] = SoFar(text, Count)
    BY <2>1, <2>2 DEF SoFar
  <2> QED
    BY <2>3, <2>4
<1> QED
  BY <1>1, <1>8, <1>9

\* When all values are set, the parameters are as the lemmas above want them.
LEMMA ValuedNow ==
  ASSUME TypeOK, AllSet
  PROVE  Valued
<1>1. Count \in Nat /\ feature \in Features
  BY CountNat DEF TypeOK
<1>2. feature.params \in Seq(Seq(STRING) \ {<< >>})
  BY <1>1, FeaturesAssumption
<1>3. feature.params \in Seq(Seq(STRING)) /\ DOMAIN feature.params = 1 .. Count
  BY <1>2 DEF Count
<1>4. ASSUME NEW m \in 1 .. Count
      PROVE  /\ feature.params[m] \in Seq(STRING) /\ Len(feature.params[m]) > 0
             /\ paramValues[m] \in Values
  <2>1. feature.params[m] \in Seq(STRING) \ {<< >>}
    <3>1. PICK ps : ps = feature.params
      OBVIOUS
    <3>2. \A i \in 1 .. Len(ps) : ps[i] \in Seq(STRING) \ {<< >>}
      BY <1>2, <3>1
    <3> QED
      BY <3>1, <3>2 DEF Count
  <2>2. \A p \in Seq(STRING) : p # << >> => Len(p) > 0
    OBVIOUS
  <2>3. paramValues[m] \in Values
    BY DEF AllSet, TypeOK
  <2> QED
    BY <2>1, <2>2, <2>3
<1>5. ASSUME NEW m \in 1 .. Count, NEW l \in 1 .. Count
      PROVE  feature.params[m][1] \notin ToSet(paramValues[l])
  <2>1. m \in DOMAIN feature.params /\ paramValues[l] \in Values
    BY <1>3, <1>4
  <2> QED
    BY <1>1, <2>1, TokensAssumption
<1>6. ASSUME NEW v \in Values PROVE v \in Seq(STRING) /\ Len(v) > 0
  <2>1. v \in Seq(STRING) \ {<< >>}
    BY InputAssumption
  <2> QED
    BY <2>1
<1> QED
  BY <1>1, <1>3, <1>4, <1>5, <1>6 DEF Valued

\* So are the texts of a feature whose names are apart.
LEMMA PlainNow ==
  ASSUME TypeOK, Apart, NEW n \in DOMAIN feature.seq, feature.seq[n].event # NoEvent,
         NEW all, all = TextsOf(feature.seq[n]), NEW k \in DOMAIN all
  PROVE  IsPlain(all[k])
<1>1. feature \in Features
  BY DEF TypeOK
<1>2. feature.seq[n].event \in Texts \X Texts /\ feature.seq[n].dnf \in Seq(Texts)
  BY <1>1, FeaturesAssumption
<1>3. all \in Seq(Texts)
  <2>1. feature.seq[n].event[1] \in Texts /\ feature.seq[n].event[2] \in Texts
    BY <1>2
  <2>2. <<feature.seq[n].event[1], feature.seq[n].event[2]>> \in Seq(Texts)
    BY <2>1
  <2> QED
    BY <1>2, <2>2 DEF TextsOf
<1>4. PICK text : text = all[k]
  OBVIOUS
<1>5. text \in Seq(Seq(STRING) \ {<< >>})
  BY <1>3, <1>4 DEF Texts
<1>6. text \in Seq(Seq(STRING)) /\ DOMAIN text = 1 .. Len(text) /\ Len(text) \in Nat
  BY <1>5
<1>7. ASSUME NEW i \in 1 .. Len(text) PROVE Len(text[i]) > 0
  <2>1. text[i] \in Seq(STRING) \ {<< >>}
    BY <1>5
  <2> QED
    BY <2>1
<1>8. \A i \in 1 .. Len(text) - 1 :
        Last(text[i]) \notin NameChars(feature) \/ text[i + 1][1] \notin NameChars(feature)
  BY <1>1, <1>4, TokensAssumption
<1>9. ASSUME NEW m \in 1 .. Count, NEW i \in 1 .. Len(text), feature.params[m] \in SubSeqs(text[i])
      PROVE  feature.params[m] = text[i]
  <2>1. text \in ToSet(all) /\ text[i] \in ToSet(text)
    BY <1>4, <1>6 DEF ToSet
  <2>2. m \in DOMAIN feature.params
    <3>1. feature.params \in Seq(Seq(STRING) \ {<< >>})
      BY <1>1, FeaturesAssumption
    <3> QED
      BY <3>1 DEF Count
  <2> QED
    BY <1>9, <2>1, <2>2 DEF Apart
<1> QED
  BY <1>4, <1>6, <1>7, <1>8, <1>9 DEF IsPlain

\* The texts are made when all values are set.
Reckoned ==
  /\ pc = "update" => AllSet
  /\ pc = "done" /\ Count # 0 =>
       /\ AllSet /\ \A n \in DOMAIN feature.seq : feature.seq[n].event # NoEvent
       /\ texts = [n \in DOMAIN feature.seq |->
                     LET old == TextsOf(feature.seq[n]) IN
                     [k \in DOMAIN old |-> Substitute(old[k])[Count]]]

\* The texts made so are the ones read as tokens (structs.c, updateFeature).
LEMMA ReckonedIs ==
  ASSUME TypeOK, Reckoned
  PROVE  Substituted
<1> SUFFICES ASSUME pc = "done", Count # 0, Apart, NEW n \in DOMAIN feature.seq, NEW k \in DOMAIN texts[n]
             PROVE  texts[n][k] = ByTokens(TextsOf(feature.seq[n])[k])
  BY DEF Substituted
<1>1. PICK all : all = TextsOf(feature.seq[n])
  OBVIOUS
<1>2. AllSet /\ feature.seq[n].event # NoEvent /\ texts[n] = [l \in DOMAIN all |-> Substitute(all[l])[Count]]
  BY <1>1 DEF Reckoned
<1>3. k \in DOMAIN all /\ texts[n][k] = Substitute(all[k])[Count]
  BY <1>2
<1>4. Valued
  BY <1>2, ValuedNow
<1>5. IsPlain(all[k])
  BY <1>1, <1>2, <1>3, PlainNow
<1>6. Substitute(all[k])[Count] = ByTokens(all[k])
  BY <1>4, <1>5, SubstituteIs
<1> QED
  BY <1>1, <1>3, <1>6

\* So are those a step leaves alone.
LEMMA StillReckoned ==
  ASSUME Reckoned, UNCHANGED <<feature, paramValues, texts, pc>>
  PROVE  Reckoned'
<1>1. Count' = Count
  BY DEF Count
<1>2. AllSet' = AllSet
  BY <1>1 DEF AllSet
<1>3. \A text : Substitute(text)' = Substitute(text)
  BY <1>1 DEF Substitute
<1> QED
  BY <1>1, <1>2, <1>3 DEF Reckoned

\* Every step of the dialogue leaves it so.
LEMMA StepReckoned ==
  ASSUME Reckoned, [Next]_vars
  PROVE  Reckoned'
<1>1. CASE Menu \/ Choose \/ Enter
  <2>1. pc' \notin {"update", "done"}
    BY <1>1 DEF Menu, Choose, Enter
  <2> QED
    BY <2>1 DEF Reckoned
<1>2. CASE Reject
  <2>1. pc' = "choose"
    BY <1>2 DEF Reject, Read
  <2> QED
    BY <2>1 DEF Reckoned
<1>3. CASE Finish
  <2>1. /\ pc' = "update" \/ pc' = "menu"
        /\ pc' = "update" => AllSet
        /\ UNCHANGED <<feature, paramValues>>
    BY <1>3 DEF Finish, Read
  <2>2. AllSet => AllSet'
    BY <2>1 DEF AllSet, Count
  <2> QED
    BY <2>1, <2>2 DEF Reckoned
<1>4. CASE UpdateFails \/ UpdateCrashes
  <2>1. pc' \notin {"update", "done"}
    BY <1>4 DEF UpdateFails, UpdateCrashes
  <2> QED
    BY <2>1 DEF Reckoned
<1>5. CASE Update
  <2>1. /\ pc = "update" /\ pc' = "done" /\ UNCHANGED <<feature, paramValues>>
        /\ \A n \in DOMAIN feature.seq : feature.seq[n].event # NoEvent
        /\ texts' = [n \in DOMAIN feature.seq |->
                       LET old == TextsOf(feature.seq[n]) IN
                       [k \in DOMAIN old |-> Substitute(old[k])[Count]]]
    BY <1>5 DEF Update, Updatable
  <2>2. AllSet
    BY <2>1 DEF Reckoned
  <2>3. AllSet'
    BY <2>1, <2>2 DEF AllSet, Count
  <2>4. \A text : Substitute(text)' = Substitute(text)
    BY <2>1 DEF Substitute, Count
  <2>5. Count' = Count
    BY <2>1 DEF Count
  <2> QED
    BY <2>1, <2>3, <2>4, <2>5 DEF Reckoned
<1>6. CASE Stopped \/ UNCHANGED vars
  <2>1. UNCHANGED <<feature, paramValues, texts, pc>>
    BY <1>6 DEF Stopped, vars
  <2> QED
    BY <2>1, StillReckoned
<1> QED
  BY <1>1, <1>2, <1>3, <1>4, <1>5, <1>6 DEF Next

\* No texts are made at the start.
LEMMA InitReckoned == Init => Reckoned
<1> SUFFICES ASSUME Init PROVE Reckoned
  OBVIOUS
<1> QED
  BY DEF Init, Reckoned

\* The values replace the names and nothing else, when the dialogue is for one
\* feature (structs.c, updateFeature).
THEOREM ParamsSubstituted == Spec => []Substituted
<1>1. IInv /\ Reckoned => Substituted
  BY ReckonedIs DEF IInv
<1> QED
  BY InitIInv, StepIInv, InitReckoned, StepReckoned, <1>1, PTL DEF Spec

\* Every step of a session leaves the texts so.
LEMMA SessionReckoned == SInv /\ Reckoned /\ [SessionNext]_allVars => Reckoned'
<1> SUFFICES ASSUME SInv, Reckoned, [SessionNext]_allVars PROVE Reckoned'
  OBVIOUS
<1>1. CASE ChooseFeature
  <2>1. CASE UNCHANGED <<feature, paramValues, pc>>
    <3>1. UNCHANGED texts
      BY <1>1 DEF ChooseFeature, AskNumber
    <3> QED
      BY <2>1, <3>1, StillReckoned
  <2>2. CASE ~UNCHANGED <<feature, paramValues, pc>>
    <3>1. pc' = IF feature'.params = << >> THEN "done" ELSE "menu"
      BY <1>1, <2>2 DEF ChooseFeature
    <3>2. feature'.params = << >> => Count' = 0
      BY DEF Count
    <3> QED
      BY <3>1, <3>2 DEF Reckoned
  <2> QED
    BY <2>1, <2>2
<1>2. CASE Dialogue \/ Crash
  <2>1. [Next]_vars
    BY <1>2 DEF Dialogue, Crash, Next
  <2> QED
    BY <2>1, StepReckoned
<1>3. CASE ChooseModel \/ ChooseParam \/ EditParam \/ GiveNumber \/ Gap \/ UNCHANGED allVars
  <2>1. UNCHANGED <<feature, paramValues, texts, pc>>
    BY <1>3 DEF ChooseModel, ChooseParam, EditParam, GiveNumber, Gap, AskNumber, allVars, vars
  <2> QED
    BY <2>1, StillReckoned
<1> QED
  BY <1>1, <1>2, <1>3 DEF SessionNext

\* The values replace the names and nothing else in a whole session too, whatever
\* was left in the input by the menus before the dialogue (fbfvTool.c, main).
THEOREM SessionSubstituted == SessionSpec => []Substituted
<1>1. SessionInit => Reckoned
  BY DEF SessionInit, Reckoned
<1>2. SInv /\ Reckoned => Substituted
  BY ReckonedIs DEF SInv, IInv
<1> QED
  BY SessionInitSInv, SessionStep, SessionReckoned, <1>1, <1>2, PTL DEF SessionSpec
===============================================================================
