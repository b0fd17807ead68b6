------------------------------ MODULE FeatureRuns ------------------------------
(***************************************************************************)
(* The runs of the product that LevelSequence builds, as SpaceEx and dReach *)
(* explore them, and what they show of the feature: they are the runs that *)
(* module FeatureMonitor watches.                                          *)
(***************************************************************************)
EXTENDS LevelSequence

VARIABLES
  at,         \* the name of the location, None before the run
  level,      \* the variable level
  env,        \* the instant: where the PORVs stand, derivatives, what is open, the clocks
  store,      \* the local variables of the feature
  before      \* what they held when the chain of hops was entered (history)

runVars == <<at, level, env, store, before>>

Vars == <<vars, runVars>>

\* The local variables start at (almost) 0, the feature with them.
Stamps == UNION {UNION {{f[k].sets[n] : n \in DOMAIN f[k].sets} : k \in DOMAIN f} : f \in Features}

\* NULL is no location and no name of one, a feature is not named like one of its
\* variables, and every transition leads to a location of the model.
ASSUME RunsAssumption ==
  /\ None \notin Locs \union Seq(Int)
  /\ Value \notin Stamps
  /\ \A e \in EdgePool : e.to \in Locs

NoStamps == [x \in Stamps |-> 0]

Cleared == [x \in Stamps \union {Value} |-> IF x = Value THEN NoStamps ELSE 0]

RunInit ==
  /\ Init
  /\ at = None /\ level = 0 /\ env = None
  /\ store = Cleared /\ before = Cleared

Envs(times, nows) ==
  {v \in [val: [Preds -> {"low", "up", "high", "down"}], rate: [Rated -> {-1, 0, 1}],
          open: SUBSET edges, lt: times, now: nows] : Crossing(v)}

Building == Build /\ UNCHANGED runVars

\* The initial location is any; all clocks and level start at 0.
Begin ==
  /\ pc = "built" /\ at = None
  /\ \E l \in Locs : at' = <<l>>
  /\ env' \in Envs({0}, {0})
  /\ UNCHANGED <<vars, level, store, before>>

\* Time passes, but not in pause locations, whose derivatives are all zero.  What
\* happens in FINAL is of no interest.
Dwell ==
  /\ at # None /\ at # Final /\ ~IsPause(at)
  /\ env.now < MaxTime
  /\ \E w \in Envs({env.lt + 1}, {env.now + 1}) : Flows(env, w) /\ env' = w
  /\ UNCHANGED <<vars, at, level, store, before>>

\* A transition of the product.  Only the hop that leaves the chain makes the
\* resets of an original transition; a step of level resets localTime.
Take(t) ==
  /\ t \in StepsFrom(at, level, env)
  /\ at' = t.to
  /\ level' = t.goes
  /\ store' = StoredAll(t.sets, store, env.now)
  /\ LET lt == IF t.goes = t.at /\ t.to # Final THEN env.lt ELSE 0
     IN IF t.edge = None \/ IsPause(t.to)
        THEN env' = [env EXCEPT !.lt = lt]
        ELSE env' \in Envs({lt}, {env.now})
  /\ before' = IF IsPause(at) THEN before ELSE store
  /\ UNCHANGED vars

Taking == at # None /\ at # Final /\ \E t \in trans : Take(t)

RunNext == Building \/ Begin \/ Dwell \/ Taking

RunSpec == RunInit /\ [][RunNext]_Vars

-------------------------------------------------------------------------------
\* Properties

InChain == at # None /\ IsPause(at)

RunTypeOK ==
  /\ TypeOK
  /\ at \in {None, Final} \/ at[1] \in Locs
  /\ level \in Levels
  /\ env = None \/ env \in Envs(0..MaxTime, 0..MaxTime)
  /\ \A s \in {store, before} :
       s[Value] \in [Stamps -> 0..MaxTime] /\ \A x \in Stamps : s[x] \in 0..MaxTime

\* The runs of the product are watched runs of the model: a sub-expression is
\* matched only where it holds and only after those before it, whatever chain of
\* hops the match takes, transitions are those of the model, and the feature is
\* computed from what its last match has stored.
Watched == INSTANCE FeatureMonitor WITH
  loc <- IF at \in {None, Final} THEN None ELSE at[1],
  matched <- IF at = Final THEN Len(feature) ELSE level,
  seen <- env,
  store <- IF InChain THEN before ELSE store

RunsWatched == Watched!Monitor

\* The times a feature is computed from lie in the windows of the feature: of
\* two sub-expressions that follow one another and both store the time, the
\* second one's is later by a delay that its window admits.
TimesInWindows ==
  at = Final =>
    \A k \in 1 .. Len(feature) - 1 :
      feature[k].sets # << >> /\ feature[k + 1].sets # << >> =>
        LET t == store[Value][feature[k].sets[1]]
            u == store[Value][feature[k + 1].sets[1]]
        IN t <= u /\ (feature[k + 1].delay # None => InDelay(feature[k + 1].delay, u - t))
===============================================================================
