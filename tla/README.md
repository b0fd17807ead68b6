# Verification of ForFET

ForFET computes the range of a *feature* over the runs of a hybrid automaton.
A feature is a sequence of sub-expressions ("the voltage rises past 10%, then
within 5 s past 90%") with assignments and a value computed at the last match.
The tool builds the product of automaton and feature, has SpaceEx
over-approximate the range, and then searches the two ends of that range with
the SMT-based reachability tool dReach. This directory holds TLA+ models of its
own code, `src/forFET/structs.c`, `fbfvTool.c` and `parsers/`, their TLC runs and
TLAPS proofs. Vendored code (dReal, SpaceEx, HyST) is external.

## 1. Inventory

| Component | State | Operations | Talks to |
|---|---|---|---|
| main (`fbfvTool.c`) | `HA`, `sysFeature`, `featureRange`, work directory | dialogue, product, SpaceEx, HyST, two corner searches, summary | all below, in one straight line |
| feature parser (`featureParser.y`) | `sysFeature` | one record per sub-expression: dnf, event, delay, assignments | `addLocalVariable` on `HA` |
| product (`levelSequence`, `orderedResets`, `addTimeBound`) | locations, transition lists, condition lists that share nodes | one sweep over sub-expressions, locations and conjuncts | SpaceEx writer; SpaceEx and dReach explore what it builds |
| list helpers (`addConditionToList` ...) | heap cells | append, remove, reverse, duplicate | the product |
| model parser (`haslacParser.y`) | `HA`: signature, locations, transitions, initial sets | one record per declaration and property | the product |
| SpaceEx writer (`writeSpaceEx`, `writeSpaceExConfig`) | `.xml`, `.cfg`, the map from names to positions | locations, transitions by name, initial sets | SpaceEx, HyST |
| HyST, template parser | `.drh`, `drhTemplate.drh` | text to text | next child |
| SpaceEx output parser | `featureRange` | the range of FINAL | search |
| extremal search (`extremeTraceSearch`) | the interval of each frame, `satResult` | halve, ask, recur beyond the witness | `satCheck` |
| query (`satCheck`, `extractJSONFeatureInterval`, `fileCopy`) | `aut.drh`, `drh.out`, `aut_<k>_<l>.smt2.json`, `kValue`, `lValue`, `traceCount`, `trace_<n>.json`, `aut_<n>.drh` | copy, append goal, run dReach, parse, extract, keep | cp and dReach as children, through files |
| trace repair (`fixNullsInJSON`, `parseKey`) | an open stream, the number of the next step | drop the null steps of a trace, number the others anew | query, viewer |
| parameters (`getParamValueFromIO`, `updateFeatureParams`) | the values typed | substitute them in the feature | feature |
| menus (`requestModelChoice`, `editParameter`, `requestFeatureChoice` ...) | `runFile`, the parameters of the model | read with scanf, record | parameters |
| configuration, printing, scripts | - | input and output | user |

The program has one thread. What makes it hard:

* **Children and files.** Every answer comes from another program through files
  of fixed names that are never removed. Exit statuses are ignored. What a
  crash of a child, or an earlier session, leaves behind is read like an answer.
* **Answers that are not exact.** dReach is delta-complete: "sat" only
  speaks of a perturbed automaton, and its enclosure may stick out of the goal.
  The search uses it as the end of the next interval.
* **Shared list nodes.** Guards are linked lists; one node, `levelGuard`, is
  linked into most guards of a level and later appended to.
* **Numbers that several places must agree on**: the type of an event (parser,
  product, guard), the number of a trace (file, interval, automaton).
* **A long sequence of legal steps.** A product is right only if the *runs* of
  the automaton it describes are: matches in order, assignments in order,
  clocks set back, chains of hops never stuck.

What makes each component correct:

* search: corners extreme up to the precision limit and attained, each backed
  by a trace of its own; every goal proper; recursion bounded; it ends;
* query: the answer is that of this query; a trace, its automaton and its
  number belong together; no trace is lost;
* product: where a sub-expression holds the next level is offered, where it
  cannot hold the model moves as before, chains can be finished;
* runs of the product: exactly watched runs of the model, the feature computed
  from times that lie in its windows;
* pipeline: what is searched is this session's automaton over this session's
  range;
* parameters: a repeated session takes the same values; they replace the
  parameters in the feature and nothing else;
* trace repair: nothing but nulls is lost, numbers and keys stay consistent, the
  result can be read;
* list helpers: two guards share what is meant to be shared and nothing else;
  each variable is reset once;
* model parser and SpaceEx writer: what is written is the model, with the product
  beside it: no invariant, transition or initial set lost, no chain of hops cut
  by names that coincide;
* menus: the run file repeats the session.

## 2. Modules

### Extremal search

`FeatureCorners` is the abstract promise: main prints the left, then the right
corner; no value of the feature beats a corner by the limit, and each corner is
attained up to `Slack` in the perturbed automaton.

`ExtremeTraceSearch` is the code. One action per branch of
`extremeTraceSearch`: `ReturnRange` (base case), `SatNear` and `SatFar` (a
witness in the half nearer to or farther from the corner, and the call beyond
it), `UnsatNear` (on to the other half), `UnsatFar` (NULL, replaced by the
callers' `satResult`), and `Report` (the summary of main, which reads the right corner if there is a left
one). The recursion is a
tail recursion: `sat` is the `satResult` that would be returned. Reals are
scaled to integers, `Unit` being 1.0; `Floor`, `Ceil` and the int parameter
`precision` are what the code does with them. `Witnesses(h)` holds every
answer a delta-complete solver may give for the goal h. The solver is deterministic:
`verdicts` keeps the goals asked so far, and a goal asked again is sat or unsat as
it was before (`Answer`), which happens, since the left and the right search begin with the
same two halves. The enclosure of a second witness may differ from the first,
a freedom dReach does not have; the properties hold all the same. No child fails here.

`ExtremeTraceSearch` implements `FeatureCorners` (property `CornersPromise`).

### Queries

`SatCheck` follows one query after another through cp, dReach, the output
parser, `extractJSONFeatureInterval`, the numbering, `fixNullsInJSON` and the
copy of the automaton. A file's contents are the number of the query that wrote
it, or `Earlier`, `Absent`, `Empty`. Failures are actions: `Ask(FALSE)` (cp
fails, the goal is appended to the old automaton), `SolverDies` (on one path),
`DReachStops` (also before all paths are tried), `NoOutput` (the parser calls
exit), `AutomatonNotKept`. `FixNulls` and `FixNullsZero` are the two outcomes of
the missing return value. `Exit` flushes what is still buffered.
`found`, `broken`, `spoilt` and `clean` are history variables: which path was
sat, whether a child of this or of some query failed, whether the directory was
empty at first.

`ExtremeTraceSearch` uses of `SatCheck` what `AnswersTrue` says: an answer is
this query's own, under the newest number.

### Product

`FeatureExpr` has the records of the parser and what they mean at an instant:
where every PORV stands (false, turning true, true, turning false), which
sign each derivative has, which transitions are open, the two clocks. The guard of an
event on a PORV asks for the sign of a derivative (`SignGuard`): of the first one in
the list of the location whose variable's name the left side of the PORV begins with
(`Derivative`), or of none. `Porv` says of each PORV which names these are (`begins`) and
which variable it really compares (`var`).

`LevelSequence` is the construction. State: the position in the three nested
loops (`id`, `here`, `dnfID`), the transitions built so far, and per level what
has been appended behind its shared guard node (`tail`). Actions: a conjunct is
skipped (`SkipTerm`), matched by a self-loop (`MatchByLoop`) or, for an event on
the state, on copies of the original transitions (`MatchOnEdges`); after the
conjuncts of a location the original transitions are retained for the level
(`RetainAll`, `RetainOpen`, `RetainNone`); at the end the originals are gated by
level 0 (`Gate`). `OrderedResets` is the chain of hops through pause locations.
Where a transition has two resets for one variable (`localTime' == localTime`
and `localTime' == 0`) the model takes the second, as the code intends.

`ConditionList` has the linked lists of conditions on a heap: addresses, `Link`
(`addConditionToList`, which hangs one list behind another without copying),
`Duplicate`, `Reset`, `WithoutFirst` (`removeConditionFromList`, which compares first
letters). `ModelFile` is what `haslacParser.y` makes of a file.

`ProductLists` is the construction once more, on the lists of the code, from a
file that has been read: `AddVariable` (`addLocalVariable`), then `Begin`, the
same actions as in `LevelSequence`, and `Gate`. Guards are addresses, the node of a
level guard hangs in many of them; resets are sequences in which a variable may
occur twice; a transition stands in the list of a location, and there are
several pause locations of one name. What the code does in a loop over a list is a
recursive function over its positions, or a fold. `Declared` gives the variables that the
feature parser adds for a feature. It implements `LevelSequence` (property
`Product`): `Abstract` reads off each transition what it asks for ahead of the
level guard, whether it shares that guard, and what its resets come to. So `tail`
of `LevelSequence` is what really hangs behind the shared node.

`SpaceExFile` goes on to the file: `Bound` (`addTimeBound`), then `Write`
(`writeSpaceEx`, `writeSpaceExConfig`), which looks locations up by name. The map it
uses is keyed by the addresses of the names, so that `Finds` leaves open which of
several locations of a name is found; a target of that no location has the name
gets whatever the memory holds (`Junk`).

`FeatureMonitor` is the abstract specification of a run: the model moves as it
always does, beside it the sub-expressions are matched in order, each where it
holds; every match stores the time. It knows no levels, copies or hops.

`FeatureRuns` runs the product: `Begin`, `Dwell` (time passes, not in pause
locations), `Take` (a transition). `RunsWatched` says that these runs implement
`FeatureMonitor`; under the refinement mapping a chain of hops is one match, at
its last hop, so that `store` is hidden until then.

### Sessions

`Pipeline` is main from the choice of a feature to the search, for one session
after another in the same work directory. A file holds who wrote it (session
and feature) and whether FINAL was reached, or it is `Absent` or `Cut`. Each
child either does its work (`SpaceExWrites`, `HystWrites`) or dies before, while
or after writing (`SpaceExDies`, `HystDies`); main looks at no exit status.
`RangeRead`, `NoRange` and `RangeFromStdin` are what the output parser makes of
`sx.out`, `Copy`, `CopyCut` and `CopyFromStdin` what the template parser makes of
the `.drh` file: a parser without a file reads the terminal (`TypeRange`,
`TypeDrh`). `Search` stands for `ExtremeTraceSearch`, whose `range` and automaton
it hands on.

### Parameters

`ParamEntry` has the dialogue (`Menu`, `Reject`, `Choose`, `Finish`, `Enter`) over
an input that scanf reads: a number with a fraction is read up to the fraction
by `%d`; a word or the end of the input stays where it is; of what only begins like a
number (a sign, a point, `n`, `0x`) a conversion eats the beginning and reads nothing,
`%d` less than `%lf` (`AfterInt`, `AfterReal`). A value that is not read is what the memory held.
Values are texts as
`%lf` prints them. `Update` replaces the names in all texts, by characters and one
parameter after another as `replaceStrWithStr` does; `UpdateFails` is the exit for
a text that gets too long, `UpdateCrashes` the crash on a sub-expression without event.
The run file is a buffered stream: an exit writes it out, a crash loses any
part of its end.

`Session` puts before it what main asks first: `ChooseModel`, `ChooseParam` and
`EditParam`, three times `GiveNumber`, `ChooseFeature`, and `Gap`, the `scanf("%c")` that
throws a character away. All share one `input`: what one conversion does not read
the next one finds. A menu whose number cannot be read goes by what is in memory
(`Answers`). `head` is the run file before the dialogue; a `Crash` may lose lines of
it too.

### Trace repair

`TraceRepair` works through a trace: `SkipStep` for a null, `WriteStep` for the
others. `ParseKey` takes a key apart in the parts between its underscores, one after
the other (`ReadPart`), as `parseKey` does. `SatCheck` sees the repair as one step, of which only the missing
return value and the open stream matter.

`MC*` modules only hold constants for TLC.

## 3. Runs

| Run | Shows |
|---|---|
| `extreme_trace_search` | the search implements `FeatureCorners`; goals proper; calls shrink; corners witnessed; both corners or neither; it ends |
| `level_sequence` | next level offered where a sub-expression holds; chains complete; transitions retained |
| `negedges_offered` (violation) | no transition for `@-(state == q)` |
| `posedges_offered` (violation) | a positive edge of x2 is guarded by the derivative of x |
| `model_to_file` | the lists in memory are the product; guards share level guards only; every variable is reset once and as the model wants; what is written has the model's transitions, invariants and initial sets, and every transition leaves and enters the location meant |
| `feature_runs` | runs of the product are watched runs; times lie in their windows |
| `sat_check` | answers are true, traces match and survive, answers come |
| `traces_whole` (violation) | the trace may be overwritten at exit by a buffered tail |
| `pipeline` | without failures each session searches its own automaton and range; always one of the feature asked for; only a failure makes a parser wait |
| `trace_repair` | nothing but nulls is dropped; numbers and keys are consistent; separators right unless the last step is null |
| `traces_readable` (violation) | a trace that ends in null gets a comma before its closing bracket |
| `param_entry` | the run file repeats the session, from the model to the last parameter, unless it crashed; values replace names as if by tokens |

The violation runs each quote, in `PROJECT.json`, the comment, message or ReadME
line that the code disagrees with. The four deviations of the product are named
in `LevelSequence` (`Leaking`, `NegedgeLost`, `LateFinal`, `Misread`) and excepted in the
properties of the passing run, and nothing else is.

Bounds, and why they are enough:

* search: all subsets of four adjacent values, every widened range, `Eps` and
  solver tolerance of half a unit. Ranges are wide enough for several recursive
  calls on each side, and witnesses on both sides of every cut;
* queries: three paths of two lengths, three queries. Two queries are needed
  for a stale answer, three for a number to skip one. One leftover file belongs
  to a path of the automaton, one does not;
* product: two locations, all subsets of three transitions, two of them
  parallel, two PORVs, features of one and two sub-expressions: the first level,
  the last, and a level that is both, without window and assignment or with both.
  One PORV compares x2, one x; in one location the derivative of x comes before that of
  x2, in the other x has none, so that the own derivative, another one and
  none are found. All instants are enumerated when a product
  is built, with all signs of derivatives. `MaxTime` = 2 exceeds the bound 1 of FINAL;
* model to file: five files (no properties, an invariant given twice, parallel
  transitions, a transition to no location, one from none), two initial sets,
  variables whose names begin with level and with time, a location called
  final. Features of one, two and three sub-expressions with all kinds of
  events, chains of up to three assignments, and two pause locations of one
  name; three sub-expressions make an inner level whose guard is shared;
* sessions: two features and three sessions, so that a file may be of the
  session before last, and of either feature;
* parameters: features of two parameters, one and none, names of one and two
  characters, one a part of another, values of one and two characters, texts
  that get too long. Six lines of the run file in the dialogue are a
  complete one with an early end or a value changed; eight before it are a
  session with one parameter of the model changed, or with a feature asked for
  that is out of range;
* repair: four steps, so that two nulls may lie between two others; a plain
  name, one of two words, one with a number;
* runs: three sub-expressions, so that there is an inner one; one PORV and
  three time steps. Runs may stop at the time bound: no deadlock check.

Fairness. `ExtremeTraceSearch` has WF on Next, `SatCheck` on `Step`, `Pipeline` on
`Main`: one thread that waits for its children, which end. No fairness is assumed
of the caller's next query, of a user at the terminal, or of the next session.
`ParamEntry`, `Session`, `TraceRepair` and the constructions have none: they
are loops over finite lists, or wait for the user.

### Known deviations without a run of their own

The code was seen to depart from its comments or documentation in these points
too. The models contain all of them; the properties of the passing runs except
them by name.

* A range of at most two limits is returned unsearched with an id nobody set;
  the number printed after `TRACE-FILE-ID` names no trace (structs.c:4865,
  spaceExOutputParser.y:98). `CornersWitnessed` is about the others.
* Guards of a first conjunct without first_match are appended behind the shared
  node `levelGuard` and so restrict transitions retained in other locations
  (structs.c:6946 against the comment at 6876). `Leaking`, `LeakedGuards`.
* `@-(p)` on a predicate gets no sign of the derivative and also matches where p
  turns true: `generateEventGuard` counts types 1 and 2, the parser sets -1
  (structs.c:5917-5929, featureParser.y:566). `SignGuard`.
* The derivative looked at is the first whose variable's name the left side of the
  predicate begins with: for x10 that of x, for x - y also (run `posedges_offered`).
  If none is found, as for a variable without a flow in the location, a positive edge
  gets no sign either and matches where p turns false too (structs.c:5914). `MatchesOffered` excepts
  the former (`Misread`), `RunsWatched` both (`Sharp`).
* If dReach dies before it names a path, `satCheck` returns the witness of an
  earlier query (structs.c:4119). `AnswersTrue` has `~broken`.
* If SpaceEx fails, the range of an earlier session, perhaps of another feature,
  is reported as found (fbfvTool.c:424-431). `SearchesOwn` has `~failed`.
* A last sub-expression that is only an event enters FINAL without setting time to
  0, as all other branches do, although `addTimeBound` gives FINAL the invariant
  time <= 1: after time 1 this match cannot be taken, against the comment at
  structs.c:6432 (structs.c:6839, 7020). `LateFinal`.
* A variable of the model whose name begins with level loses its reset in matches
  on transitions, and level then has two resets (structs.c:366, 6555).
  `Mistaken`. One whose name begins with time is set to 0 where FINAL is entered
  (structs.c:6259).
* `localTime` is reset twice by every match, `localTime' == localTime` and
  `localTime' == 0` (structs.c:849, 6660). `Expected`.
* A location without invariants is written without `</invariant>` unless the
  feature has times (structs.c:3283). `Unclosed`.
* A transition to a location that does not exist is let through by the parser and
  written with an uninitialised target (haslacParser.y:499, structs.c:3418).
* A location of the model called final gets the invariant time <= 1
  (structs.c:7020).
* The output variable of SpaceEx is the name of the feature's file, the variable
  in the model that of the feature in it (fbfvTool.c:324, 382); nothing compares
  them.
* A word typed at a menu chooses by an uninitialised number (structs.c:3730); the
  run file has the choice.
* A word typed for a value leaves the parameter uninitialised and the dialogue
  stuck; a mere sign or point leaves it uninitialised and the dialogue goes on, with
  the value in the run file as if it had been typed (structs.c:2531). `Enter`.
* A feature with parameters and a sub-expression without event crashes, and the run
  file, a stream not flushed before, lacks lines of the session (structs.c:2666).
  `UpdateCrashes`, `Crash`; `Replays` and `SessionReplays` except it.
* A variable with a number in its name gets wrong keys when its steps are
  renumbered (structs.c:4481-4520). `Plain`.

## 4. Proofs

`ExtremeTraceSearch_proofs`, for all sets of values, precisions and solver
tolerances:

* `TypeCorrect`;
* `GoalsAreProper`, `CallsDoShrink`: with a usable precision. Both rest on
  `Mid` lying strictly inside an interval wider than two limits;
* `CornersAreWitnessed`;
* `CornersComeTogether`, from `VerdictsInv`: a search has a witness as soon as one half of
  the widened range was sat and gives up only when both were unsat (`SomeFound`,
  `BothMissed`), and no goal was both. So the second search ends as the first one
  did, although it asks in the other order;
* `CornersAsPromised`: the step simulation with `FeatureCorners`. The
  strengthening says that no feasible value lies outside `given` on the side
  of the corner, and that the witness in hand is at most three limits off.

`SatCheck_proofs`, for all sets of paths and any number of queries:

* `SatTypeCorrect` and `AnswersAreTrue`, from the invariant `IInv`. The answer
  is decided four steps after dReach has spoken, so the invariant carries along
  `Stages` what the files say: while dReach runs all tried paths have
  an empty file; when it is done without a sat path all have, so that even
  a stale `kValue`, `lValue` leads to an empty or, in a clean directory, absent
  file (`OnlyPaths`). `Counting` bounds the numbers by the queries;
* `TracesAreKept`: numbers not yet given out have no trace of this session
  (`Fresh`);
* `TracesStayMatched`: in a clean directory without failures each number has
  trace and automaton of one query, or neither yet, and the query in hand is
  later than all that have a number.

`Pipeline_proofs`, for any features and any number of sessions:
`PipelineTypeCorrect`, `OwnIsSearched`, `FeatureIsSearched`. The invariant says what
is certain at each place of main: a translation is of the feature its file is
named after, whoever wrote it (`NamedAfter`); beyond the parser there is a range
(`HasRange`); without a failure the files read next are this session's (`Stages`).

The proofs about recursive functions rest on three lemmas that the modules below
begin with. The library's
induction theorems take an operator, which the provers cannot instantiate, but
a least element of a set of numbers can be had from well-foundedness
(`LeastOfNats`), and from it induction in terms of sets (`Upwards`) and the existence
of a function defined step by step (`StepByStep`). So what a recursive *function*
of the models computes is proved like anything else; folds are not, since they
are recursive operators underneath.

`Session_proofs`, for any features, input and length of the run file, first about
the dialogue alone, then about whole sessions:

* `ParamTypeCorrect`, which rests on what scanf
  leaves behind (`IntLeaves`, `RestLeft`), and `SessionTypeCorrect`: the menus leave an input that
  the dialogue may start from, whatever conversion each of them used;
* `DialogueReplays`, `SessionDialogueReplays`: every line written takes the reader of
  the run file to where the dialogue stands, the parameter chosen included, and
  the flag that ends the dialogue is what the reader would compute. Of a crash, which loses
  lines, nothing is claimed but that the state stays well formed;
* `SessionRepeats`: the same for the menus, line by line of `head`;
* `ParamsSubstituted`, `SessionSubstituted`: a text is followed as a row of pieces
  (`Heads`), the tokens with the values put in so far (`SoFar`). While it is in
  pieces the next name is found as a whole piece only (`WholeSoFar`): a match
  inside a token is excluded by `Apart`, one that goes across a border by the
  characters at the border, and one that touches a value would have its first
  character there. So the scan of `replaceStrWithStr`, which goes by characters and
  jumps over what it finds, goes piece by piece (`PutReplaces`), and one name after
  the other gives what all at once would (`SubstituteIs`). `Reckoned` says that the
  texts are made of the values in hand when the dialogue ends, all of them set.

`FeatureRuns_proofs`, first for the construction, for any locations, transitions and features:
`LevelTypeCorrect`, `ChainsNotStuck`, `MatchesAlwaysOffered`, `AlwaysRetained`.
`ChainsNotStuck` needs to know that behind each hop
there is a transition for the next one with guards no stronger: the invariant
says that every transition into a pause location stands together with the rest
of its chain, on the same level and with the same guards (`Chained`), and that what
was appended behind the level guard since can only be what `LeakedGuards` names
(`TailsLeak`), so that outside of `Leaking` the guards of a chain are still those
it was made with. `MatchesAlwaysOffered` excepts positive edges guarded by another derivative
(`Misread`). It and `AlwaysRetained` need to know what the sweep has already passed
(`RInv`): for every conjunct behind it and every instant, the chain of
transitions that matches there (`Made`); for every location behind it that is
`Hopeless`, the copies of its transitions (`Kept`); and that each transition is one of
the two kinds, with the guards of its kind (`Sound`). A chain is followed hop by
hop with `Upwards`. A location is `Hopeless` whatever the window of the
sub-expression: `levelSequence` retains transitions without a look at the delay.

Then for its runs, on top of these:

* `RunsTypeCorrect`;
* `RunsAreWatched`: the step simulation with `FeatureMonitor`. That every transition is
  of one of the two kinds (`Sound`) says that a step moves or matches; `Halted`
  says where in a chain of hops a run is and what it has stored since the match
  began, so that the last hop is the whole match. Its hypothesis `Sharp` names two deviations of section 3: no
  sub-expression waits for the negative edge of a predicate, and for a positive edge the
  derivative found is, in every location, that of the variable compared.
  Without it the product matches where the monitor does not;
* `TimesAreInWindows`: the invariant `TimesKept` dates each match and ties the clock
  `localTime` to the last of them. `StoredOnce`, no variable is stored by two
  sub-expressions, is what makes a variable the time of *its* match; a feature
  that stores a time twice is computed from the later one, as it says.

`SpaceExFile_proofs`, for any files, models and features, about the lists of the code
from the file that is read to the one that is written. `FileSpec` is the whole way:
`ProductLists`, then `Bound`, then `Write`.

* `ListsTypeCorrect` and `GuardsStayApart`, about what is shared, from `ListsInv`. What
  is kept there of an automaton (`Fine`): all addresses, locations and targets exist
  (`Shaped`, `AllLead`); two guards meet in nodes behind a level guard only
  (`Parted`), and those of the model's own transitions not even there
  (`Untouched`), which is why the gate may append to each of them. `Lists` says that a
  heap has no cycles: the addresses have lengths that fall from node to node.
  Every way in which lists are changed is one of two. The heap grows
  (`Grows`): new nodes appear, and existing lists go on with them only if they
  go through the end of a level guard. Or something is hung behind one guard that nothing else
  reaches (`GuardExtended`), in the gate. A transition is added only if its guard meets the others
  at level guards (`Pending`), so that each step, `SelfLoopFine`, `OnEdgeFine`,
  `WaitFine`, `HopStep`, `GateOneFine`, is a matter of where its nodes come from. The
  loops, hop after hop, transition after transition, are followed by `Upwards`;
  what holds along a list is shown by `AlongLists`.
* `ChainsStayWritten`, from `FileInv`. `Write` looks names up by address: of the
  positions where a name occurs exactly one is found (`FoundForName`), and by `AllLead`
  every target in the automaton occurs. It is the same for all who use the
  name, whichever it is: so a chain goes through one pause location even when several
  are called alike.
* `ModelStaysWritten`, `InvariantsStayWritten`, `AlwaysStarted`, from `ReadInv`: what
  was read is still there. The transitions read stand first in the list,
  each asks for its own edge and for no more, from the gate on for level 0 also
  (`Copies`); the locations are those of the file, FINAL, and pause locations, each
  under the invariant of the place where its match began (`ArePlaces`); the
  initial sets have what was added so far (`Starts`). Whatever the sweep does
  continues the automaton in this sense (`Continues`), and the gate nearly does
  (`Gates`). `WrittenInv` says the same of the file.
* `FinalAlwaysFound` also needs `Settled`: what a transition does to level shows
  where it leads. Only what sets it to 0 leads to FINAL, and for this the
  last reset of level must be the product's own, whatever the model resets and
  whichever identities a copy has (`LoopSettles`, `EdgeSettles`).

`ProductLists_proofs`, for any files, models and features, on top of these lemmas:

* `ProductRefined`: the step simulation with `LevelSequence`. In the invariant
  (`ProductInv`) every transition that was added stands for one of the product (`Stands`):
  its guard reads off as the conditions ahead of the level guard, with or
  without a share in it (`GuardStands`); its resets come to what the product says
  of level, time and the stored variables (`Effects`). The nodes behind the guards of different
  levels stay apart (`Guarded`), so that a condition hung behind one of them is an
  addition to one entry of `tail` and changes no guard otherwise read (`Widens`). Each
  operation of the code is then shown to add just the transitions the product asks for (`Adds`):
  `SelfLoopAdds`, `OnEdgeAdds`, `WaitAdds`, and `HopAdds` for each hop of a
  chain, whose order of assignments is that of the product's (`MatchingIs`). In
  the gate each original transition gets its level (`EachAtGate`). Last, `Transitions`,
  `Tails` and `Phase` are what is added up to (`AddsReads`, `ListsRead`).
* `ResetOnceAlways`, from the same invariant: how often a variable is reset by a
  transition is counted through every step of its making (`Once`): by
  concatenation of lists, by the copies, by the removal of the first name that begins
  with level, and by the assignment of each hop, which replaces the identity made for it.

`TraceRepair_proofs`, for traces of any length: `NullsInside`, from the invariant
that as long as steps are to come every step written has its comma; and
`NothingElseDropped`, from the invariant that the steps written so far are those
of the part already read that are not null, each with its values (`KeptOf`: the
places in the old file are named by an increasing function, which every step
read extends by one or leaves alone). `RepairTypeCorrect` and `NewNumbersRight` are
about the keys: `ParseKey` finds the id of every key, and of a name without
numbers the whole name as prefix and the step as it was written. The invariant
`Numbered` says so of the steps written so far.

The assumptions are those of the modules' ASSUMEs. Paths are pairs of numbers, the
marks of files are not numbers, the precision limit is not negative. The
transitions of the model leave and enter locations it has: for the places that a
run goes through this is needed (`RunsAssumption`), and SpaceEx refuses a model
in which it is not so. An event is a change of state or an edge of a predicate
the model has, of one of the three kinds the parser knows (`LevelAssumption`).
A PORV compares at most one variable that has a derivative (`PorvAssumption`); it turns true or
false by a crossing in the direction of its operator (`Crossing`), so that the derivative of that variable is
not 0 at the edge: a threshold that is only touched is no edge. The lists of files and features are
lists (`ListsAssumption`). No model and no feature has a variable level of its own
(`NamesAssumption`): the code does not compare the names it adds with those it finds, and
a product with two meanings of level would be none. For the same reason no
variable is declared twice, by the file, by the feature or by both, and the
transitions assign declared variables only (`DistinctAssumption`): the parser
lets both through, SpaceEx refuses such a model. No value has a character that the name
of a parameter begins with, and no two tokens in a row meet in characters of names
(`TokensAssumption`): names begin with a letter or an underscore (featureParser.l:355),
`%lf` prints digits, a point and a sign, and the parser puts blanks around every
operator (featureParser.y:585). The words inf and nan, which scanf also takes for
numbers, are left out: once they are in a text, a parameter named by a part of
them may be found there. That the locations called final are some of the model's
(`FinalAssumption`) is what `FinalLike` is for.

Only model-checked is liveness (`Termination`, `AnswersCome`, `NotHeldUp`), which the
prover does not reach. Every invariant and every action property of a run is proved.

## 5. Plan

Done: search, queries, product, runs of the product, sessions and their work
directory, the dialogues, trace repair, the lists behind the product, and the way
from the text of a model to that of SpaceEx.

Proved: the invariants of search, queries, pipeline, dialogues, trace repair,
product and runs of the product, those of the lists and of the file that is
written, and the refinements of `FeatureCorners`, of `FeatureMonitor` and of
`LevelSequence`.

Left, in this order:

1. The flows of pause locations and of FINAL (`createZeroDerivative`): time must
   stand still in a chain of hops, which `FeatureRuns` takes for granted.
2. The prompts for scenario, depth and precision after the dialogue.

## 6. Not modelled

* Lexing, arithmetic expressions, error texts, printing, flows, and the parts of
  the SpaceEx file that are the same for every model.
* The scenario, depth and precision prompts after the dialogue: three more
  scanfs, each at the mercy of what the one before left, like those of `Session`.
* Reading `modelList.txt` and the lists of features; paths, permissions and
  binaries checked by `validateEnvironment` in a straight line before anything
  is computed.
* `twoWaySplit`, `threeWaySplit`, `pSplitTransform`, `splitOnLocationContext`,
  `splitPORVConjunct`, `splitOnEvent`, `addFeatureLocalVariables`, about 2,000 lines of
  `structs.c` with what only they use: unreachable since structs.c:6456 took
  splitting out.
* The vendored solvers and converters under `dreal3-master`,
  `dReal-3.16.06.02-linux` and `spaceex_exe`, nearly all the lines of the repository:
  third-party code of which only what main sees is modelled.
* A child that cannot be started leaves by `exit` and so writes its copy of the
  run file's buffer (fbfvTool.c:419): the file then has its lines twice, behind
  the end of the session.
* Precision limits of 0 or less, which main accepts, are excluded by
  `EpsAssumption` and `PrecisionUsable`: the search does not end for them.
* Features whose assignments store anything but `$time`: what the code does with other
  expressions (`time = 0`, `v1 = v`) is in no module, an assignment is a variable.
  Names of parameters in assignments are left as they are, by the code
  and by the model.
* The buffer of `addIdentityResetToTransition` (structs.c:5050-5054) is too short for
  long names; what is written behind it is not modelled.
* Crashes after the dialogue, which lose lines of the run file like the one in it.
* The summary with a child that fails in one corner search only: `ExtremeTraceSearch` has
  no failing children, `SatCheck` no corners. If dReach dies in the right search, main
  reads a corner that is NULL (fbfvTool.c:571).
* Floating-point rounding: the scaled integers are exact.
