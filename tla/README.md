# PEREDUR in TLA+

PEREDUR repairs specifications that no system can realize. It reads requirements in
FRETISH (or TLSF), breeds variants of the specification generation by generation, scores
each with external solvers, and writes the realizable variants that no other one implies.

This directory models what is hard about that program: the threads that share queues,
memos and flags; the child processes that hang, die or outlive their caller; the files a
killed run leaves; and the pure algorithms the search trusts, from the lowering of a
requirement to the moves that breed new ones. Every definition is read
from the C++; `PROJECT.json` names the lines it stands for ("map"). TLC checks each model
on small instances, TLAPS proves theorems about the components whose threads, processes and
files interleave, and about the search loop with its selection and scoring, for every value of
the constants, and every checked property is shown to bite by mutants of the model.

Below, paths are relative to `src/`, the repository.

## 1. Inventory

### The system at work

```
 main / repair driver  ──►  run_generations ──► filters ──► score_population ──► selection
     (one thread)              │                             │                     │
                               │ accumulator                 │ run_bounded_async   │
                               ▼                             ▼                     ▼
                  streaming implication filter        thread pool workers    NSGA-II / apportion
                  (a coordinator thread)               │  objectives: status, syntactic, semantic
                               │                       ▼
                               ▼              MRS walk ──► lookahead tasks (Background)
                      output directory                 │
                                                       ▼
                              realizability and satisfiability checkers (shared memos)
                                                       │
                                                       ▼
                              execute_and_capture: black, ltlsynt, ltlfilt, ganak, ...
```

The components interact in four ways: calls down this chart; tasks handed to the one
global pool (workers both run scoring parts and wait, inside them, on further tasks);
memos and stores shared by every worker under a mutex; and files, which a campaign reads
although the run may have been killed.

| Component (source) | State | Operations | What is hard | What makes it right | Module |
|---|---|---|---|---|---|
| Thread pool (`src/thread_pool.cpp`) | two queues, `m_waiting`, `m_stop` | `submit`, `worker_loop`, destructor, `idle_workers` | notify after unlock, tasks that submit tasks while the pool stops | no task lost or run twice, no lost wakeup, drained on return, one Background task ahead per worker | `ThreadPool`, `TaskPool` |
| Bounded-async dispatch (`include/bounded_async.hpp`) | `m_outstanding`, `m_done`, a window | `run_bounded_async`, `CompletionQueue` | throw at any point while tasks borrow the caller's data | no task outlives its region, window kept, every item delivered once, every region ends | `BoundedAsync` |
| Implication filter, batch (`src/filter/antichain.hpp`) | atomic flags | `check_pair`, `subsumed_in`, `merge_subsumed` | flags read, a query of seconds, a flag stored | exactly the maximal survive | `Dominance`, `Sweep`, `BatchFilter` |
| Implication filter, streaming (`src/filter/streaming_maximal.hpp`) | queue, members, listing, error | `push`, `finish`, destructor, coordinator | abandon at any moment, a merge that throws | the same set as the batch filter, whatever the batches | `StreamingMaximal`, `MaximalSet` |
| Status objective (`src/fitness/status.cpp`, `factory.hpp`) | nodes with states, kill and abandon flags | the MRS walk, `WalkLookahead`; screens, orders of admission, the AuRUS ladder, the parts a score is split into, the output gate | speculation inside a pool task; many queries, each with its own reading of a timeout | speculation changes no score and never deadlocks; one grade however it is computed, and only repairs pass the gate | `MrsWalk`, `WalkLookahead`, `Status` |
| Process runner (`src/runner/process.cpp`) | pipes, process groups, a spawn mutex | `execute_and_capture` | fork races, hanging tools, grandchildren, PEREDUR's death | calls return, kills are final, no call goes on to run its tool once PEREDUR is dead | `ProcessExec` |
| Satisfiability checker (`src/runner/black.cpp`) | verdict memo, rewrite memo | two entry points over black and SPOT | tools that err, budgets that round to "none" | decided answers are true, tools bounded | `SatisfiabilityChecker` |
| Realizability checker (`src/runner/spot.cpp`) | memo, table of decided queries, controller store, witnesses | `decide_realizability_ltl` and what it tries first | inference from inference, stored controllers under other assumptions, races to memoise | no wrong verdict is given or kept | `RealizabilityChecker` |
| Output directory (`src/genetic/accumulator.cpp`, `src/repair/`) | files, index, listing, manifest | accumulate, list, climb, emit, manifest | kill between any two writes, full disks, a reused directory | accumulated files once whole stay so, every index row and listed name is a whole file of its own, every repair found is answered for, `run.json` is opened after the last repair | `RunOutput` |
| Search loop (`include/genetic/pipeline.hpp`, `src/genetic/generation_loop.hpp`) | population, caches, budget | one action per stage of a generation | budgets that end mid-stage, filters that reject all | nothing found is lost, the best never falls, never an empty pool | `Generation` |
| Selection (`src/genetic/nsga2.cpp`, `src/genetic/demotion.cpp`, `replicate_to_size`) | ranks, counters, quotas | sort, demote, crowd, apportion | order of pairs, empty fronts, rounding | ranks are fronts, quotas kept | `Nsga2Sort`, `Apportionment` |
| Scoring (`include/genetic/generation.hpp`) | fitness cache, tallies per candidate | `score_population` | parts of many candidates landing in any order, some throwing | the result a serial sweep gives | `ScorePopulation` |
| FRETISH lowering and orders (`src/requirement.cpp`) | none | `requirement_to_ltl`, `timing_implies`, `scope_implies` | boundaries, intervals that reopen or never close | the formula means what FRET says; the orders are implications | `Requirements`, `Fretish`, `FretSemantics` |
| Implication without a solver (`src/filter/implication_check.cpp`) | none | `requirement_implies`, `spec_implies_by_rule`, `residual_destination` | steps sound alone, composed in any order | every rule-proved implication is one | `Requirements`, `FretSemantics` |
| Order moves (`src/genetic/order_moves.cpp`) | none | joins, meets and steps back of timings, requirements and specifications | bounds proved slot by slot, filled where no rule applies | what is called a bound is one | `OrderMoves` |
| Mutation (`src/genetic/mutation.cpp`, `monotone.cpp`) | the specification's slots | structural actions, directed arms, free rewrites, the gate | several fields rewritten in one mutation, slots paired by index for ever | a directed mutation goes its way; locked and removed slots stay | `Mutation`, `FormulaMoves` |
| Crossover (`src/genetic/crossover.cpp`, `order_crossover.cpp`) | the same | graft, join, meet, relink, simplify | counts of one parent under the kind of the other | offspring are loadable, slots stay paired | `Breeding` |
| Breeding and the output climb (`breed` in `pipeline.hpp`, `src/genetic/climb.cpp`) | parents, visited set | breed a slot; climb a repair | a bisection in place of a walk | every accepted step is gated and proved, the furthest step is taken | `Breeding` |
| Propositional formulas and keys (`src/prop_formula/`, `src/formula_key.cpp`) | arena | render, parse, simplify, normal forms, three keys | a rewrite applied under a key that other spellings share | rewrites keep the meaning, keys merge only renamings | `Formulas` |
| Fingerprint prefilter (`src/fingerprint/`) | memo of models | evaluate over masks, refute | loops of words in machine words | it refutes only what is refutable | `Fingerprint` |
| Counting (`src/fitness/transfer_matrix.cpp`, `src/runner/ganak.cpp`, ...) | caches by key | truth table, encoding, matrix power | atoms a guard leaves out, acceptance, counts at a double's limit | a count counts what it says | `Counting` |
| Similarity objectives (`src/fitness/syntactic_similarity.cpp`, `semantic_similarity.cpp`) | none | pair slots, measure down-sets, average | closed sums over an order written elsewhere | scores are overlaps, 1 for itself | `Similarity` |
| TLSF (`src/tlsf/`) | sections of conjuncts, tombstones | lower, split, core, residual, mutate, cross, simplify | fragments that move between sections with different duties | each part asks about the same specification; conjuncts keep their sections | `Tlsf`, `FormulaMoves` |

Section 8 has the components that are not modelled, and why; `PROJECT.json`,
"components", has them all.

### Hazards

`PROJECT.json` lists, at its line, each place where this code can go wrong in a way a
test would hardly reach, and the properties that would catch it. Those without a property
carry a note, and section 7 repeats the ones that are real disagreements.

## 2. How the modules correspond to the code

Names follow the source: `m_waiting`, `m_outstanding`, `subsumed`, `m_nodes` are the
variables they are called after, and an action is named for its function or for the part
of it that runs without another thread seeing a state in between. A step ends where
another actor may look: at a mutex released, an atomic stored, a query handed to a
solver, a file operation, a child's exec. Where a property concerns another component,
that component is abstract:

* `TaskPool` is what `ThreadPool` implements (checked and, for safety, proved); `BoundedAsync`
  runs over `TaskPool`, not over `ThreadPool`.
* `MaximalSet` is what `StreamingMaximal` implements, `MrsWalk` what `WalkLookahead` does;
  `Status` has that walk as a fold, between the screens before it and the gate behind it.
* `Sweep`, the pairwise check with its unlocked flags, is shared by `BatchFilter` and
  `StreamingMaximal`, as `subsumed_in` is; both rest on `Dominance`.
* `Apportionment` is `replicate_to_size`, which `Generation` extends for the survivors that do not
  fill the next population. `Generation` has the fronts by their definition, `Nsga2Sort` how the code finds
  them; `Generation` has a scoring that drops what fails, `ScorePopulation` how its parts land.
* `Requirements` has the records of a requirement and of a specification that the FRETISH
  modules share, their orders, and what one implies of another by rule. `Fretish` (the code's
  lowering) is compared with `FretSemantics` (what FRET means by a requirement) on words that
  end in a loop; `FretSemantics` says when a rule is right too.
* `OrderMoves`, `Mutation` and the crossovers of `Breeding` say what one move may make of a
  specification, as sets of outcomes: a draw of the random generator is a choice among them.
  `Breeding` composes them into a slot of the offspring and into the climb, and holds the state a behaviour
  of the search has.
* `FormulaMoves` has the moves inside a formula, which FRETISH and TLSF share, `Tlsf` the sections.

A pure component (`Fretish`, `Formulas`, `Counting`, `Similarity`, `Tlsf`) is operators and
functions over a `word` and a `formula`; a behaviour chooses the formula and grows the
word, and each property compares, in each state, what the code's definition says with a reference
definition that shares nothing with it (words that satisfy a formula, valuations that do,
elements of a down-set that both have).

Solver queries are parameters: a preorder for implication, a set of words for a formula,
an oracle for subset realizability. What the tools may answer besides the truth (time
out, crash, print nothing, be wrong where the code says they are) is nondeterministic.

Definitions marked "Mutant of X" are not part of a model. Each is X the way a plausible
bug would have it; with X replaced by it, TLC finds the property named in
`PROJECT.json`, "mutants", violated.

### The modules TLC starts from

| Module | What it puts together |
|---|---|
| `MCTasks` | the pool, the regions over an abstract pool, and the tool calls tasks make |
| `MCImplicationFilter` | the batch filter and the streaming one, over one set of preorders |
| `MCWalkLookahead` | the walk and its lookahead, over every oracle |
| `MCRunOutput` | the output directory under three settings of failures and reruns |
| `MCBreeding`, `MCSearch` | bred slots and climbs; with them the search loop, the sort, the apportionment and the scoring |
| `MCCheckers` | the realizability and the satisfiability checker, and the status graded by both |
| `MCFormulas` | requirements on words, formulas, counts, scores and TLSF specifications |

Where such a module has several components that do not share state at run time, each
behaviour is about one of them (a variable `part` says which) and the others keep the
values they start with: their interleavings would add states and no behaviours. The definitions
of the components such a module extends are told apart by their names (`Init`, `AsyncInit`,
`ExecInit`), so that what TLC checks is what the proofs are about.

## 3. Runs

| Run | Instance | What it shows |
|---|---|---|
| `tasks` | the pool: 2 workers, 1 client, 2 Foreground and 2 Background tasks; regions: a Foreground one of 3 items (window 2) and a Background one of 2 (window 0, clamped) on 2 workers, launched out of index order, throws anywhere; calls: 2 at once, one with a deadline and an input, one cancellable, with and without `pipe2`, PEREDUR killed anywhere | the inductive invariant (queues, counters, no lost wakeup), the priority bound, a destructor that returns and only when drained, the refinement of `TaskPool`; no task outlives its region, the region's books balance, both end; kills reach the whole group and give no answer, calls return, none goes on to run its tool once PEREDUR is dead |
| `implication_filter` | 3 specifications under every preorder; batches of up to 4, 3 concurrent checks; streams in any order and batching, with failures and abandonment | the batch filter keeps exactly the first copies of the maximal specifications; the stream's members and listing are maximal sets, and it implements `MaximalSet`, ending included |
| `walk_lookahead` | 3 parts out of index order, 2 steps ahead, 3 workers, an oracle for every way a walk may go | the lookahead changes no outcome (`MrsWalk`), stops nothing it needs, leaves no task and no untrue memo, and needs no free worker to end |
| `run_output` | 3 candidates, 2 generations, up to 2 runs in a directory, kills, files that do not open, texts that do not reach the disk | the directory is readable whenever it is looked at, no found repair is lost but to a disk that refused it, the accumulator never ends a run |
| `search` | the loop: 5 candidates, population 3, up to 3 generations, 3 settings of selection, elitism and budgets; the sort: 3 candidates by 2 objectives; rank lists up to 4 and targets up to 12; 3 scoring calls; breeding: 2 parents of 2 guarantees and a locked third, up to 3 slots bred, 4 sets of arms, a climb behind 2 of them | nothing found is lost, the population is scored, sized and screened, the best never falls, the budget is kept; ranks are fronts and anchors extremes, apportionment keeps quota, scoring is serial in effect; a bound is proved, a locked guarantee is kept, a gated mutation goes its way and a step back stays short of the original, a climb is a chain of proved steps and takes the furthest |
| `checkers` | realizability: 2 workers, 3 settings of queries (reuse, comparison, routes); satisfiability: 2 threads, 5 formulas, 3 budget settings; status: 3435 candidates of up to 3 guarantees, removed ones among them, under 5 environments, 3 orders, any one query undecided or all of a kind | every verdict is right by whichever route, every table holds only right entries, witnesses prove what they say; undecided is only remembered after SPOT was asked, every tool is bounded; a status is the same scored whole or in parts, its top tier is the truth in any order, what it refuses cannot be kept, no timeout lets through the gate what is no repair |
| `formulas` | every word of up to 3 letters with a loop; 256 requirements for the lowering and the orders, 192 for the rules; some 350 formulas; 288 TLSF specifications | the lowering is FRET's meaning, the orders and the rules are implications; rewrites keep the meaning, fingerprints, counts and scores are exact; TLSF lowers to what its sections say; moves go their way and keep the format |
| `demoted_front`, `zero_tick`, `slot_shift`, `initial_join`, `strict_parts` | the instances of `search` and `formulas`, or smaller | violations: section 7 |

### Why these bounds

The bounds are the least at which each interesting case happens; the mutants confirm it.
With two workers and four tasks, of either priority, a worker parks while another is
notified, wakes to find its task taken, and meets `m_stop` with work queued. A region of
three with a window of two both fills its window and outlives its first throw. Three
specifications give every shape a dominance argument can take (a chain, a class of
equivalents, two incomparable), and the fourth member of a population is a copy. Three
parts are the fewest with a node two steps ahead that a settled part puts out of reach,
and three workers run at once what it looks ahead to and what it has dropped. Two calls suffice for one to
inherit the other's pipe, and one generation after the first for every "earlier" and
"later" in the output directory. One controller per scope makes the store evict; 2-bit
signatures make them collide, as 64-bit ones do for more conjuncts than bits.

In `search`, a chain of four ticks (`MaxTicks`) has an inside for a bisection to miss, and
two or three slots bred in a row let what one arm made be the parent of another's: the
divergences of section 7 need two.

In `formulas`, a word of three letters contains an interval that opens, closes, and reopens
in its loop; bounds up to 2 ticks put the boundary before, at and after its end. A
formula of one operator over atoms, or without a temporal operator, is told apart by
words of two letters. Words are over `{p, q}` for formulas, `{p, q, m}` for requirements.
Machine words are scaled down so that every carry happens: `ElementWidth` 2 and
`MaxPositions` 4 make a word of samples span elements and reach the limit, `WordShift` 2
stands for the shift of a prefix, `MaxAtoms` 2 puts formulas on both sides of the truth
table's limit, `MaxExponent` 5 puts counts on both sides of a double's. `MaxIndex` 4 is past the
largest bound measured, so that a sum over a family ends inside it. `SampledElements` 1 is
the first element of the sample; the order of the words in a sample is free.
The 288 TLSF specifications are each combination of sections used or not under either
semantics, with cores over every family of up to three culprit sets, a duplicate conjunct
among them.

Symmetry is used in `checkers`, for workers; the streaming half of `implication_filter`
takes one preorder per shape, which its module argues is sound.

Every run sets `CHECK_DEADLOCK FALSE`: each models something that ends (a pool destroyed,
a call returned, a run finished or killed, a word grown).

### Fairness

Fairness is only assumed where the scheduling gives it, and only in the runs that check
liveness:

* `ThreadPool`: each worker's steps, each notification already under way and the
  destructor's steps are weakly fair (threads are scheduled, mutexes are released, tasks
  end). Nothing makes a client submit.
* `BoundedAsync`: each caller and each worker of the abstract pool.
* `StreamingMaximal`: the coordinator, and the join.
* `WalkLookahead`: the walk's thread, and the end of a query that has started, since each
  has a budget or is killed. Nothing makes the pool start a pending task, since the walk
  itself may occupy the worker that would.
* `ProcessExec`: the caller's steps, the child's steps up to its exec, and the passing of
  a deadline. Tools get none: they may hang for ever.
* `RunOutput`: the driver and the coordinator.

## 4. What is proved

Seven modules hold the proofs, checked by tlapm: of what the components promise
whose difficulty is in their interleavings, and of the search loop with its selection, its
scoring and its apportionment. Each theorem holds for every value of the constants the
named assumption allows: any number of threads, tasks, calls, queries, candidates and
generations, and any order of events. TLC checks the assumptions on its instances. No
theorem assumes fairness.

| Module | Theorems | Assumptions |
|---|---|---|
| `TasksProofs` | of the pool `InductiveInvariant` and its parts, `Refinement` of `TaskPool` | `ThreadPoolAssumption`: workers finite, not empty, disjoint from the clients; Background tasks are tasks |
| | of the regions `RegionsAreAlwaysSafe` | `RegionAssumption`: a launch order repeats no item (`assert_permutation`), there is a worker |
| | of the processes `KillsAreAlwaysFinal` | `CallAssumption`: names of no call and of no mutex are not calls |
| `ImplicationFilterProofs` | `BatchInvariant`, `FlagsAreSound`, `BatchFilterIsExact`; `StreamIsAlwaysMaximal`, `StreamKeepsItsPromise` | `DominanceAssumption`: implication is a preorder in which every nonempty set has a maximal member (specifications are finite in number), the tie-break `Rank` is injective; and no query times out (`MayTimeOut = FALSE`: section 7 says what happens otherwise) |
| `WalkLookaheadProofs` | `LookaheadIsAlwaysSound`, `SpeculationChangesNothing` | `LookaheadAssumption`: the admission order repeats no part, the depth is at least one; nothing of the oracle |
| `RealizabilityCheckerProofs` | `CachesAreAlwaysSound`, `AnswersAreAlwaysTrue`, `WitnessesAlwaysProve` | `CheckerAssumption`: what words a strategy plays and a conjunct accepts is free; a rule's sides are an implication; a scope without inputs plays one word; ids are finitely many numbers |
| `RunOutputProofs` | `DirectoryIsAlwaysReadable`, `WholeFilesAlwaysSurvive` | `RunOutputAssumption`: implication is a preorder, and what a candidate is climbed to implies it (checked of the climb by `ClimbIsSound` in the run `search`) |
| `SearchProofs` | `FrontsExact` | `SortAssumption`: there is a candidate and an objective, each with positively many levels |
| | `ScoresSerially` | `ScoreAssumption`: a specification has a sequence of parts, a population is a sequence of specifications |
| `GenerationProofs` | `Apportions` | `ApportionAssumption`: the ranks are natural numbers in order, at least one |
| | `FindsAreReported`, `PopulationsAreScreened`, `SelectionIsElitist`, `BudgetsAreKept` | `GenerationAssumption`: each candidate has something to breed from it and as many objectives as the others; rates are percentages, elitism below selection; what passes the gate is not proved unrealizable |

Each argument is one inductive invariant, which TLC checks on a run before anything is
proved of it, with a lemma per action, or per part of the invariant an action can disturb.

**The pool.** The invariant is

    IndInv == TypeOK /\ ControlOK /\ WaitingIsExact /\ WorkConserving
                /\ EachTaskInOnePlace /\ PassedByOncePerWorker

and none of its later parts is inductive alone. `WorkConserving`, the absence of lost
wakeups, is a count: while a worker is parked, there are at least as many threads on
their way (at the lock, woken, or about to notify) as there are queued tasks. A push adds
one task and one notifier; a notify turns a notifier into a woken worker or finds nobody
parked; a worker that takes a task passes from one side of the inequality to neither,
having taken one from each. It needs `ControlOK` to know which threads can be where, and
`EachTaskInOnePlace` for finishing a task to leave the queues alone. `PassedByOncePerWorker`
strengthens the priority bound to something a step preserves. `Refinement` says that each
step of the pool is a step of `TaskPool` or leaves it unchanged.

**The regions.** That no task outlives the call of `run_bounded_async` which launched it is not
inductive: a caller leaves on a counter reaching zero, and knows nothing of the pool. The
invariant, `RegionsAreSafe`, says what the counter counts, `m_outstanding` = the tasks launched
that are queued or running and have not reported, and that what has reported is in the queue,
handed over or, after a throw, discarded. The counting facts (`BorrowingGrows`,
`BorrowingShrinks`, `SubmitAddsOne`, `StartMovesOne`, `FinishKeepsLive`) are lemmas about what
a step of the pool does to the set of live tasks; `RegionWise` splits the invariant by region,
since a step touches one.

**The filters.** Breaking ties inside a class of equivalents by
rank makes dominance transitive (`DominanceTransitive`), so a pair skipped because one side is
flagged is a pair the answer does not need: its other side is dominated, if at all, by
whatever dominates the flagged one. `BatchInv` says it of the sweep: each flag is on a
dominated specification, and each pair not yet settled is unstarted, being checked, or
has a flagged side. From it `FlagsAreSound` and, with the copies that
`representatives_of` sets aside, `BatchFilterIsExact`. The lemmas about the sweep
(`BeginKeeps`, `StartKeeps`, `FinishKeeps`, `SweepIsExact`) serve the streaming filter too. Its
invariant says that what was pushed is in the queue, in the batch being merged or accounted
for by the members, that the members are the maximal ones of what was merged, in push order, and
that the listing on disk was such a set; `MergingKeepsTheMaximal` is why a batch may be compared
with the members alone. `StreamKeepsItsPromise` is the safety half of the refinement of
`MaximalSet`: the set `finish` returns does not depend on the batching.

**The walk.** A lookahead is sound when the walk never waits for a query that was killed and
never misses one it needs. Both follow from where the walk can still get: `reachable` is the
union, over the branches from the present step, of what the next `m_depth` admissions may ask
(`ReachableAhead`), and a set that leaves it never comes back (`OutOfReachIsGone`), so a node dropped
or killed is not asked for later. The rest of the invariant books who owns each node and that
the memo is the oracle's. `SpeculationChangesNothing` refines the serial walk: only `Ask` and
`Join` are steps of it.

**The processes.** None of the three promises is inductive alone. `NoOrphanIsArmed` is what the death of
PEREDUR needs: a child looks whether its parent lives after it has armed its death signal, so
no child past that look is left to exec. `CallsArePlaced` is what the kills need: how far a call
has come says what its child may be, and a call marked as timed out has its tool and
helper dead from that moment on. Calls share nothing but the mutex and the pipe ends they
inherit, so the proof treats one call at a time (`OwnStays`, `OthersStay`, `SharedStays`).

**The checker.** `AnswersAreTrue` and `WitnessesProve` are not inductive: an answer is taken
from the tables, so they must hold right entries only, and an entry is added from what a
call has in hand, so that must be right at each place of the call. `CachesAreSound` says all
three. The mathematics is in a few lemmas: a query with stronger assumptions and
weaker guarantees is realizable if the other is (`InclusionTransfers`, `RulesTransfer`,
`SubsumptionIsTrue`), a scope that plays one word is a question of satisfiability
(`OneWordIsSatisfiability`), and a stored controller that, under the assumptions asked about, plays no word that
breaks a guarantee realizes the query (`ProductIsOfItsAssumptions`, `MetIsRealized`).

**The output directory.** `DirectoryIsReadable` holds what a campaign relies on
(`IndexIsAPrefix`, `RowsStandAlone`, `ListingNamesWholeFiles`, `NoFoundRepairIsLost`,
`ManifestComesLast`), none
of it inductive, and what it rests on: where the writer is (`WriterIsPlaced`), that this run's
files, index rows and repairs are numbered without a gap (`FilesAreNumbered`, `RowsAreNumbered`,
`RepairsAreNumbered`), that every entry of the stream was offered with its file
(`EntriesAreOffered`), that whatever was offered is implied by something still held
(`OfferedIsCovered`), and that the final answer is the climbed antichain of that
(`OutputIsTheAnswer`). The index and the listing follow from the
numbering (`IndexIs`), `NoFoundRepairIsLost` from `OfferedIsCovered` along the preorder
(`NothingIsLost`), `ManifestComesLast` from `RepairsAreNumbered`.
How much is promised depends on what the code looks at. Of an accumulated file it looks at the open,
the write and the close, and a row or a listed name is there for a whole file only; an append that
fails leaves any part of its lines, and `RowsStandAlone` says that a torn line spoils at most a later
header. Of a repair and of `run.json` it looks at the open alone, so either may be left empty or
cut short without the run noticing (the faults `text` and `manifest`), and a kill may come between the
open and the text. `run.json` is therefore a witness that each repair of the run was opened for its
document and sent its text, and that these are whole where the disk refuses none;
that it is whole itself is a separate fact (`manifest.whole`), on which its count rests. A run into a used directory is in it: an older run's files are
told apart by the run that wrote them, and its leftover repairs are counted, as the code does.
`WholeFilesAlwaysSurvive` is the action property `AccumulatedFilesSurvive`.

**The sort.** `FrontsAreExact` is inductive with what it says on the way: the flags are those of the
pairs settled so far (`FlagsFollowThePairs`), a placed candidate is above its dominators and right
above one of them (`RanksFollowTheOrder`), and an anchor is an end of a front measured
(`AnchorsFollowTheFronts`). That a pair with one flagged side need not be asked again is `SettledIs`; it uses that nothing is proved stronger than itself or both
ways round, and not that rules are transitive. That the peeling places everyone (`EveryOneIsPlaced`)
rests on dominance being a strict order of a finite set: among those not yet placed, one with
the fewest dominators has none left.

**The scoring.** A part that lands knows its candidate and nothing of the others, so the invariant
counts: what a candidate has outstanding is what is running for it (`PartsAreFiled`), what it has
filed is what was asked, and a slot is answered exactly when its specification is
(`SlotsAreSettled`). `ResultIsSerial` follows once no part is running, since each slot is then
scored or dropped (`EverySlotIsSettled`). The result is stated by the slots its entries come from,
in increasing order, so that no recursion stands between it and the proof (`InOrderIs`).

**The apportionment.** Over a common denominator the quotas are integers divided by an integer: each
is a whole share and a remainder (`QuotasAre`), and the remainders sum to the left-over slots
times the total weight, so fewer slots are left than there are survivors (`FewAreLeft`), and those who get one
more are the first by a strict order of finitely many (`PlacesAre`, `ToppedUpAre`). A survivor topped
up has a remainder, which keeps it within its quota; a better place has no smaller quota, and of
equal shares no smaller remainder unless it is also ahead (`CopiesAre`). The sums are recursive functions of
an index; what they compute is proved by the least index at which it would fail (`UpTo`,
`ThroughIs`). `ReplicateIs` turns shares into slots: each slot lies in one survivor's span.

**The search loop.** The four properties speak of the head of the loop, of a selection or of the
end; what makes them true happens stages earlier. `GenerationInv` carries it from stage to stage: the
sorted parents are the population, under the average with the best first
(`ParentsAreThePopulation`); what a stage works on fits the sizes of the generation, and is empty only
for a reason (`CandidatesFit`); once the elites are restored the best parent is among the
candidates, and as its score is stored it cannot fail to be scored (`BestIsKept`, with
`PopulationIsThere`: all members of the population have stored scores); what was found is
accumulated (`FoundIsAccumulated`); and the loop's end still has its reason (`EndIsExplained`: a
budget once spent stays spent, `BudgetGrows`). For NSGA-II, `SelectedIs` says which of the pool survive: when the first front fits, all of it, as a
candidate of another front has someone of an earlier one above it. `Ranked` takes the front from the
longest chain, so `SomeUndominated` and `RankedIs` need only that dominance is a strict order.

Everything else is model-checked only: liveness under fairness and whatever depends on
`ENABLED`, which TLAPS does not treat (calls return, regions and walks end, the destructor
returns, the accumulator never stops the run); the pure algorithms over recursive data
(`formulas`, `checkers`' `StatusIsGraded`, `search`'s breeding and climb over the moves of
`OrderMoves`), whose induction it cannot do with the installed provers; and
`SatisfiabilityChecker`'s safety invariants, which rest on the rewrites of formulas.

## 5. External code

The solvers, the operating system's processes and pipes, and the standard library's
mutexes and condition variables are modelled as `src/` uses them. A condition variable may
wake spuriously. SPOT and black may be undecided, and black may be wrong about weak operators
and SPOT about satisfiability where the comments in `src/runner/black.cpp` say so.

## 6. What the models leave out

* Data races are absent from the models because the code uses atomics, mutexes and
  moved-in values; memory orders weaker than sequential consistency are not modelled.
* Counters for profiling, progress wording, and the characters of formulas (`Formulas`
  begins and ends at tokens).
* The random generator and its weights: a draw is a free choice.
* `ThreadPool`: how many workers there are (cgroups, affinity). `ProcessExec`: the macOS
  reaper and `posix_spawn`, and the formaliser's long-lived child. `Nsga2Sort`: interior
  crowding distances, of which only the extremes bind. `Generation`: `maximality_demotion`, which is off
  unless configured and which `Nsga2Sort` has. `Apportionment`: the doubles of
  `replicate_to_size`, in place of which quotas are exact; scores of `Similarity` and `Status` are exact fractions. `Counting`:
  logarithms, of whose ratio only none, some or all is told apart, and `ltl2tgba` and
  `ganak`, which are external. `ScorePopulation`: the serial path. `RealizabilityChecker`: calls
  made for TLSF, and the automata caches of the same file. `Status`: how TLSF grades,
  whose parts are in `Tlsf`, and an oracle that throws, which `ScorePopulation` has.
* `Mutation` and `Breeding` draw free formulas from a small vocabulary; `FormulaMoves` has
  how a formula is rewritten, and the two are not composed in one behaviour.

## 7. Findings and divergences

Five runs end in a violation, each of a sentence of the repository:

**`demoted_front`** (`src/genetic/nsga2.cpp:102`). `nsga2_sort` moves each demoted candidate one
front down and hands the ranks to `crowding_distances`, which reads the first and last
member of every front. A front all of whose members were demoted, into which none moved,
is empty, and reading its ends is undefined behaviour. Two realizable candidates, one
dominated and proved strictly weaker, reach it.

**`zero_tick`** (`src/genetic/crossover.cpp:147`). A graft of two timings takes the kind of one
parent and the count of the other. An `after 0` is legal, a `within 0` is what
`src/requirement.cpp` asserts away.

**`slot_shift`** (`src/genetic/mutation.cpp:917`). A removed guarantee keeps its slot so that later
ones pair with the original's; the constructor of a specification drops one of two equal
requirements, tombstones included, and all slots behind move up.

**`initial_join`** (`src/tlsf/crossover.cpp:129`). A crossover joins two propositional initial
conditions under `U` or `W`, and the result is temporal, which `include/tlsf/crossover.hpp:21`
says an initial condition is not.

**`strict_parts`** (`src/tlsf/guarantee_parts.cpp:87`). The subsets of a strict specification that
the status walk asks about are of the standard semantics: `m_semantics` is not copied.

The following were met while modelling. Each is a hazard with a note, or is excluded by
an assumption or an antecedent a module names; none has a run of its own.

Threads, processes and files:

* `src/filter/antichain.hpp:110`, `:128`. A query that times out reads as "does not imply", one
  direction at a time. Three concurrent checks over three equivalent specifications may
  then flag all three, and the class has no representative left.
* `src/filter/streaming_maximal.hpp:86` says an abandoned filter stops; at `:185` a batch already
  taken is still listed.
* `include/runner/process.hpp:46` says a cancelled call ends; after end of file, a call with no
  deadline blocks in `wait4` (`src/runner/process.cpp:905`) whatever the flag says.
* `src/fitness/status.cpp:103`: a `submit` that throws in `refresh` unwinds past the query's own
  node, whose task may still run. `LookaheadIsSound` leaves that fault out.
* `src/repair/manifest.cpp:87` counts the repair files of the directory, those an earlier run left
  included; `docs/building.md:125` gives the count as this run's.
* `src/repair/evolution.cpp:119`, `src/repair/manifest.cpp:489` and `src/tlsf/repair_output.cpp` look at
  a stream before writing and not after, so that a full disk leaves half a repair, counted, beside a
  `run.json`, or half of that, and the run exits as a success. `RunOutput` has both outcomes;
  `ManifestComesLast` and `NoFoundRepairIsLost` claim whole files only where no text is refused.
* `src/config/keys.hpp:97` "a killed run leaves no run.json" (`include/config.hpp:75`,
  `docs/dev/algorithm.md:39` alike): one killed behind `src/repair/manifest.cpp:483` leaves it empty or in
  part, and one killed in a used directory leaves the earlier run's.
* `src/runner/black.cpp:354` may solve in full what `black.hpp:48` describes as a probe.
* `include/runner/spot.hpp` describes the memo as keyed by the formula verbatim; it is keyed by
  a canonical one.

The search loop:

* `include/genetic/pipeline.hpp:353`: a deadline that passes between the loop's head and the first
  slot leaves, without elites, nothing to pad from, which the assertion at `:777` forbids.
  `PadHasSomething` states that exact exception.
* `src/repair/manifest.cpp:369` asks the clock what ended the run after it ended; a deadline that passes
  while the output is screened is reported. `StoppedByIsTruthful` states the exception.
* `src/genetic/generation_loop.hpp:41`: selection and elitism rates that differ may truncate to
  the same number of parents, and then no generation breeds.
* `correctness_rescue` may re-admit a candidate that was dropped for its parent's verdict.

The status:

* `include/fitness/status.hpp` says of the AuRUS ladder "There is no per-component tier here,
  deliberately"; the parts of `src/fitness/factory.hpp:62` apply that tier under either grading,
  so that a candidate scored in parts drops to the floor where the serial score would
  grade it. `SplitIsSerial` is stated for the MRS grading.
* `src/fitness/status.cpp:651` "a timed-out query must not buy a candidate a point": a part refused
  for a timeout may let in others it conflicts with, two for one.
  `TimeoutsBuyNothing` states it where no step of the walk is undecided, and for the top
  tier, whatever step is.
* `include/fitness/status.hpp` says folding well-separation in "costs an ill-separated
  candidate the part that made it so"; the query is about the assumptions alone, so every part
  is refused. `k_status_realizable` "is also well-separated", but no guarantees
  at all score it unasked.
* `specification_status_components` screens a requirement whose response cannot be met, though
  one under an `only` scope, or that a boundary discharges, can be met.
* `src/filter/well_separation.cpp:85` "an assumption over inputs alone is well-separated by
  construction" fails for one that cannot be met.

The operators:

* `src/genetic/monotone.cpp:64` has a comment `G φ → G F φ` where the code makes `G G φ`.
* `src/genetic/mutation.cpp:949` never removes the last live guarantee; the meet of parents with
  different single live guarantees leaves none.
* `furthest_accepted` may skip or stop at an entry of a chain that would merge two slots;
  the second part of `ClimbIsSound` is stated where none does.
* `include/genetic/order_moves.hpp` "Some field always is" proved, which is not so of a slot none of whose
  field steps is.
* The `relink` of a crossover assigns slots without the constructor that drops equal ones, and
  simplification is not idempotent (`true U F p` becomes `F F p`).
* `src/tlsf/mutation.cpp:411` and `docs/dev/operators.md:84` exclude assumptions that `tlsf_add_assumption`
  may add, such as `G (l -> F l)`.
* Atoms named `G`, `F` or `X` are read back as operators.

Scores and scopes:

* `after 0` implies `next` in the order of `src/requirement.cpp` (`docs/dev/operators.md:106`), and the
  down-set that `src/fitness/syntactic_similarity.cpp:109` measures for `after 0`, "measure of the downward
  closure", lacks it. `ScoresAreOverlaps` compares the measure with the order for every timing but
  that one (`Unmeasured`).
* Two slots that are both removed but differ score 0 in the semantic objective and 1 in the
  syntactic one.
* The region of an `after` scope begins where its mode last holds; FRET's begins at the end of the
  mode's first interval.

## 8. Plan

Done: the shared state first (pool, dispatch, filters, lookahead, processes, output,
checkers, search, selection and scoring, lowering and rules), then the pure components they
rest on (order moves, mutation, crossover, breeding and the climb, formulas and keys,
fingerprints, counting, similarity, TLSF) and the status around its walk.

Left to model, each in a module that is there:

1. The automata caches of `src/runner/spot.cpp`, beside `RealizabilityChecker`'s memo.
2. `ProcessExec`: `posix_spawn` and the reaper on macOS; the formaliser's long-lived child.
3. `Status` for TLSF, over `Tlsf`'s parts; `Mutation` with `FormulaMoves` in one behaviour of
   `Breeding`.
4. `ScorePopulation`: the serial path, with two threads on it.

To prove next: `SatisfiabilityChecker`'s `AnswersAreTrue` and `ToolsAreBounded`, with what they need of
a rewrite as an assumption that `formulas` checks; and of `Status`, `GateAdmitsRepairs`, which is a
theorem for every set of words and strategies once the fold of `KeptBy` is a recursive function.

Not modelled, and not planned:

* Configuration and serialisation: text in, record out.
* The command line, reports, profile counters and the status line: no effect on the search.
* The drivers `mucs`, `maximal`, `compare`, `realize`: command-line tools over checkers and filters
  that are modelled; the extraction of a core is in `Tlsf`.
* Benchmarks, fuzzers, and the campaign scripts, which run the program from outside.
* The crash handler: a signal handler's constraints are below what a specification of
  steps sees.
* The Lean proofs, a second account of the lowering and the orders of which `FretSemantics`
  is independent.
