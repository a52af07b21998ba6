------------------------------ MODULE Generation ------------------------------
(***************************************************************************)
(* The genetic search of one run: run_generations of                       *)
(* src/src/genetic/generation_loop.hpp over the pipeline of stages in      *)
(* src/include/genetic/pipeline.hpp, with the run's SearchBudget, its      *)
(* RepairAccumulator, finish_search and the manifest's stop reason.        *)
(*                                                                         *)
(* Specifications are a small set, and what the search asks of one (its    *)
(* objectives, whether it is correct, bloated, gate-passing, what can be   *)
(* bred from it) is fixed; which offspring is bred, which one fails to     *)
(* score, how crowding orders a front, and when the deadline passes, is    *)
(* not. maximality_demotion is off, its default; what it does to the       *)
(* fronts is Nsga2Sort's. Concurrency inside a stage is BoundedAsync's and *)
(* ScorePopulation's.                                                      *)
(***************************************************************************)
EXTENDS Apportionment, FiniteSetsExt

CONSTANTS
    Searchable,          \* the specifications the search can meet
    Start,               \* the one it repairs
    Objectives,          \* each one's objective vector
    Offspring,           \* what a slot can breed from each one
    Correct,             \* those every per-generation correctness filter keeps
    Bloated,             \* those the bloat cap rejects
    Stronger,            \* pairs <<o, p>>: o is classified stronger than p
    ProvedUnrealizable,  \* those with a decided unrealizable verdict
    Realizable,          \* those that pass the output gate
    MayFailToScore,      \* those whose scoring may throw
    SearchFailurePercent, \* max_scoring_failure_rate
    PopulationSize,      \* cfg.population_size
    SelectionPercent,    \* the selection rate, in hundredths
    SearchSettings       \* [elitism, generations, individuals, deadline, nsga2]:
                         \* the elitism rate in hundredths, cfg.generations,
                         \* cfg.max_individuals or 0, whether cfg.max_wall_s is
                         \* set, and the scheme: nsga2-apportion or the average

ASSUME GenerationAssumption ==
    /\ Start \in Searchable
    /\ Offspring \in [Searchable -> (SUBSET Searchable) \ {{}}]
    /\ Objectives \in [Searchable -> Seq(Nat)]
    /\ \A s, t \in Searchable : Len(Objectives[s]) = Len(Objectives[t])
    /\ PopulationSize \in Nat \ {0} /\ SearchFailurePercent \in Nat
    /\ SelectionPercent \in 1..100
    /\ \A s \in SearchSettings :
         /\ s.elitism \in 0..SelectionPercent - 1
         /\ s.generations \in Nat /\ s.individuals \in Nat
         /\ s.deadline \in BOOLEAN /\ s.nsga2 \in BOOLEAN
    /\ Realizable \cap ProvedUnrealizable = {}

VARIABLES
    search_setting,  \* the member of SearchSettings this run has
    stage,
    gen,             \* generations finished
    search_population,   \* the incoming scored population, m_parents
    sorted_parents,
    candidates,
    pre_filter,
    search_scored,   \* what scoring left, before selection
    fitness_cache,   \* the specifications with a stored score
    m_bred,
    past_deadline,
    accumulated,     \* RepairAccumulator::specifications
    output,
    stopped_by,
    ended_by,        \* history: the test that ended the loop
    found            \* history: gate-passing members of every generation

generationVars == <<search_setting, stage, gen, search_population, sorted_parents, candidates,
                    pre_filter, search_scored, fitness_cache, m_bred, past_deadline, accumulated,
                    output, stopped_by, ended_by, found>>

ElitismPercent == search_setting.elitism
Generations == search_setting.generations
MaxIndividuals == search_setting.individuals
HasDeadline == search_setting.deadline
Nsga2 == search_setting.nsga2

-----------------------------------------------------------------------------
(* Sequences *)

Members(seq) == {seq[i] : i \in DOMAIN seq}

NoRepeats(seq) == \A i, j \in DOMAIN seq : seq[i] = seq[j] => i = j

\* The entries of seq that the indices I name, by the order R of indices.
Arranged(seq, I, R) ==
    LET Place(i) == Cardinality({j \in I : <<j, i>> \in R})
    IN  [k \in 1..Cardinality(I) |-> seq[CHOOSE i \in I : Place(i) = k - 1]]

IndexOrder(seq) == {e \in (DOMAIN seq) \X DOMAIN seq : e[1] < e[2]}

\* make_dedup_filter and dedup_by_specification: the first of each.
Dedup(seq) ==
    Arranged(seq, {i \in DOMAIN seq : \A j \in DOMAIN seq : j < i => seq[j] # seq[i]},
             IndexOrder(seq))

Keep(seq, S) == Arranged(seq, {i \in DOMAIN seq : seq[i] \in S}, IndexOrder(seq))

-----------------------------------------------------------------------------
(* The orders *)

\* AggregateWeightedFitnessFunction with equal weights.
Fitness(s) == Total(Objectives[s])

Dominates(s, t) ==
    /\ \A k \in DOMAIN Objectives[s] : Objectives[s][k] >= Objectives[t][k]
    /\ \E k \in DOMAIN Objectives[s] : Objectives[s][k] > Objectives[t][k]

IsChain(C) == \A s, t \in C : s = t \/ Dominates(s, t) \/ Dominates(t, s)

\* The front of each member of S: the length of the longest chain of members
\* above it (RanksAreFronts of Nsga2Sort).
Ranked(S) ==
    [s \in S |->
        LET above == {t \in S : Dominates(t, s)}
        IN  Max({Cardinality(C) : C \in {D \in SUBSET above : IsChain(D)}})]

FitnessOrder(seq) ==
    {e \in (DOMAIN seq) \X DOMAIN seq :
        \/ Fitness(seq[e[1]]) > Fitness(seq[e[2]])
        \/ Fitness(seq[e[1]]) = Fitness(seq[e[2]]) /\ e[1] < e[2]}

\* Descending fitness, equals in the order they were in.
FittestFirst(seq) == Arranged(seq, DOMAIN seq, FitnessOrder(seq))

Reorderings(seq) ==
    {p \in [DOMAIN seq -> DOMAIN seq] : \A j \in DOMAIN seq : \E i \in DOMAIN seq : p[i] = j}

\* nsga2_sort: by front, with crowding free to order the members of one.
FrontOrders(seq) ==
    LET rank == Ranked(Members(seq))
    IN  {o \in {[i \in DOMAIN seq |-> seq[p[i]]] : p \in Reorderings(seq)} :
           \A i, j \in DOMAIN o : i < j => rank[o[i]] <= rank[o[j]]}

\* order_population.
Orders(seq) == IF Nsga2 THEN FrontOrders(seq) ELSE {FittestFirst(seq)}

-----------------------------------------------------------------------------
(* The budget *)

individuals_spent == MaxIndividuals # 0 /\ m_bred >= MaxIndividuals

exhausted == individuals_spent \/ past_deadline

active == MaxIndividuals # 0 \/ HasDeadline

\* Mutant of reason: the deadline is looked at first.
reasonDeadlineFirst(fallback) ==
    IF past_deadline THEN "deadline"
    ELSE IF individuals_spent THEN "individuals" ELSE fallback

reason(fallback) ==
    IF individuals_spent THEN "individuals"
    ELSE IF past_deadline THEN "deadline" ELSE fallback

-----------------------------------------------------------------------------
GenerationInit ==
    /\ search_setting \in SearchSettings
    /\ stage = "head"
    /\ gen = 0
    /\ search_population = [i \in 1..PopulationSize |-> Start]
    /\ fitness_cache = {Start}
    /\ sorted_parents = <<>> /\ candidates = <<>> /\ pre_filter = <<>> /\ search_scored = <<>>
    /\ m_bred = 0
    /\ past_deadline = FALSE
    /\ accumulated = <<>> /\ output = <<>>
    /\ stopped_by = "none" /\ ended_by = "none"
    /\ found = {}

loopVars == <<gen, accumulated, output, stopped_by, ended_by, found>>
breedVars == <<sorted_parents, candidates, pre_filter>>
scoredVars == <<search_population, search_scored, fitness_cache>>
budgetVars == <<search_setting, m_bred, past_deadline>>

Min2(a, b) == IF a < b THEN a ELSE b

\* generation_sizes.
TargetSize == Max({1, (PopulationSize * SelectionPercent) \div 100})
ElitismSize == (PopulationSize * ElitismPercent) \div 100

\* GenerationContext's constructor.
top_n == Min2(TargetSize, Len(search_population))
elite_n == Min2(ElitismSize, top_n)
offspring_n == top_n - elite_n

OutOfGenerations == gen >= Generations

\* The head of run_generations' loop.
LoopHead ==
    /\ stage = "head"
    /\ LET spent == active /\ exhausted
       IN  /\ stage' = IF OutOfGenerations \/ spent THEN "final" ELSE "order"
           /\ ended_by' = IF OutOfGenerations THEN "generations"
                          ELSE IF spent THEN reason("generations") ELSE ended_by
    /\ UNCHANGED <<gen, accumulated, output, stopped_by, found, breedVars, scoredVars, budgetVars>>

\* stage_order_parents, and stage_breed taking the parents over.
OrderParents ==
    /\ stage = "order"
    /\ \E o \in Orders(search_population) : sorted_parents' = o
    /\ candidates' = <<>>
    /\ stage' = "breed"
    /\ UNCHANGED <<loopVars, pre_filter, scoredVars, budgetVars>>

\* Mutant of BreedingStops: the budget is only looked at between generations.
BreedingStopsNever == FALSE

\* breed_offspring's test between two slots.
BreedingStops == active /\ exhausted

Parent == sorted_parents[Len(candidates) + 1]

\* One slot of breed_offspring: a copy of its parent, crossed, mutated and
\* simplified, counted when it differs from the parent under a budget.
BreedSlot ==
    /\ stage = "breed"
    /\ Len(candidates) < offspring_n
    /\ ~BreedingStops
    /\ \E o \in Offspring[Parent] \cup {Parent} :
         /\ candidates' = Append(candidates, o)
         /\ m_bred' = IF active /\ o # Parent THEN m_bred + 1 ELSE m_bred
    /\ UNCHANGED <<stage, loopVars, sorted_parents, pre_filter, scoredVars, search_setting, past_deadline>>

BreedEnds ==
    /\ stage = "breed"
    /\ Len(candidates) = offspring_n \/ BreedingStops
    /\ pre_filter' = candidates
    /\ stage' = "filter"
    /\ UNCHANGED <<loopVars, sorted_parents, candidates, scoredVars, budgetVars>>

\* stage_parent_verdict's rejects: strengthenings of a parent proved
\* unrealizable, matched by value.
Doomed ==
    {pre_filter[k] : k \in
        {k \in DOMAIN pre_filter :
            /\ <<pre_filter[k], sorted_parents[k]>> \in Stronger
            /\ sorted_parents[k] \in ProvedUnrealizable}}

\* The filter chain: deduplication, the parent verdict, the bloat cap and the
\* correctness filters.
Filter ==
    /\ stage = "filter"
    /\ candidates' = Keep(Dedup(candidates), (Correct \ Bloated) \ Doomed)
    /\ stage' = "fallback"
    /\ UNCHANGED <<loopVars, sorted_parents, pre_filter, scoredVars, budgetVars>>

\* Mutant of Rescued: the offspring come back as they were bred.
RescuedUnscreened == pre_filter

\* Mutant of RestoresUnscreened: never.
RestoresUnscreenedNever == FALSE

\* correctness_rescue: the correctness filters alone over what was bred.
Rescued == Keep(pre_filter, Correct)

\* Only a run with no elites restores the offspring unscreened.
RestoresUnscreened == elite_n = 0

\* stage_filter_fallback.
FilterFallback ==
    /\ stage = "fallback"
    /\ candidates' = IF candidates # <<>> THEN candidates
                     ELSE IF Rescued # <<>> THEN Rescued
                     ELSE IF RestoresUnscreened THEN pre_filter ELSE <<>>
    /\ pre_filter' = <<>>
    /\ stage' = "elites"
    /\ UNCHANGED <<loopVars, sorted_parents, scoredVars, budgetVars>>

\* Mutant of Elites: taken before the parents were ordered.
ElitesUnordered == SubSeq(search_population, Len(search_population) - elite_n + 1, Len(search_population))

Elites == SubSeq(sorted_parents, 1, elite_n)

\* stage_restore_elites.
RestoreElites ==
    /\ stage = "elites"
    /\ candidates' = candidates \o Elites
    /\ stage' = "pad"
    /\ UNCHANGED <<loopVars, sorted_parents, pre_filter, scoredVars, budgetVars>>

\* stage_pad and pad_to_size: the survivors cycled up to the target. With none
\* the assertion fails, or the index is taken modulo zero.
Pad ==
    /\ stage = "pad"
    /\ IF candidates = <<>>
         THEN stage' = "crashed" /\ UNCHANGED candidates
         ELSE /\ stage' = "score"
              /\ candidates' =
                   [i \in 1..Max({Len(candidates), TargetSize}) |->
                      candidates[((i - 1) % Len(candidates)) + 1]]
    /\ UNCHANGED <<loopVars, sorted_parents, pre_filter, scoredVars, budgetVars>>

\* score_population's tolerance.
Tolerated(n) == Min2(n - 1, Max({1, (SearchFailurePercent * n) \div 100}))

\* stage_score: what fails is dropped from every slot it has, and too many
\* failures end the run. A stored score never fails.
Score ==
    /\ stage = "score"
    /\ \E failed \in SUBSET ((Members(candidates) \cap MayFailToScore) \ fitness_cache) :
         LET ok == Keep(candidates, Searchable \ failed)
         IN  /\ fitness_cache' = fitness_cache \cup Members(ok)
             /\ IF Len(candidates) - Len(ok) > Tolerated(Len(candidates))
                  THEN stage' = "threw" /\ search_scored' = <<>>
                  ELSE stage' = "select" /\ search_scored' = ok
    /\ candidates' = <<>>
    /\ UNCHANGED <<loopVars, sorted_parents, pre_filter, search_population, budgetVars>>

\* Mutant of Pool: the offspring alone.
PoolOfOffspring == Dedup(search_scored)

\* The (mu + lambda) pool.
Pool == Dedup(search_population \o search_scored)

\* Mutant of Selected: a small pool is left small.
SurvivorsOnly(o) == SubSeq(o, 1, Min2(Len(o), TargetSize))

Selected(o) ==
    LET rank == Ranked(Members(o))
    IN  IF Len(o) >= TargetSize THEN SubSeq(o, 1, TargetSize)
        ELSE replicate_to_size(o, [i \in DOMAIN o |-> rank[o[i]]], TargetSize)

\* stage_select: the pool's best target_size, or all of it replicated up to
\* the target; the weighted average only sorts.
Select ==
    /\ stage = "select"
    /\ IF Nsga2
         THEN \E o \in Orders(Pool) : search_population' = Selected(o)
         ELSE \E o \in Orders(search_scored) : search_population' = o
    /\ search_scored' = <<>>
    /\ stage' = "accumulate"
    /\ UNCHANGED <<loopVars, breedVars, fitness_cache, budgetVars>>

NextGeneration == gen + 1

\* accumulate_gate_passing and RepairAccumulator::insert, and the generation
\* counted.
Accumulate ==
    /\ stage = "accumulate"
    /\ accumulated' = Dedup(accumulated \o Keep(search_population, Realizable))
    /\ found' = found \cup (Members(search_population) \cap Realizable)
    /\ gen' = NextGeneration
    /\ stage' = "head"
    /\ UNCHANGED <<output, stopped_by, ended_by, breedVars, scoredVars, budgetVars>>

\* Mutant of Merged: the last population alone is reported.
MergedNot(realizable) == realizable

\* merge_accumulated.
Merged(realizable) == Dedup(realizable \o accumulated)

\* finish_search with the implication filter off: the last population is
\* gated and the accumulated candidates are merged in.
FinishSearch ==
    /\ stage = "final"
    /\ output' = Merged(Dedup(Keep(search_population, Realizable)))
    /\ stage' = "report"
    /\ UNCHANGED <<gen, accumulated, stopped_by, ended_by, found, breedVars, scoredVars, budgetVars>>

\* end_run: the manifest asks the budget what ended the run.
WriteManifest ==
    /\ stage = "report"
    /\ stopped_by' = reason("generations")
    /\ stage' = "ended"
    /\ UNCHANGED <<gen, accumulated, output, ended_by, found, breedVars, scoredVars, budgetVars>>

Over == {"ended", "threw", "crashed"}

DeadlinePasses ==
    /\ HasDeadline
    /\ ~past_deadline
    /\ stage \notin Over
    /\ past_deadline' = TRUE
    /\ UNCHANGED <<search_setting, stage, loopVars, breedVars, scoredVars, m_bred>>

RunStep ==
    \/ LoopHead \/ OrderParents \/ BreedSlot \/ BreedEnds \/ Filter \/ FilterFallback
    \/ RestoreElites \/ Pad \/ Score \/ Select \/ Accumulate \/ FinishSearch
    \/ WriteManifest

GenerationNext == RunStep \/ DeadlinePasses

GenerationSpec == GenerationInit /\ [][GenerationNext]_generationVars

-----------------------------------------------------------------------------
(* Properties *)

Populations == {search_population, sorted_parents, candidates, pre_filter, search_scored, accumulated, output}

GenerationTypeOK ==
    /\ search_setting \in SearchSettings
    /\ gen \in 0..Generations
    /\ \A s \in Populations : s \in Seq(Searchable)
    /\ fitness_cache \subseteq Searchable
    /\ m_bred \in Nat
    /\ past_deadline \in BOOLEAN
    /\ found \subseteq Searchable

\* "assert(!ctx.m_candidates.empty())": whatever the filters drop, there is
\* something to pad the next population from, but for one way: without elites,
\* a budget spent between the loop head and the first slot.
PadHasSomething == stage = "crashed" => elite_n = 0 /\ active /\ exhausted

\* Every population a generation starts from has a member, none larger than
\* the target but the first, and every member a stored score; under NSGA-II
\* the target is met exactly.
PopulationIsScoredAndSized ==
    /\ stage = "head" =>
         /\ Len(search_population) >= 1
         /\ Members(search_population) \subseteq fitness_cache
         /\ gen > 0 => Len(search_population) <= TargetSize
         /\ gen > 0 /\ Nsga2 => Len(search_population) = TargetSize

\* "What comes back is screened": the fallback re-admits an incorrect
\* candidate only when there are no elites and no correct one was bred.
FallbackIsScreened ==
    [][stage = "fallback" /\ stage' = "elites" =>
         \A s \in Members(candidates') :
            \/ s \in Correct
            \/ elite_n = 0 /\ Members(pre_filter) \cap Correct = {}]_generationVars

\* With an elite the best weighted fitness of the population never falls from
\* one generation to the next under the average: an elite is neither filtered
\* nor able to fail to score.
BestNeverFalls ==
    [][stage = "select" /\ ~Nsga2 /\ elite_n > 0 =>
         \E s \in Members(search_population') :
            \A t \in Members(search_population) : Fitness(s) >= Fitness(t)]_generationVars

\* "No non-dominated candidate is ever lost", as far as the first front fits
\* the target: every parent then survives or is dominated by a survivor.
NonDominatedAreKept ==
    [][stage = "select" /\ Nsga2 =>
         LET pool == Members(search_population) \cup Members(search_scored)
             first == {s \in pool : \A t \in pool : ~Dominates(t, s)}
         IN  Cardinality(first) <= TargetSize =>
               \A s \in Members(search_population) :
                  \E t \in Members(search_population') : t = s \/ Dominates(t, s)]_generationVars

\* Every specification that passed the gate in any generation is reported,
\* once, also when a later generation dropped it or the budget ended the run.
NothingFoundIsLost ==
    stage \in {"report", "ended"} =>
        /\ found \subseteq Members(output)
        /\ Members(output) \subseteq Realizable
        /\ NoRepeats(output)

\* Breeding stops with the budget, inside a generation too: an offspring is
\* only bred while neither the individuals nor the time are spent.
NoBreedingPastTheBudget ==
    [][Len(candidates') > Len(candidates) /\ stage = "breed" =>
         ~(active /\ exhausted)]_generationVars

\* "What ended a run, ... so a survival analysis can tell a completed run from
\* a censored one": the manifest names the test that ended the loop, unless
\* the budget ran out in the last generation or while the output was screened.
StoppedByIsTruthful ==
    stage = "ended" /\ stopped_by # ended_by =>
        ended_by = "generations" /\ exhausted

\* What the next generation starts from: screened, scored, of the right size,
\* and never nothing.
PopulationIsScreened ==
    /\ [](GenerationTypeOK /\ PadHasSomething /\ PopulationIsScoredAndSized)
    /\ FallbackIsScreened

\* Selection never loses the best, in the sense of either mode.
SelectionKeepsTheBest == BestNeverFalls /\ NonDominatedAreKept

\* A run breeds nothing past its budget and says what ended it.
BudgetIsKept == NoBreedingPastTheBudget /\ []StoppedByIsTruthful
=============================================================================
