------------------------------- MODULE MCSearch -------------------------------
(* Generation, Apportionment, Breeding, Nsga2Sort and ScorePopulation for    *)
(* TLC, one of them in each behaviour; the variables of the others keep     *)
(* their first values. The breeding is MCBreeding's.                         *)
(*                                                                           *)
(* The search: an original, a repair worse on the second objective, one      *)
(* worse on the first, a candidate no filter keeps and one that is too large *)
(* and may fail to score. The sort: every population of a few candidates on  *)
(* a two-level status and a second objective. The apportionment: every       *)
(* ordered list of ranks and every target up to a bound. The scoring: a      *)
(* specification with two objectives of two and one parts, one with a single *)
(* part, and one every objective of which decomposes to nothing.             *)
EXTENDS MCBreeding, Generation, ScorePopulation, Nsga2Sort

CONSTANTS MaxDistinct, MaxRank

VARIABLE part

MCLevels == <<2, 3>>

searchVars == <<part, vars, generationVars, sortVars, placeVars, scoreVars>>

MCSearchable == 1..5
MCStart == 1
MCObjectives == <<<<1, 2>>, <<2, 1>>, <<1, 1>>, <<0, 2>>, <<2, 2>>>>
MCOffspring == <<{2, 3, 4}, {3, 4, 5}, {2, 4}, {5}, {3, 4}>>
MCCorrect == {1, 2, 3, 5}
MCBloated == {5}
MCStronger == {<<3, 1>>, <<4, 1>>}
MCProvedUnrealizable == {1, 4}
MCRealizable == {2, 5}
MCMayFailToScore == {3, 5}

\* NSGA-II without elites, without a budget or with a deadline; the average
\* with one elite and both budgets.
MCSearchSettings ==
    {[elitism |-> 0, generations |-> 2, individuals |-> 0, deadline |-> FALSE,
      nsga2 |-> TRUE],
     [elitism |-> 0, generations |-> 1, individuals |-> 0, deadline |-> TRUE,
      nsga2 |-> TRUE],
     [elitism |-> 34, generations |-> 3, individuals |-> 3, deadline |-> TRUE,
      nsga2 |-> FALSE]}

MCRankLists ==
    {r \in UNION {[1..n -> 0..MaxRank] : n \in 1..MaxDistinct} :
        \A i, j \in DOMAIN r : i < j => r[i] <= r[j]}

MCSpec == 1..3
MCParts == <<<<2, 1>>, <<1>>, <<0>>>>
MCPopulations == {<<1, 2, 1>>, <<2, 1, 3, 2>>, <<1, 1>>, <<2>>, <<>>}

-----------------------------------------------------------------------------
NoSort ==
    /\ sort_stage = "demote"
    /\ objectives = [i \in 1..Count |-> [obj \in DOMAIN Levels |-> 0]]
    /\ proved = {} /\ pairs = {} /\ demoted = {}
    /\ domination_count = [i \in 1..Count |-> 0]
    /\ ranks = [i \in 1..Count |-> 0]
    /\ current_front = {} /\ to_crowd = {} /\ anchored = {}

SearchInit ==
    /\ part \in {"generation", "breeding", "sort", "apportion", "score"}
    /\ Init
    /\ part # "breeding" => setting = Grafting /\ \A i \in 1..2 : ~population[i].proved
    /\ GenerationInit
    /\ part # "generation" => search_setting.generations = 1
    /\ IF part = "sort" THEN SortInit ELSE NoSort
    /\ IF part = "apportion"
         THEN ApportionInit ELSE places = <<>> /\ target_size = 0 /\ replicated = <<>>
    /\ ScoreInit

Searching ==
    /\ part = "generation" /\ GenerationNext
    /\ UNCHANGED <<part, vars, sortVars, placeVars, scoreVars>>

Breed ==
    /\ part = "breeding" /\ Next
    /\ UNCHANGED <<part, generationVars, sortVars, placeVars, scoreVars>>

Sort ==
    /\ part = "sort" /\ SortNext
    /\ UNCHANGED <<part, vars, generationVars, placeVars, scoreVars>>

Apportion ==
    /\ part = "apportion" /\ Replicate
    /\ UNCHANGED <<part, vars, generationVars, sortVars, scoreVars>>

ScoreOnce ==
    /\ part = "score" /\ ScoreNext
    /\ UNCHANGED <<part, vars, generationVars, sortVars, placeVars>>

SearchNext == Searching \/ Breed \/ Sort \/ Apportion \/ ScoreOnce

SearchSpec == SearchInit /\ [][SearchNext]_searchVars
=============================================================================
