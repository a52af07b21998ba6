------------------------------- MODULE Nsga2Sort -------------------------------
(***************************************************************************)
(* nsga2_sort of src/include/genetic/nsga2.hpp with the demotion flags of  *)
(* src/src/genetic/demotion.cpp: flag the realizable candidates proved     *)
(* strictly weaker than another realizable one, rank the population into   *)
(* non-domination fronts, move the flagged one front down, and measure     *)
(* crowding within each front.                                             *)
(*                                                                         *)
(* Objective values are small naturals, the first of them the status.      *)
(* Which requirement implications the rules can prove is an arbitrary      *)
(* relation chosen at the start: the rules are neither complete nor        *)
(* transitive. Interior crowding distances are left out.                   *)
(***************************************************************************)
EXTENDS Integers, Sequences, FiniteSets, FiniteSetsExt

CONSTANTS
    Count,               \* the population's size
    Levels,              \* each objective's number of levels, 0 the worst
    MaximalityDemotion   \* the configuration key

ASSUME SortAssumption ==
    /\ Count \in Nat \ {0}
    /\ Levels \in Seq(Nat \ {0})
    /\ MaximalityDemotion \in BOOLEAN

VARIABLES
    sort_stage,
    objectives,        \* one vector per candidate
    proved,            \* the implications the rules prove, stronger first
    pairs,             \* unordered pairs of realizable candidates to settle
    demoted,
    domination_count,  \* dominators not yet placed in a front
    ranks,
    current_front,
    to_crowd,          \* fronts and objectives still to be measured
    anchored           \* candidates whose crowding distance is infinite

sortVars == <<sort_stage, objectives, proved, pairs, demoted, domination_count, ranks,
          current_front, to_crowd, anchored>>

-----------------------------------------------------------------------------
Candidate == 1..Count
Objective == DOMAIN Levels
status == 1

dominates(i, j) ==
    /\ \A obj \in Objective : objectives[i][obj] >= objectives[j][obj]
    /\ \E obj \in Objective : objectives[i][obj] > objectives[j][obj]

Dominators(i) == {j \in Candidate : dominates(j, i)}

StatusRealizable(i) == objectives[i][status] = Levels[status] - 1

implies(i, j) == <<i, j>> \in proved

proved_stronger(i, j) == implies(i, j) /\ ~implies(j, i)

\* The pairs proved_weaker_realizable goes through.
MemberPairs ==
    {p \in Candidate \X Candidate :
        p[1] < p[2] /\ StatusRealizable(p[1]) /\ StatusRealizable(p[2])}

Vectors ==
    {v \in [Objective -> 0..Max({Levels[o] : o \in Objective})] :
        \A obj \in Objective : v[obj] < Levels[obj]}

SortInit ==
    /\ sort_stage = "demote"
    /\ objectives \in [Candidate -> Vectors]
    /\ proved \in SUBSET {p \in Candidate \X Candidate : p[1] # p[2]}
    /\ \A p \in proved : StatusRealizable(p[1]) /\ StatusRealizable(p[2])
    /\ pairs = IF MaximalityDemotion THEN MemberPairs ELSE {}
    /\ demoted = {}
    /\ domination_count = [i \in Candidate |-> 0]
    /\ ranks = [i \in Candidate |-> 0]
    /\ current_front = {}
    /\ to_crowd = {}
    /\ anchored = {}

\* Mutant of Settled: a pair with a side already demoted is passed over.
SettledUnlessDone(i, j) ==
    IF i \in demoted \/ j \in demoted THEN {}
    ELSE {k \in {i, j} : \E l \in {i, j} : proved_stronger(l, k)}

\* settle_pair: whichever of two is strictly weaker. A set flag stays set, and
\* with one side flagged only the other direction is asked.
Settled(i, j) ==
    CASE i \in demoted /\ j \in demoted -> {}
      [] i \in demoted /\ j \notin demoted -> {k \in {j} : proved_stronger(i, k)}
      [] i \notin demoted /\ j \in demoted -> {k \in {i} : proved_stronger(j, k)}
      [] OTHER -> IF implies(i, j) = implies(j, i) THEN {}
                  ELSE {IF implies(i, j) THEN j ELSE i}

\* proved_weaker_realizable takes the pairs in index order.
SettlePair ==
    /\ sort_stage = "demote"
    /\ \E p \in pairs :
         /\ \A q \in pairs : p[1] < q[1] \/ (p[1] = q[1] /\ p[2] <= q[2])
         /\ pairs' = pairs \ {p}
         /\ demoted' = demoted \cup Settled(p[1], p[2])
    /\ UNCHANGED <<sort_stage, objectives, proved, domination_count, ranks, current_front, to_crowd, anchored>>

\* non_domination_ranks counts the dominators and takes front 0.
CountDominators ==
    /\ sort_stage = "demote"
    /\ pairs = {}
    /\ sort_stage' = "peel"
    /\ domination_count' = [i \in Candidate |-> Cardinality(Dominators(i))]
    /\ current_front' = {i \in Candidate : domination_count'[i] = 0}
    /\ UNCHANGED <<objectives, proved, pairs, demoted, ranks, to_crowd, anchored>>

\* Mutant of Released: a front counts once against a candidate.
ReleasedOnce(i) == IF Dominators(i) \cap current_front # {} THEN 1 ELSE 0

\* How many of a candidate's dominators the current front releases it from.
Released(i) == Cardinality(Dominators(i) \cap current_front)

\* The candidates whose last dominator the current front was.
Placed(count) ==
    {i \in Candidate : count[i] = 0 /\ domination_count[i] > 0}

\* One round of the peeling loop: the next front.
Peel ==
    /\ sort_stage = "peel"
    /\ current_front # {}
    /\ domination_count' =
         [i \in Candidate |-> domination_count[i] - Released(i)]
    /\ LET next_front == Placed(domination_count')
           front_index == ranks[CHOOSE i \in current_front : TRUE]
       IN  /\ current_front' = next_front
           /\ ranks' = [i \in Candidate |->
                          IF i \in next_front THEN front_index + 1 ELSE ranks[i]]
    /\ UNCHANGED <<sort_stage, objectives, proved, pairs, demoted, to_crowd, anchored>>

\* The flagged move one front down.
Demote ==
    /\ sort_stage = "peel"
    /\ current_front = {}
    /\ sort_stage' = "crowd"
    /\ ranks' = [i \in Candidate |-> ranks[i] + IF i \in demoted THEN 1 ELSE 0]
    /\ to_crowd' = (0..Max({ranks'[i] : i \in Candidate})) \X Objective
    /\ UNCHANGED <<objectives, proved, pairs, demoted, domination_count, current_front, anchored>>

Front(r) == {i \in Candidate : ranks[i] = r}

Fronts == 0..Max({ranks[i] : i \in Candidate})

Worst(F, obj) == {i \in F : \A j \in F : objectives[i][obj] <= objectives[j][obj]}
Best(F, obj) == {i \in F : \A j \in F : objectives[i][obj] >= objectives[j][obj]}

Flat(F, obj) == \A i, j \in F : objectives[i][obj] = objectives[j][obj]

\* Mutant of Spread: an objective that is constant on a front anchors too.
SpreadAlways(F) == Objective

\* The objectives that tell members of a front apart.
Spread(F) == {obj \in Objective : ~Flat(F, obj)}

\* crowding_distances, one front and objective: the first and the last of the
\* sorted front, ties in an order std::sort is free to choose. The ends of an
\* empty front are an undefined read.
Crowd ==
    /\ sort_stage = "crowd"
    /\ \E r \in Fronts, obj \in Objective :
         /\ <<r, obj>> \in to_crowd
         /\ to_crowd' = to_crowd \ {<<r, obj>>}
         /\ \/ /\ Front(r) # {}
               /\ obj \in Spread(Front(r))
               /\ \E lo \in Worst(Front(r), obj), hi \in Best(Front(r), obj) :
                    anchored' = anchored \cup {lo, hi}
               /\ UNCHANGED sort_stage
            \/ /\ Front(r) # {}
               /\ obj \notin Spread(Front(r))
               /\ UNCHANGED <<sort_stage, anchored>>
            \/ /\ Front(r) = {}
               /\ sort_stage' = "undefined"
               /\ UNCHANGED anchored
    /\ UNCHANGED <<objectives, proved, pairs, demoted, domination_count, ranks, current_front>>

Sorted ==
    /\ sort_stage = "crowd"
    /\ to_crowd = {}
    /\ sort_stage' = "done"
    /\ UNCHANGED <<objectives, proved, pairs, demoted, domination_count, ranks, current_front, to_crowd, anchored>>

SortNext == SettlePair \/ CountDominators \/ Peel \/ Demote \/ Crowd \/ Sorted

SortSpec == SortInit /\ [][SortNext]_sortVars

-----------------------------------------------------------------------------
(* Properties *)

SortTypeOK ==
    /\ sort_stage \in {"demote", "peel", "crowd", "done", "undefined"}
    /\ objectives \in [Candidate -> [Objective -> Nat]]
    /\ pairs \subseteq MemberPairs
    /\ demoted \subseteq {i \in Candidate : StatusRealizable(i)}
    /\ domination_count \in [Candidate -> 0..Count]
    /\ ranks \in [Candidate -> 0..Count]
    /\ current_front \subseteq Candidate
    /\ to_crowd \subseteq Fronts \X Objective
    /\ anchored \subseteq Candidate

\* "The flags depend on the set of elements alone, not their order": a
\* candidate is flagged exactly when it is realizable and some realizable one
\* is proved strictly stronger, though of a pair with one side flagged only the
\* other direction is asked and the rules need not be transitive.
FlagsFollowTheSet ==
    sort_stage # "demote" /\ MaximalityDemotion =>
        demoted = {i \in Candidate : StatusRealizable(i) /\
                     \E j \in Candidate : StatusRealizable(j) /\ proved_stronger(j, i)}

\* On the way there, the flags are those of the pairs settled so far, and
\* nothing is flagged without the key.
FlagsFollowThePairs ==
    /\ demoted = {i \in Candidate : MaximalityDemotion /\
                    \E p \in MemberPairs \ pairs :
                        i \in {p[1], p[2]} /\ \E j \in {p[1], p[2]} : proved_stronger(j, i)}
    /\ pairs # {} => sort_stage = "demote" /\ MaximalityDemotion

\* At every round of the peeling, the count of a candidate not yet placed is
\* the number of its dominators that no finished front holds, and the current
\* front is of one rank that every candidate placed before it is below.
CountsAreRemainingDominators ==
    sort_stage = "peel" =>
        \A i \in Candidate :
            LET done == {j \in Candidate : domination_count[j] = 0} \ current_front
            IN  domination_count[i] = Cardinality(Dominators(i) \ done)

\* Until the demotion, a candidate that is placed has a rank above those of its
\* dominators, all of them placed, and right above one of them; the current
\* front is of one rank, above every front before it; and nothing has a rank
\* above its number of dominators.
RanksFollowTheOrder ==
    /\ sort_stage = "demote" => \A i \in Candidate : ranks[i] = 0
    /\ sort_stage = "peel" =>
         /\ \A i \in current_front : domination_count[i] = 0
         /\ \A i \in Candidate :
              /\ ranks[i] <= Cardinality(Dominators(i))
              /\ domination_count[i] > 0 => ranks[i] = 0
              /\ domination_count[i] = 0 => \A j \in Dominators(i) : ranks[j] < ranks[i]
              /\ ranks[i] > 0 => \E j \in Dominators(i) : ranks[j] = ranks[i] - 1
         /\ \A i \in current_front, j \in Candidate :
              domination_count[j] = 0 =>
                ranks[j] < ranks[i] \/ (j \in current_front /\ ranks[j] = ranks[i])

\* A front holds what only earlier fronts dominate, and every member of it but
\* the first's has a dominator in the front right before it.
RanksAreFronts ==
    sort_stage = "peel" /\ current_front = {} =>
        \A i \in Candidate :
            /\ \A j \in Dominators(i) : ranks[j] < ranks[i]
            /\ ranks[i] > 0 => \E j \in Dominators(i) : ranks[j] = ranks[i] - 1

\* "A zero-range objective distinguishes no members, so it anchors nothing":
\* an infinite distance is only given to an extreme of a spread objective, and
\* each end of every spread objective has one.
AnchorsAreExtremes ==
    sort_stage = "done" =>
        /\ \A i \in anchored :
             LET F == Front(ranks[i])
             IN  \E obj \in Objective :
                     ~Flat(F, obj) /\ i \in Worst(F, obj) \cup Best(F, obj)
        /\ \A r \in Fronts, obj \in Objective :
             ~Flat(Front(r), obj) => ~Flat(anchored \cap Front(r), obj)

\* On the way there, what is anchored is an extreme, and the ends of every
\* spread objective measured so far are.
AnchorsFollowTheFronts ==
    /\ sort_stage \in {"demote", "peel"} => anchored = {} /\ to_crowd = {}
    /\ sort_stage = "done" => to_crowd = {}
    /\ \A i \in anchored :
         \E obj \in Spread(Front(ranks[i])) :
             i \in Worst(Front(ranks[i]), obj) \cup Best(Front(ranks[i]), obj)
    /\ sort_stage \in {"crowd", "done"} =>
         \A r \in Fronts, obj \in Objective :
             \/ <<r, obj>> \in to_crowd
             \/ Flat(Front(r), obj)
             \/ /\ anchored \cap Worst(Front(r), obj) # {}
                /\ anchored \cap Best(Front(r), obj) # {}

\* The demotion flags, peeling, ranks and crowding are those of the population
\* and its dominance order.
FrontsAreExact ==
    /\ SortTypeOK
    /\ FlagsFollowThePairs /\ FlagsFollowTheSet
    /\ CountsAreRemainingDominators /\ RanksFollowTheOrder /\ RanksAreFronts
    /\ AnchorsFollowTheFronts /\ AnchorsAreExtremes

\* crowding_distances takes "Front index per individual, as from
\* non_domination_ranks" and reads the first and last member of every front up
\* to the highest: none of them is empty.
EveryFrontHasAMember == sort_stage = "crowd" => \A r \in Fronts : Front(r) # {}
=============================================================================
