---------------------------- MODULE Apportionment ----------------------------
(***************************************************************************)
(* replicate_to_size of src/include/genetic/pipeline.hpp: the slots of the *)
(* next population handed out over distinct, ordered survivors, in         *)
(* proportion to 1 / (1 + rank) and by largest remainder, each survivor    *)
(* keeping one. The code computes in doubles; here the weights are put     *)
(* over a common denominator, so quotas and remainders are exact.          *)
(*                                                                         *)
(* A behaviour is one call: the ranks of the survivors, best first, and    *)
(* the target are any; a survivor is its place.                            *)
(***************************************************************************)
EXTENDS Integers, Sequences, FiniteSets

CONSTANTS
    RankLists,      \* the ordered ranks survivors may have
    MaxTarget       \* bound on the target

ASSUME ApportionAssumption ==
    /\ RankLists \subseteq Seq(Nat)
    /\ \A ranks \in RankLists :
         /\ ranks # <<>>
         /\ \A i, j \in DOMAIN ranks : i < j => ranks[i] <= ranks[j]
    /\ MaxTarget \in Nat

VARIABLES
    places,         \* the ranks of the survivors
    target_size,
    replicated      \* the slots, each with the place of the survivor it holds

placeVars == <<places, target_size, replicated>>

-----------------------------------------------------------------------------
\* The sum of the first i entries, and of all.
Through(shares) ==
    LET through[i \in 0..Len(shares)] == IF i = 0 THEN 0 ELSE through[i - 1] + shares[i]
    IN  through

Total(shares) == Through(shares)[Len(shares)]

\* The product of every 1 + rank.
Common(ranks) ==
    LET common[i \in 0..Len(ranks)] == IF i = 0 THEN 1 ELSE common[i - 1] * (1 + ranks[i])
    IN  common[Len(ranks)]

\* The weights 1 / (1 + rank), over the common denominator.
Weights(ranks) == [i \in DOMAIN ranks |-> Common(ranks) \div (1 + ranks[i])]

\* Mutants of WholeShares: quotas taken of the whole target; and rounded up.
WholeOfTarget(spare, weights) ==
    [i \in DOMAIN weights |-> ((spare + Len(weights)) * weights[i]) \div Total(weights)]
WholeRoundedUp(spare, weights) ==
    [i \in DOMAIN weights |-> (spare * weights[i] + Total(weights) - 1) \div Total(weights)]

\* The whole part of each quota, and what is left of it.
WholeShares(spare, weights) ==
    [i \in DOMAIN weights |-> (spare * weights[i]) \div Total(weights)]
Remainders(spare, weights) ==
    [i \in DOMAIN weights |-> (spare * weights[i]) % Total(weights)]

\* Mutant of Ahead: ties go to the worse-ranked.
AheadBackwards(remainders, j, i) ==
    remainders[j] > remainders[i] \/ (remainders[j] = remainders[i] /\ j > i)

\* j comes before i in the stable order by descending remainder.
Ahead(remainders, j, i) ==
    remainders[j] > remainders[i] \/ (remainders[j] = remainders[i] /\ j < i)

\* One slot more for the first in that order until none is left; fewer are
\* left than there are survivors.
ToppedUp(spare, weights) ==
    LET left == spare - Total(WholeShares(spare, weights))
        remainders == Remainders(spare, weights)
    IN  {i \in DOMAIN weights :
            Cardinality({j \in DOMAIN weights : Ahead(remainders, j, i)}) < left}

\* How many slots each survivor gets.
Copies(ranks, target) ==
    LET spare == target - Len(ranks)
        weights == Weights(ranks)
    IN  [i \in DOMAIN ranks |->
            1 + WholeShares(spare, weights)[i]
              + (IF i \in ToppedUp(spare, weights) THEN 1 ELSE 0)]

\* The copies, each survivor's together.
replicate_to_size(distinct, ranks, target) ==
    LET copies == Copies(ranks, target)
        through == Through(copies)
        Holder(k) == CHOOSE i \in DOMAIN distinct : through[i - 1] < k /\ k <= through[i]
    IN  [k \in 1..Total(copies) |-> distinct[Holder(k)]]

-----------------------------------------------------------------------------
ApportionInit ==
    /\ places \in RankLists
    /\ target_size \in Len(places)..MaxTarget
    /\ replicated = <<>>

Replicate ==
    /\ replicated = <<>>
    /\ replicated' = replicate_to_size([i \in DOMAIN places |-> i], places, target_size)
    /\ UNCHANGED <<places, target_size>>

ApportionSpec == ApportionInit /\ [][Replicate]_placeVars

-----------------------------------------------------------------------------
(* Properties *)

CopiesOf(i) == Cardinality({k \in DOMAIN replicated : replicated[k] = i})

\* "assert(replicated.size() == target_size)", with every survivor keeping at
\* least one slot.
FillsTheTarget ==
    replicated # <<>> =>
        /\ Len(replicated) = target_size
        /\ \A i \in DOMAIN places : CopiesOf(i) >= 1

\* A better-placed survivor never gets fewer slots than a worse-placed one,
\* and the copies come out sorted best-first, as breeding expects.
BestFirst ==
    replicated # <<>> =>
        /\ \A i, j \in DOMAIN places : i < j => CopiesOf(i) >= CopiesOf(j)
        /\ \A k, l \in DOMAIN replicated : k < l => replicated[k] <= replicated[l]

\* Largest remainder keeps quota: beyond its one slot a survivor gets its
\* proportional share of the spare slots rounded down or up, no more.
KeepsQuota ==
    replicated # <<>> =>
        LET spare == target_size - Len(places)
            weights == Weights(places)
        IN  \A i \in DOMAIN places :
                /\ (CopiesOf(i) - 1) * Total(weights) > spare * weights[i] - Total(weights)
                /\ (CopiesOf(i) - 1) * Total(weights) < spare * weights[i] + Total(weights)

\* replicate_to_size is largest remainder with a floor of one.
ApportionsFairly == FillsTheTarget /\ BestFirst /\ KeepsQuota
=============================================================================
