------------------------- MODULE MCImplicationFilter -------------------------
\* Small instances of both implication filters for TLC: three specifications,
\* and every preorder on them, up to renaming for the streaming one, as the
\* implication relation. (Renaming is sound there: the search pushes in every
\* order, and Rank is only ever compared inside a class of equivalent
\* specifications.) A behaviour is of the batch filter, or, with the phase
\* "none", of the streaming one; the other's variables stay as they begin.
EXTENDS BatchFilter, StreamingMaximal

CONSTANTS s1, s2, s3

streamVars == <<m_queue, coordinator, batch, ownerVars, mergeVars, listVars>>
populationVars == <<pop, representatives, phase, result>>

MCSpecs == {s1, s2, s3}
MCRank == s1 :> 1 @@ s2 :> 2 @@ s3 :> 3
MCWorld == {T \in SUBSET (MCSpecs \X MCSpecs) : ImplicationIsPreorder(T)}
Renamed(T, pi) == {<<pi[p[1]], pi[p[2]]>> : p \in T}
OneOfEachShape ==
    {CHOOSE U \in MCWorld : \E pi \in Permutations(MCSpecs) : U = Renamed(T, pi)
        : T \in MCWorld}

FiltersInit ==
    /\ Init
    /\ \/ BatchInit
       \/ /\ implication \in OneOfEachShape
          /\ pop = <<>> /\ representatives = <<>> /\ result = <<>>
          /\ phase = "none"

FiltersNext ==
    \/ BatchNext /\ UNCHANGED streamVars
    \/ phase = "none" /\ Next /\ UNCHANGED populationVars

\* Both filters' specifications, and the streaming one's fairness.
FiltersSpec ==
    /\ FiltersInit
    /\ [][FiltersNext]_<<sweepVars, populationVars, streamVars>>
    /\ WF_vars(Coordinator)
    /\ WF_vars(Joins)
=============================================================================
