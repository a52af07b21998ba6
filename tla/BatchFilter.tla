----------------------------- MODULE BatchFilter -----------------------------
(***************************************************************************)
(* subsumed_in of src/src/filter/antichain.hpp: the implication filter run *)
(* once over a whole population, on the Foreground queue. Of equal entries *)
(* the first stands for all, the representatives are swept, and every      *)
(* entry is given a flag.                                                  *)
(***************************************************************************)
EXTENDS Sweep

CONSTANT MaxPopulation  \* bound on the population's length

ASSUME BatchAssumption == MaxPopulation \in Nat

VARIABLES
    pop,              \* the population
    representatives,  \* positions of its first copies, in order
    phase,            \* "call", "sweep", "returned" or "threw"
    result            \* the flags handed back

batchVars == <<sweepVars, pop, representatives, phase, result>>

-----------------------------------------------------------------------------
\* Positions of pop that no equal entry precedes.
FirstCopies == {i \in DOMAIN pop : \A j \in 1 .. i - 1 : pop[j] # pop[i]}

\* list enumerates the first copies in population order.
representatives_of(list) ==
    /\ Range(list) = FirstCopies
    /\ \A k, l \in DOMAIN list : k < l => list[k] < list[l]

BatchInit ==
    /\ SweepInit
    /\ pop \in SeqOf(Spec, MaxPopulation)
    /\ representatives = <<>>
    /\ phase = "call"
    /\ result = <<>>

\* printed: the specifications whose fingerprint table was not lost.
Call ==
    /\ phase = "call"
    /\ \E list \in SeqOf(DOMAIN pop, Len(pop)), printed \in SUBSET Range(pop) :
         /\ representatives_of(list)
         /\ representatives' = list
         /\ BeginSweep([k \in DOMAIN list |-> pop[list[k]]], 0, printed)
    /\ phase' = "sweep"
    /\ UNCHANGED <<pop, result>>

CheckPair ==
    /\ phase = "sweep"
    /\ \/ \E p \in unstarted : StartCheck(p)
       \/ \E p \in checking : FinishCheck(p, MayTimeOut) \/ ThrowCheck(p)
    /\ UNCHANGED <<pop, representatives, phase, result>>

Return ==
    /\ phase = "sweep"
    /\ SweepReturns
    /\ result' = [i \in DOMAIN pop |->
         ~ \E k \in Survivors : representatives[k] = i]
    /\ phase' = "returned"
    /\ UNCHANGED <<sweepVars, pop, representatives>>

Throw ==
    /\ phase = "sweep"
    /\ SweepThrows
    /\ phase' = "threw"
    /\ UNCHANGED <<sweepVars, pop, representatives, result>>

BatchNext == Call \/ CheckPair \/ Return \/ Throw

BatchSpec == BatchInit /\ [][BatchNext]_batchVars

-----------------------------------------------------------------------------
(* Properties *)

\* The sweep's flags are right however its unlocked reads and stores
\* interleave, as long as no query times out: what survives is the first
\* copy of each specification nothing else in the population dominates.
\* Reading a flag before a long query and acting on it after is harmless then,
\* because dominance is transitive.
KeepsExactlyTheMaximal ==
    phase = "returned" =>
        \A i \in DOMAIN pop :
            ~result[i] <=> /\ i \in FirstCopies
                           /\ pop[i] \in MaximalOf(Range(pop))

\* While the sweep runs, no flag is ever set on a specification that belongs
\* to the answer, so the comparisons that a flag makes other tasks skip are
\* never ones the answer needs. It holds as long as no query times out.
NeverMarksAMaximal ==
    phase = "sweep" =>
        \A i \in subsumed : \E j \in Position : Dominates(specs[j], specs[i])
=============================================================================
