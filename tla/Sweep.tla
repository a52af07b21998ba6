-------------------------------- MODULE Sweep --------------------------------
(***************************************************************************)
(* merge_subsumed and check_pair of src/src/filter/antichain.hpp: the      *)
(* concurrent pairwise sweep that marks which of a list of distinct        *)
(* specifications another one dominates.                                   *)
(*                                                                         *)
(* A pool task checks one pair. It reads the two subsumed flags, asks the  *)
(* solver both directions, which takes long, and stores a flag; nothing    *)
(* locks the flags, so other tasks store theirs in between. StartCheck is  *)
(* the first read and FinishCheck everything after it: the solver calls    *)
(* touch nothing shared.                                                   *)
(***************************************************************************)
EXTENDS Dominance, FiniteSets

CONSTANTS
    Capacity,   \* how many checks run at once: the pool's workers
    MayTimeOut  \* whether an implication query may run out of time

ASSUME SweepAssumption == Capacity \in Nat \ {0} /\ MayTimeOut \in BOOLEAN

VARIABLES
    specs,        \* the settled antichain followed by the incoming batch
    n_settled,    \* how many of specs are settled
    unstarted,    \* pairs of positions no worker has begun to check
    checking,     \* pairs a worker has begun: flags read, solver asked
    subsumed,     \* positions whose flag is set
    threw         \* an implication check has thrown

sweepVars == <<implication, specs, n_settled, unstarted, checking, subsumed, threw>>

-----------------------------------------------------------------------------
Position == 1 .. Len(specs)

\* Mutant of PairsOf: the first incoming entry is taken for a settled one.
PairsOfBatchTail(n_specs, settled) ==
    {p \in (1 .. n_specs) \X (1 .. n_specs) : p[1] < p[2] /\ p[2] > settled + 1}

\* Pairs the sweep asks about: none with both sides settled.
PairsOf(n_specs, settled) ==
    {p \in (1 .. n_specs) \X (1 .. n_specs) : p[1] < p[2] /\ p[2] > settled}

\* Launch order, which the pool's queue keeps.
Before(p, q) == p[1] < q[1] \/ (p[1] = q[1] /\ p[2] < q[2])

SweepInit ==
    /\ implication \in World
    /\ specs = <<>>
    /\ n_settled = 0
    /\ unstarted = {}
    /\ checking = {}
    /\ subsumed = {}
    /\ threw = FALSE

\* merge_subsumed up to the region: lists the pairs, leaving out those whose
\* two directions the sampled and model words of printed specifications both
\* refute. A word is a countermodel, so what it refutes is false.
BeginSweep(list, settled, printed) ==
    /\ specs' = list
    /\ n_settled' = settled
    /\ unstarted' = {p \in PairsOf(Len(list), settled) :
         ~ /\ {list[p[1]], list[p[2]]} \subseteq printed
           /\ ~Implies(list[p[1]], list[p[2]])
           /\ ~Implies(list[p[2]], list[p[1]])}
    /\ checking' = {}
    /\ subsumed' = {}
    /\ threw' = FALSE
    /\ UNCHANGED implication

\* check_pair's short-circuit, and the way past it.
StartCheck(p) ==
    /\ p \in unstarted
    /\ \A q \in unstarted \ {p} : Before(p, q)
    /\ Cardinality(checking) < Capacity
    /\ unstarted' = unstarted \ {p}
    /\ checking' = IF p[1] \in subsumed \/ p[2] \in subsumed
                     THEN checking
                     ELSE checking \cup {p}
    /\ UNCHANGED <<implication, specs, n_settled, subsumed, threw>>

\* What one implication query may read as: the truth, or false where the
\* solver may run out of time.
Answers(a, b, undecided) ==
    IF undecided THEN {Implies(a, b), FALSE} ELSE {Implies(a, b)}

\* Mutants of Marked: equivalent entries are both kept; the wrong side is marked.
MarkedUnlessEquivalent(p, a_implies_b, b_implies_a) ==
    IF a_implies_b /\ b_implies_a THEN {}
      ELSE IF a_implies_b THEN {p[2]} ELSE IF b_implies_a THEN {p[1]} ELSE {}

MarkedSwapped(p, a_implies_b, b_implies_a) ==
    IF a_implies_b /\ b_implies_a
      THEN {IF prefer_first(specs[p[1]], specs[p[2]]) THEN p[1] ELSE p[2]}
      ELSE IF a_implies_b THEN {p[2]} ELSE IF b_implies_a THEN {p[1]} ELSE {}

\* The side of the pair that check_pair marks, if any.
Marked(p, a_implies_b, b_implies_a) ==
    IF a_implies_b /\ b_implies_a
      THEN {IF prefer_first(specs[p[1]], specs[p[2]]) THEN p[2] ELSE p[1]}
      ELSE IF a_implies_b THEN {p[2]} ELSE IF b_implies_a THEN {p[1]} ELSE {}

\* The rest of check_pair.
FinishCheck(p, undecided) ==
    /\ p \in checking
    /\ \E ab \in Answers(specs[p[1]], specs[p[2]], undecided),
          ba \in Answers(specs[p[2]], specs[p[1]], undecided) :
         subsumed' = subsumed \cup Marked(p, ab, ba)
    /\ checking' = checking \ {p}
    /\ UNCHANGED <<implication, specs, n_settled, unstarted, threw>>

\* A check that throws: run_bounded_async keeps the exception until every
\* task that was launched has ended. The launch loop ends when it collects
\* the exception, so the pairs not yet launched may never start.
ThrowCheck(p) ==
    /\ p \in checking
    /\ checking' = checking \ {p}
    /\ threw' = TRUE
    /\ UNCHANGED <<implication, specs, n_settled, unstarted, subsumed>>

\* The region returns: every pair was looked at.
SweepReturns == unstarted = {} /\ checking = {} /\ ~threw

\* The region rethrows.
SweepThrows == threw /\ checking = {}

\* The positions merge_subsumed hands back without a flag.
Survivors == {i \in Position : i \notin subsumed}

-----------------------------------------------------------------------------
(* Properties *)

PairOf(i, j) == IF i < j THEN <<i, j>> ELSE <<j, i>>

SweepTypeOK ==
    /\ implication \in World
    /\ specs \in Seq(Spec)
    /\ n_settled \in 0 .. Len(specs)
    /\ unstarted \subseteq Position \X Position
    /\ checking \subseteq Position \X Position
    /\ \A p \in unstarted \cup checking : p[1] < p[2]
    /\ subsumed \subseteq Position
    /\ threw \in BOOLEAN

SpecsAreDistinct == \A i, j \in Position : specs[i] = specs[j] => i = j

\* Of two specifications one of which dominates the other, either their pair is
\* still to be checked, or one of the two is marked.
Progress ==
    \A i, j \in Position :
        Dominates(specs[i], specs[j]) =>
            \/ PairOf(i, j) \in unstarted \cup checking
            \/ i \in subsumed \/ j \in subsumed
            \/ threw

MarkedAreDominated == \A i \in subsumed : \E j \in Position : Dominates(specs[j], specs[i])

\* What every check keeps while no query times out, whatever it read before it
\* asked: nothing marked belongs to the answer, and nothing needed is skipped.
SweepInv == SweepTypeOK /\ SpecsAreDistinct /\ MarkedAreDominated /\ Progress
=============================================================================
