------------------------------ MODULE Dominance ------------------------------
(***************************************************************************)
(* The relation the implication filter keeps the maximal elements of       *)
(* (prefer_first and the comment over check_pair in                        *)
(* src/src/filter/antichain.hpp). What implies what is a fact about the    *)
(* formulas, so it is chosen once, as the value of implication, and never  *)
(* changes.                                                                *)
(***************************************************************************)
EXTENDS Integers, Sequences, SequencesExt

CONSTANTS
    Spec,   \* specifications
    World,  \* the implication relations a run is checked against
    Rank    \* prefer_first(a, b) is Rank[a] > Rank[b]: similarity, then <

ImplicationIsPreorder(T) ==
    /\ T \subseteq Spec \X Spec
    /\ \A a \in Spec : <<a, a>> \in T
    /\ \A a, b, c \in Spec : <<a, b>> \in T /\ <<b, c>> \in T => <<a, c>> \in T

VARIABLE implication  \* the set of <<a, b>> with a implying b

Implies(a, b) == <<a, b>> \in implication

prefer_first(a, b) == Rank[a] > Rank[b]

\* a makes b redundant.
Dominates(a, b) ==
    /\ Implies(a, b)
    /\ a # b
    /\ ~Implies(b, a) \/ prefer_first(a, b)

\* The members of S that nothing in S dominates.
MaximalOf(S) == {s \in S : \A t \in S : ~Dominates(t, s)}

\* S listed in the order its members have in list, which holds all of them.
InOrder(S, list) ==
    {sub \in SeqOf(S, Len(list)) :
        /\ Range(sub) = S
        /\ \A i, j \in DOMAIN sub : i < j =>
             \E k, l \in DOMAIN list : k < l /\ list[k] = sub[i] /\ list[l] = sub[j]}

\* Every S is finite, so one of its members is dominated by none of the others.
HasMaximal(T) ==
    \A S \in SUBSET Spec : S # {} =>
        \E s \in S : \A t \in S :
            ~ /\ <<t, s>> \in T
              /\ t # s
              /\ <<s, t>> \notin T \/ prefer_first(t, s)

ASSUME DominanceAssumption ==
    /\ \A T \in World : ImplicationIsPreorder(T) /\ HasMaximal(T)
    /\ Rank \in [Spec -> Int]
    /\ \A a, b \in Spec : Rank[a] = Rank[b] => a = b
=============================================================================
