------------------------------- MODULE MrsWalk -------------------------------
(***************************************************************************)
(* The serial walk of status_score_mrs (src/src/fitness/status.cpp): the   *)
(* parts are tried in the admission order, and a part is kept when the     *)
(* parts kept before it stay realizable with it. The score is the share    *)
(* of parts kept. WalkLookahead.tla implements it with queries asked       *)
(* ahead.                                                                  *)
(***************************************************************************)
EXTENDS Integers, Sequences, FiniteSets

CONSTANTS
    m_order,  \* the admission order: a permutation of the parts
    Oracle    \* the verdict functions a run is checked against

Part == {m_order[k] : k \in DOMAIN m_order}

VARIABLES
    verdict,  \* which sets of parts subset_realizable accepts
    step,     \* parts settled so far
    kept,     \* the parts accepted
    walk      \* "walking", "scored" or "threw"

walkVars == <<verdict, step, kept, walk>>

Init ==
    /\ verdict \in Oracle
    /\ step = 0
    /\ kept = {}
    /\ walk = "walking"

Query == kept \cup {m_order[step + 1]}

Settle ==
    /\ walk = "walking"
    /\ step < Len(m_order)
    /\ kept' = IF verdict[Query] THEN Query ELSE kept
    /\ step' = step + 1
    /\ UNCHANGED <<verdict, walk>>

Score ==
    /\ walk = "walking"
    /\ step = Len(m_order)
    /\ walk' = "scored"
    /\ UNCHANGED <<verdict, step, kept>>

\* An exception out of the oracle.
Throw ==
    /\ walk = "walking"
    /\ walk' = "threw"
    /\ UNCHANGED <<verdict, step, kept>>

Next == Settle \/ Score \/ Throw

WalkSpec == Init /\ [][Next]_walkVars /\ WF_walkVars(Next)
=============================================================================
