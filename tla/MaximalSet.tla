----------------------------- MODULE MaximalSet -----------------------------
(***************************************************************************)
(* What the streaming implication filter promises the search: whatever was *)
(* pushed, in whatever batches it was merged, finish hands back the        *)
(* maximal specifications in the order they were first pushed, or throws,  *)
(* or the filter is destroyed and hands back nothing.                      *)
(***************************************************************************)
EXTENDS Dominance

VARIABLES
    pushed,   \* the distinct specifications pushed, in order
    owner,    \* "open", "closing", "returned", "threw" or "destroyed"
    outcome   \* what finish returned

setVars == <<implication, pushed, owner, outcome>>

Init ==
    /\ implication \in World
    /\ pushed = <<>>
    /\ owner = "open"
    /\ outcome = <<>>

Push(s) ==
    /\ owner = "open"
    /\ pushed' = IF s \in Range(pushed) THEN pushed ELSE Append(pushed, s)
    /\ UNCHANGED <<implication, owner, outcome>>

Close ==
    /\ owner = "open"
    /\ owner' = "closing"
    /\ UNCHANGED <<implication, pushed, outcome>>

Return ==
    /\ owner = "closing"
    /\ owner' = "returned"
    /\ outcome' \in InOrder(MaximalOf(Range(pushed)), pushed)
    /\ UNCHANGED <<implication, pushed>>

Fail ==
    /\ owner = "closing"
    /\ owner' \in {"threw", "destroyed"}
    /\ UNCHANGED <<implication, pushed, outcome>>

Next == (\E s \in Spec : Push(s)) \/ Close \/ Return \/ Fail

SetSpec ==
    Init /\ [][Next]_setVars /\ WF_setVars(Return \/ Fail)
=============================================================================
