---------------------------- MODULE Requirements ----------------------------
(***************************************************************************)
(* The requirements of src/include/requirement.hpp, their lists, the orders *)
(* timing_implies and scope_implies put on timings and scopes, and what one *)
(* requirement or specification implies of another by rule. A propositional *)
(* formula is a name for the letters it holds of.                           *)
(***************************************************************************)
EXTENDS Integers, Sequences

CONSTANT Models     \* formula to the letters it holds of

NoFormula == ""

Timed(kind, n) == [kind |-> kind, n |-> n, stop |-> NoFormula]

Stopped(kind, stop) == [kind |-> kind, n |-> 0, stop |-> stop]

TimingKind ==
    {"immediately", "next", "within", "for", "after", "eventually", "always", "until", "before"}

Unscoped == [kind |-> "global", mode |-> NoFormula]

ScopeKind == {"in", "except in", "before", "after", "only in", "only before", "only after"}

OnlyScopes == {"only in", "only before", "only after"}

\* Exactly the scopes that are not global name a mode.
IsScope(scope) ==
    \/ scope = Unscoped
    \/ scope.kind \in ScopeKind /\ scope.mode \in DOMAIN Models

\* Exactly until and before carry a stop.
IsTiming(timing) ==
    /\ timing.kind \in TimingKind /\ timing.n \in Nat
    /\ IF timing.kind \in {"until", "before"} THEN timing.stop \in DOMAIN Models
                                              ELSE timing.stop = NoFormula

IsRequirement(req) ==
    /\ req.condition \in DOMAIN Models /\ req.response \in DOMAIN Models
    /\ IsTiming(req.timing) /\ IsScope(req.scope)
    /\ req.ctype \in {"trigger", "continual"}

is_zero_tick_bound(timing) == timing.kind \in {"within", "for"} /\ timing.n = 0

-----------------------------------------------------------------------------
(* The orders *)

Point == {"immediately", "next"}

\* Mutant of global_timing_implies: what holds always is done before any stop.
global_timing_impliesBefore(upper, lower) ==
    \/ upper = lower
    \/ upper.kind = "always" /\ lower.kind # "after"

\* The order under a scope that ends no interval.
global_timing_implies(upper, lower) ==
    \/ upper = lower
    \/ upper.kind = "always" /\ lower.kind \notin {"after", "before"}
    \/ upper.kind \notin {"until", "before"} /\ lower.kind = "eventually"
    \/ /\ upper.kind = "for"
       /\ \/ lower.kind = "for" /\ upper.n > lower.n
          \/ lower.kind \in Point \cup {"within"}
    \/ upper.kind \in Point /\ lower.kind = "within"
    \/ upper.kind \in {"within", "after"} /\ lower.kind = "within" /\ lower.n > upper.n
    \/ upper.kind = "after" /\ upper.n = 0 /\ lower.kind = "next"

\* Mutant of Discharged: an obligation the boundary discharges is still met.
DischargedNever(upper, lower) == FALSE

\* What the boundary discharges the response need not follow.
Discharged(upper, lower) ==
    upper.kind \in {"next", "within", "after"} /\ lower.kind = "eventually"

timing_implies(stronger, weaker, scope) ==
    IF scope \in OnlyScopes
      THEN \/ stronger.kind = "eventually" /\ weaker.kind = "before"
           \/ /\ global_timing_implies(weaker, stronger)
              /\ weaker.kind = "always" =>
                   /\ stronger.kind # "until"
                   /\ stronger.kind \in {"for", "next"} => scope = "only before"
      ELSE /\ global_timing_implies(stronger, weaker)
           /\ scope \in {"in", "except in", "before"} => ~Discharged(stronger, weaker)

FromGlobal(kinds) == {<<"global", kind>> : kind \in kinds}

\* Mutant of scope_edges: a trigger keeps the edges of a continual condition.
scope_edgesOfContinual(timing, ctype) ==
    {<<"except in", "before">>} \cup
      IF timing.kind = "eventually" THEN {}
      ELSE FromGlobal({"in", "except in", "before", "after"})

scope_edges(timing, ctype) ==
    {<<"except in", "before">>} \cup
      CASE timing.kind = "eventually" /\ ctype = "continual" -> FromGlobal({"after"})
        [] timing.kind = "eventually" /\ ctype = "trigger" -> {}
        [] timing.kind = "always" \/ (ctype = "continual" /\ timing.kind # "eventually") ->
             FromGlobal({"in", "except in", "before", "after"})
        [] OTHER -> FromGlobal({"before"})

scope_implies(stronger, weaker, timing, ctype) ==
    \/ stronger = weaker
    \/ /\ stronger.kind # "global" => stronger.mode = weaker.mode
       /\ <<stronger.kind, weaker.kind>> \in scope_edges(timing, ctype)

-----------------------------------------------------------------------------
(***************************************************************************)
(* src/src/filter/implication_check.cpp: what one requirement, and one      *)
(* specification, implies of another without a solver. RuleSearch moves one *)
(* field at a time from a requirement towards another, each step a fact in  *)
(* the context of the fields moved so far. Formulas are compared by the     *)
(* assignments they hold of, as the enumeration does.                       *)
(***************************************************************************)

\* formula_implies: no assignment satisfies the one and not the other.
formula_implies(f, g) == Models[f] \subseteq Models[g]

equivalent(f, g) == formula_implies(f, g) /\ formula_implies(g, f)

Field == {"condition", "response", "timing", "ctype", "scope"}

\* The requirement with the fields moved taken from the destination.
Moved(from, dest, moved) == [field \in Field |-> IF field \in moved THEN dest[field] ELSE from[field]]

condition_step(at, from, dest) ==
    IF at.ctype = "continual"
      THEN formula_implies(dest.condition, from.condition)
      ELSE equivalent(dest.condition, from.condition)

\* Mutant of response_step: "after" reads its response like the others.
response_stepAfter(at, from, dest) ==
    IF at.scope.kind \in OnlyScopes
      THEN formula_implies(dest.response, from.response)
      ELSE formula_implies(from.response, dest.response)

\* "after" holds its response at both polarities.
response_step(at, from, dest) ==
    IF at.timing.kind = "after" THEN equivalent(from.response, dest.response)
    ELSE IF at.scope.kind \in OnlyScopes
      THEN formula_implies(dest.response, from.response)
      ELSE formula_implies(from.response, dest.response)

stop_step(at, from, dest) ==
    IF (from.kind = "before") # (at.scope.kind \in OnlyScopes)
      THEN formula_implies(dest.stop, from.stop)
      ELSE formula_implies(from.stop, dest.stop)

timing_step(at, from, dest) ==
    IF from.timing.kind = dest.timing.kind /\ from.timing.kind \in {"until", "before"}
      THEN stop_step(at, from.timing, dest.timing)
      ELSE timing_implies(from.timing, dest.timing, at.scope.kind)

\* Mutant of ctype_step: a trigger is continual wherever the response is owed
\* for good.
ctype_stepAlways(at, from) == from.ctype = "continual" \/ at.timing.kind = "always"

ctype_step(at, from) ==
    \/ from.ctype = "continual"
    \/ at.timing.kind = IF at.scope.kind \in OnlyScopes THEN "eventually" ELSE "always"

step_holds(from, dest, moved, field) ==
    LET at == Moved(from, dest, moved)
    IN  CASE field = "condition" -> condition_step(at, from, dest)
          [] field = "response" -> response_step(at, from, dest)
          [] field = "timing" -> timing_step(at, from, dest)
          [] field = "ctype" -> ctype_step(at, from)
          [] field = "scope" -> scope_implies(from.scope, dest.scope, at.timing, at.ctype)

Unmoved(from, dest) == {field \in Field : from[field] = dest[field]}

\* Whether some order of the remaining steps gets there.
reaches_dest(from, dest) ==
    LET reach[moved \in SUBSET Field] ==
          \/ moved = Field
          \/ \E field \in Field \ moved :
               step_holds(from, dest, moved, field) /\ reach[moved \cup {field}]
    IN  reach[Unmoved(from, dest)]

requirement_implies(stronger, weaker) == stronger = weaker \/ reaches_dest(stronger, weaker)

-----------------------------------------------------------------------------
(* Specifications: a sequence of slots on each side, with tombstones *)

live_in(side) == {slot \in DOMAIN side : ~side[slot].removed}

Lowerings(side) == {side[slot].req : slot \in live_in(side)}

\* A live entry with the same lowering anywhere, or one in the same slot that
\* implies it.
covered(req, slot, pool) ==
    \/ req \in Lowerings(pool)
    \/ slot \in live_in(pool) /\ requirement_implies(pool[slot].req, req)

AllCovered(side, pool) == \A slot \in live_in(side) : covered(side[slot].req, slot, pool)

\* Mutant of spec_implies_by_rule: the assumptions are compared as the
\* guarantees are.
spec_implies_by_ruleForward(from, dest) ==
    AllCovered(dest.A, from.A) /\ AllCovered(dest.G, from.G)

spec_implies_by_rule(from, dest) == AllCovered(from.A, dest.A) /\ AllCovered(dest.G, from.G)

\* Mutant of MayDrop: whatever the assumptions.
MayDropAlways(from, dest) == TRUE

MayDrop(from, dest) == AllCovered(from.A, dest.A)

\* residual_destination: the guarantees covered are dropped from the query.
residual_destination(from, dest) ==
    [dest EXCEPT !.G =
        [slot \in DOMAIN dest.G |->
            [dest.G[slot] EXCEPT !.removed =
                \/ @
                \/ MayDrop(from, dest) /\ covered(dest.G[slot].req, slot, from.G)]]]
=============================================================================
