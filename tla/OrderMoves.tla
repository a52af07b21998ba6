------------------------------ MODULE OrderMoves ------------------------------
(***************************************************************************)
(* src/src/genetic/order_moves.cpp: the order of specifications by rule,    *)
(* the joins and meets of requirements and of specifications, and the       *)
(* strengthenings of a candidate towards the specification it descends      *)
(* from. A specification is its assumptions A and its guarantees G, each a  *)
(* sequence of slots; a slot is a requirement, whether it was removed and   *)
(* whether the search may change it. What is proved or nothing is a set of  *)
(* one or none.                                                             *)
(***************************************************************************)
EXTENDS Requirements, FiniteSets

LOCAL INSTANCE SequencesExt

Slot(req) == [req |-> req, removed |-> FALSE, weakenable |-> TRUE]

IsSlot(slot) ==
    /\ IsRequirement(slot.req)
    /\ slot.removed \in BOOLEAN /\ slot.weakenable \in BOOLEAN

IsSpecification(spec) ==
    \A side \in {"A", "G"} : \A slot \in DOMAIN spec[side] : IsSlot(spec[side][slot])

\* The constructor keeps the first of equal slots, and the later ones move up.
Deduplicated(side) ==
    FoldLeft(LAMBDA kept, slot : IF slot \in ToSet(kept) THEN kept ELSE Append(kept, slot),
             <<>>, side)

Constructed(A, G) == [A |-> Deduplicated(A), G |-> Deduplicated(G)]

\* The constructor would merge nothing.
KeepsSlots(spec) == Constructed(spec.A, spec.G) = spec

MoveOf(child_implies, parent_implies) ==
    CASE child_implies /\ parent_implies -> "equal"
      [] child_implies /\ ~parent_implies -> "stronger"
      [] parent_implies /\ ~child_implies -> "weaker"
      [] OTHER -> "incomparable"

classify_move(parent, child) ==
    IF parent = child THEN "equal"
    ELSE MoveOf(spec_implies_by_rule(child, parent), spec_implies_by_rule(parent, child))

-----------------------------------------------------------------------------
(* Joins ("upper") and meets ("lower") *)

flipped(bound) == IF bound = "upper" THEN "lower" ELSE "upper"

largest_count(lhs, rhs) ==
    CHOOSE n \in {1, lhs.n, rhs.n} : \A k \in {1, lhs.n, rhs.n} : n >= k

\* In the order the code tries them: the inputs win a tie.
timing_candidates(lhs, rhs) ==
    LET limit == largest_count(lhs, rhs) + 1
    IN  <<lhs, rhs, Timed("immediately", 0), Timed("next", 0)>>
          \o FlattenSeq([n \in 1..limit |-> <<Timed("within", n), Timed("for", n)>>])
          \o <<Timed("eventually", 0), Timed("always", 0)>>

combine(f, g, conjoin) ==
    CHOOSE h \in DOMAIN Models :
        Models[h] = IF conjoin THEN Models[f] \cap Models[g] ELSE Models[f] \cup Models[g]

\* An edge under either input's timing and condition type is taken.
bound_scope(lhs, rhs, bound) ==
    LET Implies(stronger, weaker) ==
            \E req \in {lhs, rhs} : scope_implies(stronger, weaker, req.timing, req.ctype)
        upper == bound = "upper"
    IN  CASE lhs.scope = rhs.scope -> {lhs.scope}
          [] lhs.scope # rhs.scope /\ Implies(lhs.scope, rhs.scope) ->
               {IF upper THEN lhs.scope ELSE rhs.scope}
          [] lhs.scope # rhs.scope /\ ~Implies(lhs.scope, rhs.scope) ->
               IF Implies(rhs.scope, lhs.scope) THEN {IF upper THEN rhs.scope ELSE lhs.scope}
               ELSE IF upper THEN {Unscoped} ELSE {}

\* Positive in until, negative in before, swapped under an only scope.
bound_stop(lhs, rhs, scope, bound) ==
    IF lhs.kind = rhs.kind /\ lhs.kind \in {"until", "before"}
      THEN LET positive == (lhs.kind = "before") = (scope \in OnlyScopes)
           IN  {Stopped(lhs.kind, combine(lhs.stop, rhs.stop, positive = (bound = "upper")))}
      ELSE {}

\* On the side of u the bound is taken on.
Beyond(t, u, scope, bound) ==
    timing_implies(IF bound = "upper" THEN t ELSE u, IF bound = "upper" THEN u ELSE t, scope)

first_extreme(fitting, scope, bound) ==
    LET Extreme(t) == \A u \in ToSet(fitting) :
            Beyond(t, u, scope, bound) => Beyond(u, t, scope, bound)
        extremes == SelectSeq(fitting, Extreme)
    IN  {extremes[i] : i \in DOMAIN extremes \cap {1}}

\* The first of the weakest that imply both, or of the strongest both imply.
bound_timing(lhs, rhs, scope, bound) ==
    LET stopped == bound_stop(lhs, rhs, scope, bound)
        Fits(t) == \A u \in {lhs, rhs} : Beyond(t, u, scope, bound)
        fitting == SelectSeq(timing_candidates(lhs, rhs), Fits)
    IN  CASE lhs = rhs -> {lhs}
          [] lhs # rhs /\ stopped # {} -> stopped
          [] OTHER -> first_extreme(fitting, scope, bound)

\* Two triggers on different conditions join as a continual one.
combined_ctype(lhs, rhs, bound) ==
    IF bound = "upper"
      THEN IF "continual" \in {lhs.ctype, rhs.ctype} \/ ~equivalent(lhs.condition, rhs.condition)
             THEN "continual" ELSE "trigger"
      ELSE IF "trigger" \in {lhs.ctype, rhs.ctype} THEN "trigger" ELSE "continual"

\* What a field at both polarities may be: the value both have, or nothing.
Shared(f, g) == IF equivalent(f, g) THEN {f} ELSE {}

combined_response(lhs, rhs, timing, scope, bound) ==
    IF timing.kind = "after" THEN Shared(lhs.response, rhs.response)
    ELSE {combine(lhs.response, rhs.response, (scope.kind \notin OnlyScopes) = (bound = "upper"))}

combined_condition(lhs, rhs, ctype, bound) ==
    IF ctype = "trigger" THEN Shared(lhs.condition, rhs.condition)
    ELSE {combine(lhs.condition, rhs.condition, bound = "lower")}

combine_fields(lhs, rhs, bound) ==
    LET ctype == combined_ctype(lhs, rhs, bound)
        Timings(scope) == bound_timing(lhs.timing, rhs.timing, scope.kind, bound)
        With(scope, timing) ==
            [condition : combined_condition(lhs, rhs, ctype, bound),
             response : combined_response(lhs, rhs, timing, scope, bound),
             timing : {timing}, ctype : {ctype}, scope : {scope}]
    IN  UNION {UNION {With(scope, timing) : timing \in Timings(scope)} :
                 scope \in bound_scope(lhs, rhs, bound)}

\* The one that implies the other, either way, or a combination of the fields
\* that is proved to bound both.
bound_by_rule(lhs, rhs, forward, backward, bound) ==
    LET Bounds(req, side) == requirement_implies(IF bound = "upper" THEN req ELSE side.req,
                                                 IF bound = "upper" THEN side.req ELSE req)
        Proved(req) == \A side \in {lhs, rhs} : Bounds(req, side)
    IN  IF forward \/ backward
          THEN {IF (forward = (bound = "upper")) \/ (forward /\ backward) THEN lhs ELSE rhs}
          ELSE {Slot(req) : req \in {r \in combine_fields(lhs.req, rhs.req, bound) : Proved(r)}}

requirement_bound(lhs, rhs, bound) ==
    CASE lhs = rhs -> {lhs}
      [] lhs # rhs /\ (lhs.removed \/ rhs.removed \/ ~lhs.weakenable \/ ~rhs.weakenable) -> {}
      [] OTHER -> bound_by_rule(lhs, rhs, requirement_implies(lhs.req, rhs.req),
                                requirement_implies(rhs.req, lhs.req), bound)

\* Mutant of slot_bound: a tombstone reads as the bottom of the order.
slot_boundBottom(lhs, rhs, bound) ==
    IF ~lhs.removed /\ ~rhs.removed THEN requirement_bound(lhs, rhs, bound)
    ELSE {CHOOSE slot \in {lhs, rhs} : slot.removed = (bound = "upper") \/ lhs.removed = rhs.removed}

\* A tombstone reads as true, the top of the order.
slot_bound(lhs, rhs, bound) ==
    CASE ~lhs.removed /\ ~rhs.removed -> requirement_bound(lhs, rhs, bound)
      [] lhs.removed /\ rhs.removed -> {lhs}
      [] lhs.removed # rhs.removed ->
           {CHOOSE slot \in {lhs, rhs} : slot.removed = (bound = "lower")}

paired_slots(lhs, rhs, count, bound) ==
    [slot \in 1..count |->
        IF slot <= Len(lhs) /\ slot <= Len(rhs) THEN slot_bound(lhs[slot], rhs[slot], bound) ELSE {}]

live_tail(side, start) ==
    LET Live(slot) == ~slot.removed
    IN  SelectSeq(SubSeq(side, start + 1, Len(side)), Live)

\* A join keeps the appended assumptions both carry, a meet those of either.
appended_bound(lhs, rhs, n_original, bound) ==
    LET ours == live_tail(lhs.A, n_original)
        theirs == live_tail(rhs.A, n_original)
        Carried(slot) == slot.req \in {theirs[i].req : i \in DOMAIN theirs}
    IN  IF bound = "upper" THEN Deduplicated(SelectSeq(ours, Carried)) ELSE Deduplicated(ours \o theirs)

\* The assumptions take the opposite bound.
specification_bound(lhs, rhs, n_original, bound) ==
    [A |-> paired_slots(lhs.A, rhs.A, n_original, flipped(bound)),
     G |-> paired_slots(lhs.G, rhs.G, IF Len(lhs.G) > Len(rhs.G) THEN Len(lhs.G) ELSE Len(rhs.G), bound),
     appended |-> appended_bound(lhs, rhs, n_original, bound)]

is_complete(bound) ==
    \A side \in {bound.A, bound.G} : \A slot \in DOMAIN side : side[slot] # {}

Chosen(slots) == [i \in DOMAIN slots |-> CHOOSE slot \in slots[i] : TRUE]

assemble(bound) ==
    LET result == [A |-> Chosen(bound.A) \o bound.appended, G |-> Chosen(bound.G)]
    IN  IF is_complete(bound) /\ KeepsSlots(result) THEN {result} ELSE {}

-----------------------------------------------------------------------------
(* Steps towards the original *)

\* Left out where the constructor would merge two slots, or nothing proves it.
Strengthens(current, result) == KeepsSlots(result) /\ classify_move(current, result) = "stronger"

\* A stronger guarantee, or a weaker assumption, strengthens the whole.
Target(side, current, original) ==
    requirement_bound(current, original, IF side = "G" THEN "upper" ELSE "lower")

FieldStep(current, side, slot, target, field) ==
    [kind |-> "field", side |-> side, slot |-> slot, field |-> field,
     result |-> [current EXCEPT ![side][slot].req[field] = target.req[field]]]

move_slot(current, original, side, slot) ==
    LET own == current[side][slot]
        FieldSteps(target) ==
            {FieldStep(current, side, slot, target, field) :
                field \in {f \in Field : own.req[f] # target.req[f]}}
    IN  IF own.removed \/ ~own.weakenable \/ own = original[side][slot] THEN {}
        ELSE UNION {FieldSteps(target) : target \in Target(side, own, original[side][slot])}

WholeStep(kind, side, slot, result) ==
    [kind |-> kind, side |-> side, slot |-> slot, field |-> "none", result |-> result]

\* A tombstone comes back with the fields it was removed with.
restore(current, slot) ==
    WholeStep("restore", "G", slot, [current EXCEPT !.G[slot].removed = FALSE])

drop_assumption(current, slot) ==
    WholeStep("drop", "A", slot, [current EXCEPT !.A = RemoveAt(@, slot)])

Paired(lhs, rhs) == DOMAIN lhs \cap DOMAIN rhs

steps_towards(current, original) ==
    LET assumptions == UNION {move_slot(current, original, "A", slot) :
                                slot \in Paired(original.A, current.A)}
        kept == {slot \in Paired(current.G, original.G) : ~original.G[slot].removed}
        guarantees == UNION {IF current.G[slot].removed THEN {restore(current, slot)}
                             ELSE move_slot(current, original, "G", slot) : slot \in kept}
        appended == {slot \in DOMAIN current.A \ DOMAIN original.A : ~current.A[slot].removed}
        drops == {drop_assumption(current, slot) : slot \in appended}
    IN  {step \in assumptions \cup guarantees \cup drops : Strengthens(current, step.result)}

chain_of(between, dest, scope, bound) ==
    LET Before(t) == {u \in between \ {t} : Beyond(t, u, scope, bound)}
        Nth(i) == CHOOSE t \in between : Cardinality(Before(t)) = i - 1
    IN  Append([i \in 1..Cardinality(between) |-> Nth(i)], dest)

\* Mutant of directed_chain: the destination does not end it.
directed_chainPast(from, dest, scope, bound) ==
    LET counted == {Timed(kind, n) : kind \in {"within", "for"}, n \in 1..largest_count(from, dest)}
    IN  chain_of({t \in counted \ {from, dest} : Beyond(t, from, scope, bound)}, dest, scope, bound)

directed_chain(from, dest, scope, bound) ==
    LET counted == {Timed(kind, n) : kind \in {"within", "for"}, n \in 1..largest_count(from, dest)}
        Between(t) == Beyond(dest, t, scope, bound) /\ Beyond(t, from, scope, bound)
    IN  chain_of({t \in counted \ {from, dest} : Between(t)}, dest, scope, bound)

\* The timings strictly between the two, in order from the one, then the other.
timing_chain(from, dest, scope) ==
    IF from = dest THEN <<>>
    ELSE CASE timing_implies(dest, from, scope) -> directed_chain(from, dest, scope, "upper")
           [] timing_implies(from, dest, scope) /\ ~timing_implies(dest, from, scope) ->
                directed_chain(from, dest, scope, "lower")
           [] OTHER -> <<>>

with_slot_timing(current, side, slot, timing) ==
    LET result == [current EXCEPT ![side][slot].req.timing = timing]
    IN  IF Strengthens(current, result) THEN {result} ELSE {}

timing_step_chain(current, step) ==
    IF step.field # "timing" THEN <<>>
    ELSE LET from == current[step.side][step.slot].req
         IN  timing_chain(from.timing, step.result[step.side][step.slot].req.timing, from.scope.kind)
=============================================================================
