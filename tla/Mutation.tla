------------------------------- MODULE Mutation -------------------------------
(***************************************************************************)
(* src/src/genetic/mutation.cpp: what one mutation may make of a timing, a   *)
(* scope, a requirement and a specification. An operator is the set of the  *)
(* outcomes its draws can reach; the rates and the step scale change their  *)
(* odds alone, except that an arm whose rate is zero is never taken. A      *)
(* rewrite along the order gives any formula on its side, and a free one    *)
(* any formula at all.                                                      *)
(***************************************************************************)
EXTENDS OrderMoves

CONSTANTS
    Rate,           \* the arms whose rate is positive, "free" where p_monotone
                    \* leaves the free rewrite a share
    Mode,           \* the modes the specification declares
    MaxTicks,       \* bound on the tick count of a timing
    Addable         \* the assumptions add_assumption can build

Opposite(direction) == IF direction = "weaken" THEN "strengthen" ELSE "weaken"

Counted(timings) == {t \in timings : t.n <= MaxTicks}

-----------------------------------------------------------------------------
(* Timings *)

Quantified == {"within", "for", "after"}

\* What a pool lends both extremes of the order: points, and tick counts.
donated_candidates(pool) ==
    {t \in pool : t.kind \in {"immediately", "next"}}
      \cup {Timed("for", t.n) : t \in {u \in pool : u.kind \in Quantified /\ u.n > 0}}

donated_to_always(pool) ==
    donated_candidates(pool)
      \cup {Stopped("until", t.stop) : t \in {u \in pool : u.stop # NoFormula}}

move_off_extreme(extreme, candidates) == IF candidates = {} THEN {extreme} ELSE candidates

strengthen_for_timing(n) == {Timed("for", n + 1), Timed("for", 2 * n), Timed("always", 0)}

strengthen_within_timing(n) ==
    IF n = 1 THEN {Timed("next", 0), Timed("immediately", 0)}
    ELSE {Timed("within", n - 1), Timed("within", (n + 1) \div 2), Timed("after", n - 1)}

\* Nothing lies above "after", and before is incomparable with every kind.
strengthen_timing(timing, pool) ==
    CASE timing.kind \in {"immediately", "next"} -> {Timed("for", 1)}
      [] timing.kind \in {"always", "until"} -> {Timed("always", 0)}
      [] timing.kind = "for" -> strengthen_for_timing(timing.n)
      [] timing.kind = "within" -> strengthen_within_timing(timing.n)
      [] timing.kind = "eventually" -> move_off_extreme(timing, donated_candidates(pool))
      [] timing.kind \in {"after", "before"} -> {timing}

weaken_for_timing(n) ==
    IF n = 1 THEN {Timed("next", 0), Timed("immediately", 0)}
    ELSE {Timed("for", n - 1), Timed("for", n \div 2)}

weaken_within_timing(n) ==
    {Timed("within", n + 1), Timed("within", 2 * n), Timed("eventually", 0)}

weaken_timing(timing, pool) ==
    CASE timing.kind \in {"immediately", "next"} -> {Timed("within", 1)}
      [] timing.kind = "always" -> move_off_extreme(timing, donated_to_always(pool))
      [] timing.kind = "for" -> weaken_for_timing(timing.n)
      [] timing.kind = "within" -> weaken_within_timing(timing.n)
      [] timing.kind = "after" -> {Timed("within", timing.n + 1)}
      [] timing.kind \in {"eventually", "until", "before"} -> {timing}

\* An only scope reverses the order, so the opposite operator moves it.
global_strengthen(direction, scope) == (direction = "strengthen") # (scope \in OnlyScopes)

Ordered(direction, timing, moved, scope) ==
    IF direction = "strengthen" THEN timing_implies(moved, timing, scope)
                                ELSE timing_implies(timing, moved, scope)

\* Mutant of mutate_timing: a step along an edge the scope drops is taken.
mutate_timingUnchecked(timing, direction, scope, pool) ==
    Counted(IF global_strengthen(direction, scope) THEN strengthen_timing(timing, pool)
                                                   ELSE weaken_timing(timing, pool))

\* A step along an edge the scope drops is refused.
mutate_timing(timing, direction, scope, pool) ==
    LET moves == Counted(IF global_strengthen(direction, scope) THEN strengthen_timing(timing, pool)
                                                               ELSE weaken_timing(timing, pool))
    IN  {IF Ordered(direction, timing, moved, scope) THEN moved ELSE timing : moved \in moves}

Timings(side) == {side[slot].req.timing : slot \in live_in(side)}

collect_timing_pool(spec) == Timings(spec.A) \cup Timings(spec.G)

-----------------------------------------------------------------------------
(* Fields *)

mutate_condition_type(direction) == IF direction = "strengthen" THEN "continual" ELSE "trigger"

\* Mutant of move_scope: the edges are read as those of any requirement.
move_scopeAnyEdge(scope, direction, timing, ctype) ==
    IF direction = "strengthen" THEN {Unscoped}
    ELSE {[kind |-> kind, mode |-> m] : kind \in {"in", "before"}, m \in Mode}

\* Between two scoped forms the mode travels; from global any mode will do.
move_scope(scope, direction, timing, ctype) ==
    LET Targets(edges) == IF direction = "strengthen"
                            THEN {e[1] : e \in {f \in edges : f[2] = scope.kind}}
                            ELSE {e[2] : e \in {f \in edges : f[1] = scope.kind}}
        Onto(kind) == CASE kind = "global" -> {Unscoped}
                        [] kind # "global" /\ scope # Unscoped -> {[scope EXCEPT !.kind = kind]}
                        [] OTHER -> [kind : {kind}, mode : Mode]
        candidates == UNION {Onto(kind) : kind \in Targets(scope_edges(timing, ctype))}
    IN  IF candidates = {} THEN {scope} ELSE candidates

\* Which way a field under a negation has to move.
monotone_of(direction, negated) == IF negated THEN Opposite(direction) ELSE direction

\* Mutant of response_direction: an only scope negates nothing.
response_directionPlain(req, direction) ==
    IF req.timing.kind = "after" THEN "none" ELSE direction

\* "after" holds its response at both polarities.
response_direction(req, direction) ==
    IF req.timing.kind = "after" THEN "none"
    ELSE monotone_of(direction, req.scope.kind \in OnlyScopes)

\* And a trigger its condition.
condition_direction(req, direction) ==
    IF req.ctype = "trigger" THEN "none" ELSE monotone_of(direction, TRUE)

\* Mutant of stop_direction: the stop of before is positive too.
stop_directionUntil(timing, scope, direction) == monotone_of(direction, scope.kind \in OnlyScopes)

stop_direction(timing, scope, direction) ==
    monotone_of(direction, (timing.kind = "before") # (scope.kind \in OnlyScopes))

monotone_rewrite(formula, direction) ==
    {f \in DOMAIN Models : IF direction = "weaken" THEN formula_implies(formula, f)
                                                   ELSE formula_implies(f, formula)}

Rewritten(formulas, free) == {[to |-> f, free |-> free] : f \in formulas}

Kept(value) == [to |-> value, free |-> FALSE]

\* The monotone arm where the field has a direction, or the free rewrite.
rewrite_field(formula, direction, rate) ==
    LET directed == direction # "none" /\ "monotone" \in rate
    IN  (IF directed THEN Rewritten(monotone_rewrite(formula, direction), FALSE) ELSE {})
          \cup (IF directed /\ "free" \notin rate THEN {} ELSE Rewritten(DOMAIN Models, TRUE))

\* What an arm does where it is drawn, or the field as it was.
Arm(arm, rate, unmoved, moves) == {unmoved} \cup (IF arm \in rate THEN moves ELSE {})

stop_moves(timing, scope, direction, rate) ==
    {[to |-> Stopped(timing.kind, move.to), free |-> move.free] :
        move \in rewrite_field(timing.stop, stop_direction(timing, scope, direction), rate)}

\* The stop is read off the timing just moved, and the scope's edges off the
\* timing and the condition type just moved.
mutate_requirement(req, direction, pool, rate) ==
    LET responses == Arm("response", rate, Kept(req.response),
            rewrite_field(req.response, response_direction(req, direction), rate))
        conditions == Arm("condition", rate, Kept(req.condition),
            rewrite_field(req.condition, condition_direction(req, direction), rate))
        moved == Arm("timing", rate, req.timing,
            mutate_timing(req.timing, direction, req.scope.kind, pool))
        Stops(t) == IF t.stop = NoFormula THEN {Kept(t)}
                    ELSE Arm("stop", rate, Kept(t), stop_moves(t, req.scope, direction, rate))
        timings == UNION {Stops(t) : t \in moved}
        ctypes == Arm("ctype", rate, req.ctype, {mutate_condition_type(direction)})
        Scopes(t, ctype) == Arm("scope", rate, req.scope, move_scope(req.scope, direction, t, ctype))
        With(r, c, t, ctype) ==
            {[req |-> [condition |-> c.to, response |-> r.to, timing |-> t.to, ctype |-> ctype,
                       scope |-> scope],
              free |-> r.free \/ c.free \/ t.free] : scope \in Scopes(t.to, ctype)}
    IN  UNION {With(r, c, t, ctype) :
                 r \in responses, c \in conditions, t \in timings, ctype \in ctypes}

-----------------------------------------------------------------------------
(* Specifications *)

Weakenable(side) == {slot \in live_in(side) : side[slot].weakenable}

\* The slots that may be rewritten, as pairs of a side and an index.
collect_weakenable_indices(spec) ==
    {<<"A", slot>> : slot \in Weakenable(spec.A)} \cup {<<"G", slot>> : slot \in Weakenable(spec.G)}

creates_duplicate(side, slot) == \E other \in DOMAIN side \ {slot} : side[other] = side[slot]

\* "whenever c C shall eventually satisfy an input": re-adding one is no change.
add_assumption(spec) == {Constructed(Append(spec.A, Slot(req)), spec.G) : req \in Addable}

\* Never the last live guarantee, locked ones counted.
removable(spec) == IF Cardinality(live_in(spec.G)) > 1 THEN Weakenable(spec.G) ELSE {}

remove_guarantee(spec, slot) == Constructed(spec.A, [spec.G EXCEPT ![slot].removed = TRUE])

structural_action(spec, rate) ==
    (IF "add" \in rate THEN add_assumption(spec) ELSE {})
      \cup (IF "remove" \in rate THEN {remove_guarantee(spec, slot) : slot \in removable(spec)} ELSE {})

\* What breeding knows of a parent: its verdict, "unknown" where its status
\* says nothing of the offspring; the guarantees its walk refused; and the
\* original it may step back to.
gate_of(parent, rate) ==
    CASE "gate" \notin rate \/ parent.verdict = "unknown" -> "none"
      [] "gate" \in rate /\ parent.verdict = "realizable" -> "strengthen"
      [] OTHER -> "weaken"

\* Mutant of admitted_by_gate: what is not proved to move the right way.
admitted_by_gateAny(gate, spec, child, rate) == TRUE

\* Proved to move the forbidden way is refused; unordered may be.
admitted_by_gate(gate, spec, child, rate) ==
    LET order == classify_move(spec, child)
    IN  /\ order # IF gate = "weaken" THEN "stronger" ELSE "weaker"
        /\ order = "incomparable" => "sideways" \in rate

\* Moves a timing step to the midpoint of the chain it crosses.
bisect_step(spec, step) ==
    LET chain == timing_step_chain(spec, step)
        midpoint == IF Len(chain) < 2 THEN {}
                    ELSE with_slot_timing(spec, step.side, step.slot, chain[(Len(chain) + 1) \div 2])
    IN  IF midpoint = {} THEN step.result ELSE CHOOSE result \in midpoint : TRUE

steps_back(spec, parent, rate) ==
    {IF "bisect" \in rate THEN bisect_step(spec, step) ELSE step.result :
        step \in steps_towards(spec, parent.original)}

free_rewrite_rates(rate) == rate \ {"timing", "ctype", "scope", "monotone"}

Differs(spec, original, index) ==
    LET own == spec[index[1]]
        theirs == original[index[1]]
    IN  index[2] \notin DOMAIN theirs \/ own[index[2]] # theirs[index[2]]

\* The assumptions and the guarantees the walk refused of an unrealizable
\* parent, what a realizable one has moved; nothing is no target.
targeted_mutation_slots(spec, weakenable, parent) ==
    CASE parent.verdict = "unrealizable" /\ parent.refused # {} ->
           {index \in weakenable : index[1] = "A" \/ index[2] \in parent.refused}
      [] parent.verdict = "realizable" ->
           {index \in weakenable : Differs(spec, parent.original, index)}
      [] OTHER -> {}

\* A guarantee weakens and an assumption strengthens, or the reverse where
\* the gate strengthens. A duplicate, or a free rewrite the gate refuses,
\* leaves the parent.
rewrite_slot(spec, index, gate, rate) ==
    LET side == index[1]
        direction == IF (side = "A") # (gate = "strengthen") THEN "strengthen" ELSE "weaken"
        rates == IF gate = "strengthen" THEN free_rewrite_rates(rate) ELSE rate
        Written(req) == [spec EXCEPT ![side][index[2]].req = req]
        Admitted(move, child) ==
            /\ ~creates_duplicate(child[side], index[2])
            /\ gate # "none" /\ move.free => admitted_by_gate(gate, spec, child, rate)
    IN  {IF Admitted(move, Written(move.req)) THEN Constructed(Written(move.req).A, Written(move.req).G)
                                              ELSE spec :
            move \in mutate_requirement(spec[side][index[2]].req, direction,
                                        collect_timing_pool(spec), rates)}

mutate_specification(spec, parent, rate) ==
    LET gate == gate_of(parent, rate)
        weakenable == collect_weakenable_indices(spec)
        targeted == IF "targeted" \in rate THEN targeted_mutation_slots(spec, weakenable, parent) ELSE {}
        slots == IF targeted = {} THEN weakenable ELSE targeted
        steps == IF gate = "strengthen" THEN steps_back(spec, parent, rate) ELSE {}
        acted == IF gate = "strengthen" THEN {} ELSE structural_action(spec, rate)
        rewritten == UNION {rewrite_slot(spec, index, gate, rate) : index \in slots}
    IN  acted \cup steps \cup IF weakenable = {} /\ steps = {} THEN {spec} ELSE rewritten
=============================================================================
