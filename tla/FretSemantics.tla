---------------------------- MODULE FretSemantics ----------------------------
(***************************************************************************)
(* What FRET means by a requirement, read off the intervals of its scope in *)
(* time instead of off a formula: an interval starts somewhere, ends at its *)
(* last point or never, and an obligation is due within it or not at all.   *)
(* Against it, whether what the rules say of requirements and of            *)
(* specifications holds of every word, read through the lowering.           *)
(***************************************************************************)
EXTENDS Fretish

\* Time runs past every position twice, so each interval and each edge is seen.
Horizon == 2 * Len(word) + 1

Time == 0..Horizon

\* Positions are from 1, time from 0.
Sees(t, formula) == word[After(1, t)] \in formula

Of(formula) == IF formula = NoFormula THEN {} ELSE Models[formula]

Never == -1

Rising(S) == {t \in Time : Sees(t, S) /\ (t > 0 => ~Sees(t - 1, S))}

EndsAt(S, t) == Sees(t, S) /\ ~Sees(t + 1, S)

Earliest(S) == {t \in S : \A u \in S : t <= u}

\* The first point from start on at which S ends.
Last(S, start) ==
    LET ends == {t \in start..start + Len(word) : EndsAt(S, t)}
    IN  IF ends = {} THEN Never ELSE CHOOSE t \in Earliest(ends) : TRUE

Runs(S) == {[first |-> t, last |-> Last(S, t)] : t \in Rising(S)}

Onwards(starts) == {[first |-> t, last |-> Never] : t \in starts}

\* The intervals a scope enforces over, the complement's for an only scope.
Intervals(scope) ==
    LET m == Of(scope.mode)
        notm == Letter \ m
    IN  CASE scope.kind = "global" -> Onwards({0})
          [] scope.kind = "in" -> Runs(m)
          [] scope.kind \in {"except in", "only in"} -> Runs(notm)
          [] scope.kind = "before" -> {i \in Runs(notm) : i.first = 0}
          [] scope.kind = "after" ->
               Onwards({t + 1 : t \in Earliest({t \in Time : EndsAt(m, t)})})
          [] scope.kind = "only before" -> Onwards(Earliest(Rising(m)))
          [] scope.kind = "only after" -> {[first |-> 0, last |-> Last(m, 0)]}

Inside(t, interval) == t >= interval.first /\ (interval.last # Never => t <= interval.last)

\* The points of an interval from t on, all that differ.
Rest(t, interval) == {u \in t..t + Len(word) : Inside(u, interval)}

WithinOf(t, n, interval, f) ==
    (\E u \in t..t + n : Inside(u, interval) /\ Sees(u, f)) \/ ~Inside(t + n, interval)

ForOf(t, n, interval, f) == \A u \in t..t + n : Inside(u, interval) => Sees(u, f)

\* What a timing asks at t, of the response f.
Due(timing, t, interval, f) ==
    LET rest == Rest(t, interval)
        Stops(u) == Sees(u, Of(timing.stop))
    IN  CASE timing.kind = "immediately" -> Sees(t, f)
          [] timing.kind = "next" -> Inside(t + 1, interval) => Sees(t + 1, f)
          [] timing.kind = "within" -> WithinOf(t, timing.n, interval, f)
          [] timing.kind = "for" -> ForOf(t, timing.n, interval, f)
          [] timing.kind = "after" -> /\ ForOf(t, timing.n, interval, Letter \ f)
                                      /\ WithinOf(t, timing.n + 1, interval, f)
          [] timing.kind = "eventually" -> \E u \in rest : Sees(u, f)
          [] timing.kind = "always" -> \A u \in rest : Sees(u, f)
          [] timing.kind = "until" ->
               \A u \in rest : (\A v \in t..u : ~Stops(v)) => Sees(u, f)
          [] timing.kind = "before" ->
               \A u \in rest : Stops(u) => \E v \in t..u - 1 : Sees(v, f)

\* What an only scope asks: that the response not be delivered on the timing.
NotDue(timing, t, interval, f) ==
    LET notf == Letter \ f
        n == timing.n
    IN  CASE timing.kind = "within" -> ForOf(t, n, interval, notf)
          [] timing.kind = "for" -> WithinOf(t, n, interval, notf)
          [] timing.kind = "after" -> \/ WithinOf(t, n, interval, f)
                                      \/ ForOf(t, n + 1, interval, notf)
          [] timing.kind = "eventually" -> \A u \in Rest(t, interval) : Sees(u, notf)
          [] timing.kind = "always" -> \E u \in Rest(t, interval) : Sees(u, notf)
          [] timing.kind = "until" -> Due(Stopped("before", timing.stop), t, interval, notf)
          [] timing.kind = "before" -> Due(Stopped("until", timing.stop), t, interval, notf)
          [] OTHER -> Due(timing, t, interval, notf)

\* The points of an interval a condition asks at.
Activations(req, interval) ==
    LET points == {t \in interval.first..interval.first + Horizon : Inside(t, interval)}
    IN  IF req.ctype = "continual" THEN {t \in points : Sees(t, Of(req.condition))}
        ELSE {t \in points : /\ Sees(t, Of(req.condition))
                             /\ t > interval.first => ~Sees(t - 1, Of(req.condition))}

Means(req) ==
    \A interval \in Intervals(req.scope) :
        \A t \in Activations(req, interval) :
            IF req.scope.kind \in OnlyScopes
              THEN NotDue(req.timing, t, interval, Of(req.response))
              ELSE Due(req.timing, t, interval, Of(req.response))

-----------------------------------------------------------------------------
(* Properties *)

\* The requirements weaker by their timing alone. The loader reads a bound of
\* no ticks as "immediately", and the order is of positive ones.
WeakerInTiming(req) ==
    {r \in Requirement : /\ r # req /\ r = [req EXCEPT !.timing = r.timing]
                         /\ ~is_zero_tick_bound(req.timing) /\ ~is_zero_tick_bound(r.timing)
                         /\ timing_implies(req.timing, r.timing, req.scope.kind)}

WeakerInScope(req) ==
    {r \in Requirement : /\ r # req /\ r = [req EXCEPT !.scope = r.scope]
                         /\ scope_implies(req.scope, r.scope, req.timing, req.ctype)}

WeakerByOrder ==
    UNION {{<<req, r>> : r \in WeakerInTiming(req) \cup WeakerInScope(req)} : req \in Requirement}

\* The lowered formula holds of a word exactly when the requirement, as FRET
\* means it, does: for every scope, condition type and timing, where an
\* interval is cut off before a bounded obligation is due, opens again, never
\* closes or never opens.
LoweringAgrees == \A req \in Requirement : Satisfied(req) <=> Means(req)

\* "An edge holds for any condition, response, mode and stop": a requirement
\* that a word satisfies it satisfies with a weaker timing too.
\* And under a weaker scope, at its own timing and condition type.
OrdersAgree ==
    LET holding == Holding(Requirement)
    IN  \A pair \in WeakerByOrder : pair[1] \in holding => pair[2] \in holding

-----------------------------------------------------------------------------
(* The rules *)

CONSTANTS
    Ruled,              \* requirements the rules compare
    Specification       \* records of the slots of A and of G, each a requirement
                        \* and whether it was removed

\* to_ltl: the live assumptions imply the live guarantees.
Meets(spec) ==
    (\A slot \in live_in(spec.A) : Satisfied(spec.A[slot].req))
      => \A slot \in live_in(spec.G) : Satisfied(spec.G[slot].req)

\* The specifications of S that the word meets.
Met(S) == UNION {IF Meets(spec) THEN {spec} ELSE {} : spec \in S}

Weaker(req) == {r \in Ruled \ {req} : requirement_implies(req, r)}

Implied == UNION {{<<req, r>> : r \in Weaker(req)} : req \in Ruled}

\* A word that satisfies a requirement satisfies every requirement the rules
\* say it implies, whatever order the fields were moved in.
RulesAreSound ==
    LET holding == Holding(Ruled)
    IN  \A pair \in Implied : pair[1] \in holding => pair[2] \in holding

Entailed(from) == {dest \in Specification : spec_implies_by_rule(from, dest)}

ByRule == UNION {{<<from, dest>> : dest \in Entailed(from)} : from \in Specification}

\* And so for specifications, whose slots pair by index, tombstones included.
SpecificationRulesAreSound ==
    LET met == Met(Specification)
    IN  \A pair \in ByRule : pair[1] \in met => pair[2] \in met

Residuals ==
    {<<pair[1], pair[2], residual_destination(pair[1], pair[2])>> :
        pair \in Specification \X Specification}

Asked == Specification \cup {query[3] : query \in Residuals}

\* "A & !B and A & !B' hold on the same traces": dropping the guarantees that
\* from gives leaves the query the answer it had, though B' is weaker than B.
ResidualKeepsTheAnswer ==
    LET met == Met(Asked)
    IN  \A query \in Residuals :
            query[1] \in met => (query[2] \in met <=> query[3] \in met)
=============================================================================
