----------------------------- MODULE Similarity -----------------------------
(***************************************************************************)
(* How alike two formulas, requirements and specifications are: by what     *)
(* their texts share, for the syntactic objective, and by what they lie      *)
(* above in the orders of keywords, for the semantic one                     *)
(* (src/src/prop_formula/similarity.cpp, src/src/fitness/                    *)
(* syntactic_similarity.cpp, semantic_similarity.cpp). A score is a fraction. *)
(*                                                                           *)
(* The formulas of a requirement are arenas here, not names.                 *)
(***************************************************************************)
EXTENDS Formulas, Requirements

LOCAL INSTANCE SequencesExt

CONSTANT MaxIndex   \* the largest tick count a measure tells from the next

RECURSIVE Gcd(_, _)
Gcd(m, n) == IF n = 0 THEN m ELSE Gcd(n, m % n)

\* In lowest terms: equal scores are equal.
Fraction(n, d) == [n |-> n \div Gcd(n, d), d |-> d \div Gcd(n, d)]

One == Fraction(1, 1)

Zero == Fraction(0, 1)

Matches(condition) == IF condition THEN One ELSE Zero

Plus(x, y) == Fraction(x.n * y.d + y.n * x.d, x.d * y.d)

Over2(x) == Fraction(x.n, 2 * x.d)

RECURSIVE Total(_)
Total(scores) == IF scores = <<>> THEN Zero ELSE Plus(Head(scores), Total(Tail(scores)))

Mean(scores, n) == LET t == Total(scores) IN Fraction(t.n, n * t.d)

mean_or_perfect(scores) == IF scores = <<>> THEN One ELSE Mean(scores, Len(scores))

Least(m, n) == IF m < n THEN m ELSE n

Most(m, n) == IF m < n THEN n ELSE m

-----------------------------------------------------------------------------
(* Formulas *)

\* A subformula by its operator and the numbers of its operands.
SubformulaKey(node, ids) ==
    IF node.type = "Atom" THEN <<"Atom", node.variable>>
    ELSE <<node.type, ids[node.left], IF node.type \in Binary THEN ids[node.right] ELSE 0>>

\* The number of every node: one already in the pool, or the next.
RECURSIVE collect_subformula_ids(_, _, _)
collect_subformula_ids(nodes, pool, ids) ==
    LET key == SubformulaKey(nodes[Len(ids) + 1], ids)
        known == {k \in DOMAIN pool : pool[k] = key}
        id == IF known = {} THEN Len(pool) + 1 ELSE CHOOSE k \in known : TRUE
    IN  IF Len(ids) = Len(nodes) THEN [pool |-> pool, ids |-> ids]
        ELSE collect_subformula_ids(nodes, IF known = {} THEN Append(pool, key) ELSE pool,
                                    Append(ids, id))

RECURSIVE SumTo(_, _)
SumTo(counts, n) == IF n = 0 THEN 0 ELSE counts[n] + SumTo(counts, n - 1)

\* Each number as often as both have it.
SharedNumbers(ids, second) ==
    LET Times(numbers, id) == Cardinality({i \in DOMAIN numbers : numbers[i] = id})
    IN  SumTo([id \in DOMAIN second.pool |-> Least(Times(ids, id), Times(second.ids, id))],
              Len(second.pool))

SharedWith(first, g) ==
    SharedNumbers(first.ids, collect_subformula_ids(g, first.pool, <<>>))

count_shared_subformulae(f, g) == SharedWith(collect_subformula_ids(f, <<>>, <<>>), g)

\* The harmonic mean of the shares of the two.
formula_similarity(f, g) == Fraction(2 * count_shared_subformulae(f, g), Len(f) + Len(g))

-----------------------------------------------------------------------------
(* The orders of keywords, measured. A tick count n weighs 2^-n and any other *)
(* timing a hundredth, here as multiples of 2^-MaxIndex / 100.                *)

k_timing_discrete_weight == 2^MaxIndex

Geometric(n) == 100 * 2^(MaxIndex - n)

geo_sum_up_to(n) == IF n = 0 THEN 0 ELSE Geometric(0) - Geometric(n)

geo_sum_from(n) == 2 * Geometric(n)

max_for_index(t) == IF t.kind = "for" THEN t.n ELSE 0

\* Mutant of min_within_index: what comes after n ticks is within n.
min_within_indexSoon(t) ==
    CASE t.kind \in {"for", "immediately", "next"} -> 1
      [] t.kind \in {"within", "after"} -> t.n
      [] OTHER -> 0

\* 0 is none.
min_within_index(t) ==
    CASE t.kind \in {"for", "immediately", "next"} -> 1
      [] t.kind = "within" -> t.n
      [] t.kind = "after" -> t.n + 1
      [] OTHER -> 0

has_immediately(t) == t.kind \in {"for", "immediately"}

has_next_timepoint(t) == t.kind \in {"for", "next"}

Weighing(condition, weight) == IF condition THEN weight ELSE 0

mu_downset_always == 4 * k_timing_discrete_weight + 2 * geo_sum_from(1)

mu_downset(t) ==
    IF t.kind = "always" THEN mu_downset_always
    ELSE k_timing_discrete_weight + geo_sum_up_to(max_for_index(t))
         + Weighing(has_immediately(t), k_timing_discrete_weight)
         + Weighing(has_next_timepoint(t), k_timing_discrete_weight)
         + Weighing(min_within_index(t) > 0, geo_sum_from(min_within_index(t)))
         + Weighing(t.kind = "after", Geometric(t.n))

\* What both imply.
mu_intersection(t, u) ==
    LET always == "always" \in {t.kind, u.kind}
        other == IF t.kind = "always" THEN u ELSE t
        least == min_within_index(t) > 0 /\ min_within_index(u) > 0
    IN  IF always THEN mu_downset(other) - Weighing(other.kind = "after", Geometric(other.n))
        ELSE k_timing_discrete_weight
             + geo_sum_up_to(Least(max_for_index(t), max_for_index(u)))
             + Weighing(has_immediately(t) /\ has_immediately(u), k_timing_discrete_weight)
             + Weighing(has_next_timepoint(t) /\ has_next_timepoint(u), k_timing_discrete_weight)
             + Weighing(least, geo_sum_from(Most(min_within_index(t), min_within_index(u))))
             + Weighing(t.kind = "after" /\ t = u, Geometric(t.n))

HasStop(t) == t.kind \in {"until", "before"}

\* The only overlap across kinds is of until under always.
stop_timing_similarity(t, u) ==
    IF HasStop(t) /\ HasStop(u)
      THEN IF t.kind # u.kind THEN Zero ELSE Over2(Plus(One, formula_similarity(t.stop, u.stop)))
    ELSE IF {t.kind, u.kind} = {"always", "until"}
      THEN Fraction(k_timing_discrete_weight, mu_downset_always + k_timing_discrete_weight)
    ELSE Zero

timing_order_similarity(t, u) ==
    LET both == mu_intersection(t, u)
    IN  IF HasStop(t) \/ HasStop(u) THEN stop_timing_similarity(t, u)
        ELSE Fraction(both, mu_downset(t) + mu_downset(u) - both)

Regions == {"before", "in", "between", "after"}

\* The parts of a trace a scope is about, an only scope's outside its interval.
scope_regions(scope_kind) ==
    CASE scope_kind = "global" -> Regions
      [] scope_kind = "in" -> {"in"}
      [] scope_kind \in {"except in", "only in"} -> Regions \ {"in"}
      [] scope_kind \in {"before", "after"} -> {scope_kind}
      [] scope_kind = "only before" -> Regions \ {"before"}
      [] scope_kind = "only after" -> Regions \ {"after"}

tagged_regions(scope) == {<<scope.kind \in OnlyScopes, region>> : region \in scope_regions(scope.kind)}

region_similarity(s, t) ==
    Fraction(Cardinality(tagged_regions(s) \cap tagged_regions(t)),
             Cardinality(tagged_regions(s) \cup tagged_regions(t)))

scope_order_similarity(s, t) == Over2(Plus(region_similarity(s, t), Matches(s.mode = t.mode)))

condition_type_order_similarity(c, d) == IF c = d THEN One ELSE Fraction(1, 2)

keyword_order_similarity(req, other) ==
    Mean(<<timing_order_similarity(req.timing, other.timing),
           scope_order_similarity(req.scope, other.scope),
           condition_type_order_similarity(req.ctype, other.ctype)>>, 3)

-----------------------------------------------------------------------------
(* Keywords as words *)

timing_argument(t) ==
    CASE t.kind \in {"within", "for", "after"} -> "ticks"
      [] HasStop(t) -> "stop"
      [] OTHER -> "none"

argument_similarity(t, u) ==
    IF timing_argument(t) # timing_argument(u) THEN Zero
    ELSE IF timing_argument(t) = "ticks" THEN Matches(t.n = u.n)
    ELSE formula_similarity(t.stop, u.stop)

timing_token_similarity(t, u) ==
    IF {timing_argument(t), timing_argument(u)} = {"none"} THEN Matches(t.kind = u.kind)
    ELSE Over2(Plus(Matches(t.kind = u.kind), argument_similarity(t, u)))

scope_token_similarity(s, t) == Over2(Plus(Matches(s.kind = t.kind), Matches(s.mode = t.mode)))

condition_type_token_similarity(c, d) == Matches(c = d)

keyword_term(req, other, field) ==
    CASE field = "timing" -> timing_token_similarity(req.timing, other.timing)
      [] field = "scope" -> scope_token_similarity(req.scope, other.scope)
      [] field = "ctype" -> condition_type_token_similarity(req.ctype, other.ctype)

requirement_similarity(req, other) ==
    Mean(<<formula_similarity(req.condition, other.condition),
           formula_similarity(req.response, other.response),
           keyword_term(req, other, "timing"), keyword_term(req, other, "scope"),
           keyword_term(req, other, "ctype")>>, 5)

-----------------------------------------------------------------------------
(* Specifications: slots are compared with the slots of the same index *)

\* What is not removed, assumptions first.
Live(spec) ==
    LET Here(slot) == ~slot.removed IN SelectSeq(spec.A \o spec.G, Here)

conjoin(formulas) ==
    IF formulas = <<>> THEN True
    ELSE FoldLeft(LAMBDA so_far, f : Bin("And", so_far, f), Head(formulas), Tail(formulas))

conjoin_triggers(spec) == conjoin([i \in DOMAIN Live(spec) |-> Live(spec)[i].req.condition])

conjoin_responses(spec) == conjoin([i \in DOMAIN Live(spec) |-> Live(spec)[i].req.response])

\* The slots both have.
Common(side, other) == 1..Least(Len(side), Len(other))

pair_similarity(slot, other, field) ==
    IF slot.removed \/ other.removed THEN Matches(slot.removed /\ other.removed)
    ELSE keyword_term(slot.req, other.req, field)

\* Over the longer of each side's lists: a slot only one has counts for none.
average_keyword_similarity(spec, other, field) ==
    LET Side(s, t) == [i \in Common(s, t) |-> pair_similarity(s[i], t[i], field)]
        total == Most(Len(spec.A), Len(other.A)) + Most(Len(spec.G), Len(other.G))
    IN  IF total = 0 THEN Zero
        ELSE Mean(Side(spec.A, other.A) \o Side(spec.G, other.G), total)

syntactic_similarity(spec, other) ==
    Mean(<<formula_similarity(conjoin_triggers(spec), conjoin_triggers(other)),
           formula_similarity(conjoin_responses(spec), conjoin_responses(other)),
           average_keyword_similarity(spec, other, "timing"),
           average_keyword_similarity(spec, other, "scope"),
           average_keyword_similarity(spec, other, "ctype")>>, 5)

\* The slots that differ, and whether either of them is removed.
changed_requirement_pairs(spec, other) ==
    LET Changed(s, t) == SelectSeq([i \in Common(s, t) |-> <<s[i], t[i]>>],
                                   LAMBDA pair : pair[1] # pair[2])
    IN  Changed(spec.A, other.A) \o Changed(spec.G, other.G)

\* A pair's counts may say anything: what is left is its keywords' term and
\* the score counted for it.
semantic_pair_similarity(req, other, counted) ==
    Over2(Plus(counted, keyword_order_similarity(req, other)))

semantic_similarity_terms(spec, other, counted) ==
    LET pairs == changed_requirement_pairs(spec, other)
    IN  [k \in DOMAIN pairs |->
            IF pairs[k][1].removed \/ pairs[k][2].removed THEN Zero
            ELSE semantic_pair_similarity(pairs[k][1].req, pairs[k][2].req, counted)]

semantic_similarity(spec, other, counted) ==
    mean_or_perfect(semantic_similarity_terms(spec, other, counted))
=============================================================================
