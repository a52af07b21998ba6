-------------------------------- MODULE Tlsf --------------------------------
(***************************************************************************)
(* A TLSF specification: the formula it is lowered to, the two sides a        *)
(* verdict on it is kept under, the parts its guarantees are graded by, the   *)
(* core of them that cannot be realized, what the implication filter leaves   *)
(* of a question about two of them, and how alike they are                    *)
(* (src/src/tlsf/specification.cpp, guarantee_parts.cpp, mucs.cpp,            *)
(* filter.cpp, fitness.cpp).                                                  *)
(*                                                                           *)
(* A specification is a record of its semantics, its signals and, by name,    *)
(* its six sections, as in FormulaMoves.                                      *)
(***************************************************************************)
EXTENDS FormulaMoves, Similarity

LOCAL INSTANCE SequencesExt

live_formulae(section) ==
    LET Here(entry) == ~entry.removed
        live == SelectSeq(section, Here)
    IN  [i \in DOMAIN live |-> live[i].formula]

Strict(spec) == spec.semantics \in {"MealyStrict", "MooreStrict"}

-----------------------------------------------------------------------------
(* The lowering *)

conj(formulas) == conjoin(formulas)

globally_of(formulas) == Un("Globally", conj(formulas))

\* A term, left out where there is nothing to say.
TermOf(formulas, term) == IF formulas = <<>> THEN <<>> ELSE <<term>>

\* Mutant of side_implication: what is guaranteed is owed whatever is assumed.
side_implicationBare(antecedent, consequent) == TermOf(consequent, conj(consequent))

\* An empty consequent leaves nothing, an empty antecedent the consequent.
side_implication(antecedent, consequent) ==
    TermOf(consequent, IF antecedent = <<>> THEN conj(consequent)
                       ELSE Bin("Implies", conj(antecedent), conj(consequent)))

to_ltl_formula(spec) ==
    LET initially == live_formulae(spec.initially)
        preset == live_formulae(spec.preset)
        require == live_formulae(spec.require)
        assume == live_formulae(spec.assume)
        assert == live_formulae(spec.assert)
        guarantee == live_formulae(spec.guarantee)
        antecedent == TermOf(require, globally_of(require)) \o TermOf(assume, conj(assume))
        invariant == TermOf(assert, globally_of(assert))
        guarded == TermOf(assert, Bin("WeakUntil", conj(assert), Un("Not", conj(require))))
        consequent == (IF Strict(spec) THEN <<>> ELSE invariant) \o TermOf(guarantee, conj(guarantee))
        body == conj(TermOf(preset, conj(preset)) \o (IF Strict(spec) THEN guarded ELSE <<>>)
                     \o side_implication(antecedent, consequent))
    IN  IF initially = <<>> THEN body ELSE Bin("Implies", conj(initially), body)

\* One side flat, its invariant section globally.
collect_side(verbatim_first, invariant, verbatim_last) ==
    conj(TermOf(verbatim_first, conj(verbatim_first)) \o TermOf(invariant, globally_of(invariant))
         \o TermOf(verbatim_last, conj(verbatim_last)))

assumption_ltl(spec) ==
    collect_side(live_formulae(spec.initially), live_formulae(spec.require),
                 live_formulae(spec.assume))

guarantee_ltl(spec) ==
    collect_side(live_formulae(spec.preset), live_formulae(spec.assert),
                 live_formulae(spec.guarantee))

\* What a verdict is kept under: each side's live conjuncts, a section's its own.
specification_sides(spec) ==
    LET Tagged(names) == {<<slot[1], spec[slot[1]][slot[2]].formula>> : slot \in live_slots(spec, names)}
    IN  [A |-> Tagged(assumption_sections), G |-> Tagged(guarantee_sections),
         scope |-> spec.semantics]

-----------------------------------------------------------------------------
(* Parts and cores: formulas of the guarantee side, each with its section *)

Concat(seqs) == FoldLeft(LAMBDA so_far, seq : so_far \o seq, <<>>, seqs)

Part(name, f) == [section |-> name, formula |-> f]

\* A conjunction, plain or under one globally, is split; nothing else is.
RECURSIVE split_into(_)
split_into(f) ==
    LET operands == children(f)
        Spread == kind(f) = "Globally" /\ kind(operands[1]) = "And"
        inner == children(operands[1])
    IN  CASE kind(f) = "And" -> split_into(operands[1]) \o split_into(operands[2])
          [] Spread -> split_into(Un("Globally", inner[1])) \o split_into(Un("Globally", inner[2]))
          [] OTHER -> <<f>>

append_section(section, name) ==
    LET live == live_formulae(section)
        parts == Concat([i \in DOMAIN live |-> split_into(live[i])])
    IN  [i \in DOMAIN parts |-> Part(name, parts[i])]

split_guarantee_parts(spec) ==
    Concat([k \in 1..3 |-> append_section(spec[guarantee_sections[k]], guarantee_sections[k])])

\* A guarantee side of some parts, each back in its section.
append_by_section(spec, parts) ==
    [name \in DOMAIN spec |->
        IF name \notin ElementsOf(guarantee_sections) THEN spec[name]
        ELSE LET Here(part) == part.section = name
                 own == SelectSeq(parts, Here)
             IN  [i \in DOMAIN own |-> Entry(own[i].formula)]]

\* The subset is a new specification, of the first of the semantics.
build_part_subset(spec, parts, indices) ==
    append_by_section([spec EXCEPT !.semantics = "MealyStandard"],
                      [k \in DOMAIN indices |-> parts[indices[k]]])

guarantee_side_candidates(spec) ==
    Concat([k \in 1..3 |->
        LET live == live_formulae(spec[guarantee_sections[k]])
        IN  [i \in DOMAIN live |-> Part(guarantee_sections[k], live[i])]])

build_candidate_spec(base, subset) == append_by_section(base, subset)

\* The sides of guarantees a tool finds realizable are a parameter.
is_conflict(base, active, realizable) ==
    specification_sides(build_candidate_spec(base, active)).G \notin realizable

\* Mutant of quickxplain: the left is looked at with all of the right.
RECURSIVE quickxplainWhole(_, _, _, _, _)
quickxplainWhole(base, background, background_grew, candidates, realizable) ==
    LET mid == Len(candidates) \div 2
        left == SubSeq(candidates, 1, mid)
        right == SubSeq(candidates, mid + 1, Len(candidates))
    IN  IF background_grew /\ is_conflict(base, background, realizable) THEN <<>>
        ELSE IF Len(candidates) = 1 THEN candidates
        ELSE quickxplainWhole(base, background \o right, TRUE, left, realizable)
             \o quickxplainWhole(base, background \o left, TRUE, right, realizable)

\* What of the candidates is still a conflict with the background, and least.
RECURSIVE quickxplain(_, _, _, _, _)
quickxplain(base, background, background_grew, candidates, realizable) ==
    LET mid == Len(candidates) \div 2
        left == SubSeq(candidates, 1, mid)
        right == SubSeq(candidates, mid + 1, Len(candidates))
        right_core == quickxplain(base, background \o left, left # <<>>, right, realizable)
        left_core == quickxplain(base, background \o right_core, right_core # <<>>, left, realizable)
    IN  IF background_grew /\ is_conflict(base, background, realizable) THEN <<>>
        ELSE IF Len(candidates) = 1 THEN candidates
        ELSE left_core \o right_core

\* The guarantees that are a conflict alone, where they are looked at at all.
screen_singletons(base, candidates, realizable, max_in_flight) ==
    {i \in DOMAIN candidates :
        /\ max_in_flight > 1 /\ Len(candidates) >= 2
        /\ is_conflict(base, <<candidates[i]>>, realizable)}

\* Of those the first is the core.
extract_muc(spec, realizable, max_in_flight) ==
    LET candidates == guarantee_side_candidates(spec)
        single == screen_singletons(spec, candidates, realizable, max_in_flight)
    IN  CASE candidates = <<>> -> <<>>
          [] candidates # <<>> /\ single # {} ->
               <<candidates[CHOOSE i \in single : \A j \in single : i <= j]>>
          [] candidates # <<>> /\ single = {} ->
               quickxplain(spec, <<>>, FALSE, candidates, realizable)

-----------------------------------------------------------------------------
(* What the implication filter asks *)

\* As often as they are there.
sorted_live(section) ==
    LET live == live_formulae(section)
    IN  [f \in ElementsOf(live) |-> Cardinality({i \in DOMAIN live : live[i] = f})]

drop_shared(from, dest) ==
    [i \in DOMAIN dest |->
        [dest[i] EXCEPT !.removed = @ \/ dest[i].formula \in ElementsOf(live_formulae(from))]]

\* What is left to ask where the sides assumed are the same, or nothing.
tlsf_residual_destination(from, dest) ==
    LET residual == [name \in DOMAIN dest |->
                        IF name \in ElementsOf(guarantee_sections)
                          THEN drop_shared(from[name], dest[name]) ELSE dest[name]]
        same == /\ from.semantics = dest.semantics
                /\ \A name \in ElementsOf(assumption_sections) :
                       sorted_live(from[name]) = sorted_live(dest[name])
    IN  IF same /\ residual # dest THEN {residual} ELSE {}

\* What is asked of a tool, or nothing where the answer is yes without one.
tlsf_spec_implies(from, dest) ==
    LET residual == tlsf_residual_destination(from, dest)
        target == IF residual = {} THEN dest ELSE CHOOSE r \in residual : TRUE
    IN  IF from = dest \/ (residual # {} /\ count_live_guarantees(target) = 0) THEN {}
        ELSE {[holds |-> to_ltl_formula(from), fails |-> to_ltl_formula(target)]}

-----------------------------------------------------------------------------
(* Scores *)

sections_of == <<"initially", "preset", "require", "assume", "assert", "guarantee">>

\* The slots both have, section by section.
SlotPairs(spec, original) ==
    Concat([k \in 1..6 |->
        LET lhs == spec[sections_of[k]]
            rhs == original[sections_of[k]]
        IN  [i \in Common(lhs, rhs) |-> <<lhs[i], rhs[i]>>]])

tlsf_syntactic_similarity(spec, original) ==
    LET pairs == SlotPairs(spec, original)
        scores == [k \in DOMAIN pairs |->
                      IF pairs[k][1].removed \/ pairs[k][2].removed
                        THEN Matches(pairs[k][1].removed /\ pairs[k][2].removed)
                      ELSE formula_similarity(pairs[k][1].formula, pairs[k][2].formula)]
        n_pairs == SumTo([k \in 1..6 |-> Most(Len(spec[sections_of[k]]),
                                              Len(original[sections_of[k]]))], 6)
    IN  IF n_pairs = 0 THEN One ELSE Mean(scores, n_pairs)

\* The terms of the slots that differ, the score counted for a pair free.
tlsf_semantic_similarity_terms(spec, original, counted) ==
    LET changed == SelectSeq(SlotPairs(spec, original), LAMBDA pair : pair[1] # pair[2])
    IN  [k \in DOMAIN changed |->
            IF changed[k][1].removed \/ changed[k][2].removed THEN Zero ELSE counted]

tlsf_semantic_similarity(spec, original, counted) ==
    mean_or_perfect(tlsf_semantic_similarity_terms(spec, original, counted))
=============================================================================
