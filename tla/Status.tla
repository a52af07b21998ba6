------------------------------- MODULE Status -------------------------------
(***************************************************************************)
(* The status objective around the walk of MrsWalk: the screens before it, *)
(* the order it admits parts in, the AuRUS ladder, the parts the pool runs  *)
(* it as, and the gate of the output that reads it (src/src/fitness,        *)
(* src/src/filter and src/src/genetic/output_gate.cpp).                     *)
(*                                                                         *)
(* A specification has the sequences A and G of requirements, records of    *)
(* whether the condition and the response can be met, whether a stop may    *)
(* discharge the response, the words of the lowered formula (ltl), whether  *)
(* it names an output, and whether it was removed. A question is named for  *)
(* what it asks, and a checker leaves the questions of late undecided: it   *)
(* memoises that like any answer, so whoever asks again hears the same.     *)
(***************************************************************************)
EXTENDS Integers, FiniteSets, SequencesExt, TLC

CONSTANTS Word,     \* the words a specification is read on
          Plays     \* for each strategy of the system, the words it may play

live_indices(reqs) ==
    SelectSeq([i \in DOMAIN reqs |-> i], LAMBDA i : ~reqs[i].removed)

Live(reqs) == {i \in DOMAIN reqs : ~reqs[i].removed}

side_conjunction(reqs) == {w \in Word : \A i \in Live(reqs) : w \in reqs[i].ltl}

with_guarantee_subset(spec, kept) ==
    {w \in Word : \A i \in kept : w \in spec.G[i].ltl}

\* Some strategy plays only words on which the assumptions imply the guarantees.
Realizable(assumed, guaranteed) ==
    \E played \in Plays : played \cap assumed \subseteq guaranteed

Answer(question, truth, late) ==
    IF question \in late THEN "undecided" ELSE IF truth THEN "yes" ELSE "no"

-----------------------------------------------------------------------------
(* Well-separation *)

assumptions_reference_output(spec) == \E i \in Live(spec.A) : spec.A[i].names_output

\* Mutant of specification_is_not_well_separated: a timeout passes a candidate.
specification_is_not_well_separatedIfDecided(spec, late) ==
    /\ assumptions_reference_output(spec)
    /\ Answer(<<"separation">>, Realizable(side_conjunction(spec.A), {}), late) = "yes"

specification_is_not_well_separated(spec, late) ==
    /\ assumptions_reference_output(spec)
    /\ Answer(<<"separation">>, Realizable(side_conjunction(spec.A), {}), late) # "no"

subset_realizable(spec, slots, late) ==
    /\ Answer(<<"subset", slots>>,
              Realizable(side_conjunction(spec.A), with_guarantee_subset(spec, slots)),
              late) = "yes"
    /\ ~specification_is_not_well_separated(spec, late)

-----------------------------------------------------------------------------
(* The order of admission *)

\* Parts by how many others each cannot be held with, those that cannot be
\* held alone behind all others.
conflict_degree_order(spec, slots, late) ==
    LET n == Len(slots)
        held(positions) == subset_realizable(spec, {slots[p] : p \in positions}, late)
        degree == [p \in 1..n |-> Cardinality({q \in (1..n) \ {p} : ~held({p, q})})]
        rank == [p \in 1..n |-> IF held({p}) THEN degree[p] ELSE n + 1]
        order == [p \in 1..n |-> p]
    IN  IF n < 3 THEN order
        ELSE SortSeq(order, LAMBDA p, q : rank[p] < rank[q] \/ (rank[p] = rank[q] /\ p < q))

\* As slots, which survive the removal of a guarantee.
admission_order(original, late) ==
    LET slots == live_indices(original.G)
        positions == conflict_degree_order(original, slots, late)
    IN  [k \in DOMAIN positions |-> slots[positions[k]]]

\* Mutant of position_order_from_slots: a reference to positions.
position_order_from_slotsAsPositions(slot_order, slots) == slot_order

position_order_from_slots(slot_order, slots) ==
    LET named == {k \in DOMAIN slot_order : \E p \in DOMAIN slots : slots[p] = slot_order[k]}
        rank == [p \in DOMAIN slots |->
                    LET at == {k \in named : slot_order[k] = slots[p]}
                    IN  IF at = {} THEN Len(slot_order) + 1 ELSE Max(at)]
    IN  IF slot_order = <<>> THEN <<>>
        ELSE SortSeq([p \in DOMAIN slots |-> p],
                     LAMBDA p, q : rank[p] < rank[q] \/ (rank[p] = rank[q] /\ p < q))

project_admission_order(reference, n) ==
    LET first(k) == reference[k] <= n /\ \A j \in 1..k - 1 : reference[j] # reference[k]
        kept == SelectSeq([k \in DOMAIN reference |-> k], first)
        order == [k \in DOMAIN kept |-> reference[kept[k]]]
    IN  order \o SelectSeq([p \in 1..n |-> p], LAMBDA p : p \notin Range(order))

-----------------------------------------------------------------------------
(* The scores, as fractions *)

Zero == <<0, 1>>
One == <<1, 1>>

AtMost(score, other) == score[1] * other[2] <= other[1] * score[2]

IsOne(score) == score[1] = score[2]

Requirements(spec) == {<<"A", i>> : i \in Live(spec.A)} \cup {<<"G", i>> : i \in Live(spec.G)}

\* Conditions and responses apart, but for a response a stop may discharge.
specification_status_components(spec) ==
    {<<"condition", at>> : at \in Requirements(spec)}
      \cup {<<"response", at>> : at \in {r \in Requirements(spec) : ~spec[r[1]][r[2]].stops}}

component_failed(spec, component, late) ==
    LET req == spec[component[2][1]][component[2][2]]
    IN  Answer(component, req[component[1]] = "met", late) # "yes"

WholeSatisfiable(spec, late) ==
    Answer(<<"whole">>, side_conjunction(spec.A) \cap side_conjunction(spec.G) # {}, late)

\* Mutant of KeptBy: what is refused stays in the query of the next part.
KeptByNoneErased(spec, slots, order, late) ==
    FoldLeft(LAMBDA kept, part : kept \cup {part},
             {}, [k \in DOMAIN order |-> slots[order[k]]])

\* The walk of MrsWalk, over guarantees by their slots.
KeptBy(spec, slots, order, late) ==
    FoldLeft(LAMBDA kept, part :
                 IF subset_realizable(spec, kept \cup {part}, late) THEN kept \cup {part} ELSE kept,
             {}, [k \in DOMAIN order |-> slots[order[k]]])

status_score_mrs(spec, components, late, slot_order) ==
    LET slots == live_indices(spec.G)
        n == Len(slots)
        order == project_admission_order(position_order_from_slots(slot_order, slots), n)
        kept == KeptBy(spec, slots, order, late)
        screened == [score |-> Zero, refused |-> {}]
    IN  IF \E c \in components : component_failed(spec, c, late) THEN screened
        ELSE IF n = 0 THEN [score |-> One, refused |-> {}]
        ELSE IF WholeSatisfiable(spec, late) = "no" THEN screened
        ELSE [score |-> <<Cardinality(kept), n>>, refused |-> Range(slots) \ kept]

\* AuRUS's ladder: what both sides and their conjunction allow.
status_score_aurus(spec, late) ==
    LET assumptions == Answer(<<"side", "A">>, side_conjunction(spec.A) # {}, late)
        guarantees == Answer(<<"side", "G">>, side_conjunction(spec.G) # {}, late)
        jointly == WholeSatisfiable(spec, late)
        realizable == Answer(<<"subset", Live(spec.G)>>,
                             Realizable(side_conjunction(spec.A), side_conjunction(spec.G)), late)
    IN  IF "undecided" \in {assumptions, guarantees} THEN Zero
        ELSE IF assumptions = "no" /\ guarantees = "no" THEN Zero
        ELSE IF assumptions = "no" THEN <<5, 100>>
        ELSE IF guarantees = "no" THEN <<10, 100>>
        ELSE IF jointly = "undecided" THEN Zero
        ELSE IF jointly = "no" THEN <<20, 100>>
        ELSE IF Live(spec.G) = {} \/ realizable = "yes" THEN One ELSE <<50, 100>>

specification_status(spec, grading, late, slot_order, included) ==
    IF grading = "aurus" THEN [score |-> status_score_aurus(spec, late), refused |-> {}]
    ELSE status_score_mrs(spec, IF included THEN specification_status_components(spec) ELSE {},
                          late, slot_order)

-----------------------------------------------------------------------------
(* The parts the pool runs, and what is folded of them *)

\* Mutant of split_status: what the walk refused is told though a component failed.
split_statusRefusing(spec, grading, late, slot_order) ==
    LET walk == specification_status(spec, grading, late, slot_order, FALSE)
        failed == \E c \in specification_status_components(spec) : component_failed(spec, c, late)
    IN  [score |-> IF failed THEN Zero ELSE walk.score, refused |-> walk.refused]

split_status(spec, grading, late, slot_order) ==
    LET walk == specification_status(spec, grading, late, slot_order, FALSE)
        failed == \E c \in specification_status_components(spec) : component_failed(spec, c, late)
    IN  IF failed THEN [score |-> Zero, refused |-> {}] ELSE walk

-----------------------------------------------------------------------------
(* The gate of the output *)

specification_has_false_condition(spec) ==
    \E at \in Requirements(spec) : spec[at[1]][at[2]].condition = "false"

specification_has_valid_guarantee(spec, late) ==
    \E i \in Live(spec.G) : Answer(<<"falsifiable", i>>, spec.G[i].ltl # Word, late) = "no"

specification_has_unsatisfiable_assumptions(spec, late) ==
    /\ Live(spec.A) # {}
    /\ Answer(<<"side", "A">>, side_conjunction(spec.A) # {}, late) = "no"

specification_is_vacuous(spec, late) ==
    \/ specification_has_false_condition(spec)
    \/ specification_has_valid_guarantee(spec, late)
    \/ specification_has_unsatisfiable_assumptions(spec, late)

passes_output_gate(spec, grading, late) ==
    /\ IsOne(specification_status(spec, grading, late, <<>>, TRUE).score)
    /\ ~specification_is_vacuous(spec, late)
    /\ ~specification_is_not_well_separated(spec, late)

-----------------------------------------------------------------------------
(* Properties of one specification *)

Questions(spec) ==
    specification_status_components(spec)
      \cup {<<"whole">>, <<"separation">>, <<"side", "A">>, <<"side", "G">>}
      \cup {<<"falsifiable", i>> : i \in Live(spec.G)}
      \cup {<<"subset", S>> : S \in SUBSET Live(spec.G)}

\* Truly realizable, and for a real reason.
Repaired(spec) ==
    /\ Live(spec.G) # {} => Realizable(side_conjunction(spec.A), side_conjunction(spec.G))
    /\ assumptions_reference_output(spec) => ~Realizable(side_conjunction(spec.A), {})

\* "The serial walk never starts behind a failed component, so its refused set
\* is empty there; this one did run, and its set is discarded to match":
\* whatever is left undecided, the parts fold to what the serial score gives
\* (fitness/factory.hpp). On the AuRUS ladder they do not: the serial score has
\* no component tier there, the fold has.
SplitIsSerial(spec, late, slot_order) ==
    split_status(spec, "mrs", late, slot_order)
      = specification_status(spec, "mrs", late, slot_order, TRUE)

\* Whatever is left undecided, nothing passes the output gate that is not
\* realizable or whose assumptions the system can break; and nothing vacuous
\* does where all was decided (genetic/output_gate.cpp, filter/vacuity.cpp).
GateAdmitsRepairs(spec, grading, late) ==
    passes_output_gate(spec, grading, late) =>
        /\ Repaired(spec)
        /\ late = {} => /\ \A i \in Live(spec.G) : spec.G[i].ltl # Word
                        /\ Live(spec.A) # {} => side_conjunction(spec.A) # {}

\* "1.0 meaning realizable for a real reason", and no order of admission
\* decides whether it is reached: the gate walks in index order what was
\* scored in another (fitness/status.hpp, genetic/output_gate.cpp).
TopTierIsTruth(spec, slot_order) ==
    LET walk == specification_status(spec, "mrs", {}, slot_order, FALSE)
    IN  Live(spec.G) # {} =>
            (IsOne(walk.score) <=> /\ WholeSatisfiable(spec, {}) = "yes"
                                   /\ Repaired(spec))

\* The walk keeps a maximal set: each guarantee it refuses, and mutation then
\* aims at, cannot be held with all it kept.
KeptIsMaximal(spec, slot_order) ==
    LET walk == specification_status(spec, "mrs", {}, slot_order, TRUE)
        kept == Live(spec.G) \ walk.refused
    IN  walk.refused # {} =>
            /\ kept # {} => subset_realizable(spec, kept, {})
            /\ \A slot \in walk.refused : ~subset_realizable(spec, kept \cup {slot}, {})

\* "A timed-out query must not buy a candidate a point": unless the screen on
\* the whole is undecided, which passes, none buys the top tier; and unless a
\* step of the walk is, none buys any.
TimeoutsBuyNothing(spec, grading, late, slot_order) ==
    LET Score(undecided) ==
            specification_status(spec, grading, undecided, slot_order, TRUE).score
    IN  <<"whole">> \notin late =>
            /\ IsOne(Score(late)) => IsOne(Score({}))
            /\ (\A question \in late : question[1] # "subset") => AtMost(Score(late), Score({}))

WithoutSlots(spec, gone) ==
    [spec EXCEPT !.G = [i \in DOMAIN spec.G |->
        [spec.G[i] EXCEPT !.removed = @ \/ i \in gone]]]

\* The slots a candidate's walk tries, in its order.
Tried(spec, slot_order) ==
    LET slots == live_indices(spec.G)
        order == project_admission_order(position_order_from_slots(slot_order, slots), Len(slots))
    IN  [k \in DOMAIN order |-> slots[order[k]]]

\* "An order stored as positions would drift as mutation toggles them": two
\* guarantees are tried in the order of the original, whichever others were
\* removed, and each that is live is tried once.
OrderIsStable(original) ==
    LET slot_order == admission_order(original, {})
    IN  \A gone \in SUBSET DOMAIN original.G :
            LET tried == Tried(WithoutSlots(original, gone), slot_order)
            IN  tried = SelectSeq(slot_order, LAMBDA slot : slot \notin gone)
=============================================================================
