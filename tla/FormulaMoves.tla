---------------------------- MODULE FormulaMoves ----------------------------
(***************************************************************************)
(* How the search rewrites formulas: one rule at one node, which makes the   *)
(* whole weaker or stronger (src/src/genetic/monotone.cpp); freely, where a  *)
(* formula is propositional (genetic/mutation.cpp, crossover.cpp); and the   *)
(* sections of a TLSF specification, by mutation and crossover               *)
(* (src/src/tlsf/mutation.cpp, crossover.cpp). A draw is a choice: an        *)
(* operator is the set of what it may return. Every probability is neither   *)
(* none nor all.                                                             *)
(***************************************************************************)
EXTENDS Formulas

ElementsOf(seq) == {seq[i] : i \in DOMAIN seq}

\* The operands of a node under some other operand sets.
Rebuilt(f, operandSets) ==
    CASE operandSets = <<>> -> {f}
      [] Len(operandSets) = 1 -> {Un(kind(f), g) : g \in operandSets[1]}
      [] Len(operandSets) = 2 ->
             UNION {{Bin(kind(f), g, h) : g \in operandSets[1]} : h \in operandSets[2]}

\* The formula with another in the place of the subformula at a node.
RECURSIVE ReplacedAt(_, _, _, _)
ReplacedAt(nodes, root, site, g) ==
    LET node == nodes[root]
    IN  IF root = site THEN g
        ELSE IF node.type \in Unary THEN Un(node.type, ReplacedAt(nodes, node.left, site, g))
        ELSE IF node.type \in Binary
          THEN Bin(node.type, ReplacedAt(nodes, node.left, site, g),
                              ReplacedAt(nodes, node.right, site, g))
        ELSE <<node>>

Grafted(f, site, g) == ReplacedAt(f, Len(f), site, g)

Subformula(f, site) == extract_subtree(f, site)

\* The atoms of a pool, each also negated.
draw_literal(pool) ==
    UNION {{make_atom(a), Un("Not", make_atom(a))} : a \in ElementsOf(pool)}

-----------------------------------------------------------------------------
(* Monotone moves *)

flip(polarity) ==
    CASE polarity = "positive" -> "negative"
      [] polarity = "negative" -> "positive"
      [] OTHER -> "indeterminate"

\* Mutant of child_polarities: the sides of a biconditional are the formula's.
child_polaritiesOfIff(type, polarity) ==
    CASE type = "Not" -> <<flip(polarity), flip(polarity)>>
      [] type = "Implies" -> <<flip(polarity), polarity>>
      [] OTHER -> <<polarity, polarity>>

child_polarities(type, polarity) ==
    CASE type = "Not" -> <<flip(polarity), flip(polarity)>>
      [] type = "Implies" -> <<flip(polarity), polarity>>
      [] type = "Iff" -> <<"indeterminate", "indeterminate">>
      [] OTHER -> <<polarity, polarity>>

\* The nodes below a root that have a polarity, with it.
RECURSIVE collect_polarities(_, _, _)
collect_polarities(nodes, root, polarity) ==
    LET node == nodes[root]
        below == child_polarities(node.type, polarity)
    IN  {<<root, polarity>>}
        \cup (IF node.type \in Unary \cup Binary
                THEN collect_polarities(nodes, node.left, below[1]) ELSE {})
        \cup (IF node.type \in Binary
                THEN collect_polarities(nodes, node.right, below[2]) ELSE {})

rules_at(type, weaken) ==
    {"Constant", "AddOperand"} \cup
    CASE type = "And" -> IF weaken THEN {"DropOperand"} ELSE {}
      [] type = "Or" -> IF weaken THEN {} ELSE {"DropOperand"}
      [] type = "Globally" ->
             IF weaken THEN {"GloballyToEventually", "GloballyToInfinitelyOften"} ELSE {}
      [] type = "Eventually" -> IF weaken THEN {} ELSE {"EventuallyToGlobally"}
      [] type = "Until" -> IF weaken THEN {"UntilToWeakUntil"} ELSE {}
      [] type = "WeakUntil" -> IF weaken THEN {} ELSE {"WeakUntilToUntil"}
      [] type = "Iff" -> IF weaken THEN {"IffToImplies"} ELSE {"IffToConjunction"}
      [] type = "Release" -> IF weaken THEN {"ReleaseToConsequent"} ELSE {"ReleaseToGlobally"}
      [] type = "Next" -> IF weaken THEN {"NextToEventually"} ELSE {"NextToGlobally"}
      [] OTHER -> {}

apply_monotone_rule(f, rule, weaken, atoms) ==
    LET a == children(f)[1]
        b == children(f)[2]
    IN  CASE rule = "Constant" -> {IF weaken THEN True ELSE False}
          [] rule = "DropOperand" -> {a, b}
          [] rule = "AddOperand" ->
                 {Bin(IF weaken THEN "Or" ELSE "And", f, literal) : literal \in draw_literal(atoms)}
          [] rule \in {"GloballyToEventually", "NextToEventually"} -> {Un("Eventually", a)}
          [] rule = "GloballyToInfinitelyOften" -> {Un("Globally", f)}
          [] rule \in {"EventuallyToGlobally", "NextToGlobally"} -> {Un("Globally", a)}
          [] rule = "UntilToWeakUntil" -> {Bin("WeakUntil", a, b)}
          [] rule = "WeakUntilToUntil" -> {Bin("Until", a, b)}
          [] rule = "IffToImplies" -> {Bin("Implies", a, b), Bin("Implies", b, a)}
          [] rule = "ReleaseToConsequent" -> {b}
          [] rule = "ReleaseToGlobally" -> {Un("Globally", b)}
          [] rule = "IffToConjunction" ->
                 {Bin("And", a, b), Bin("And", Un("Not", a), Un("Not", b))}

\* One rule at one node that has a polarity; under a negative one the rules of
\* the other direction.
monotone_rewrites(f, weaken, atoms) ==
    UNION {LET here == (site[2] = "positive") = weaken
               g == Subformula(f, site[1])
           IN  UNION {{Grafted(f, site[1], h) : h \in apply_monotone_rule(g, rule, here, atoms)} :
                          rule \in rules_at(kind(g), here)} :
           site \in {s \in collect_polarities(f, Len(f), "positive") : s[2] # "indeterminate"}}

-----------------------------------------------------------------------------
(* Free rewrites of propositional formulas *)

PropositionalBinary == {"And", "Or", "Implies", "Iff"}

\* Another atom where the pool has one.
mutate_atom_name(name, atoms) ==
    LET n == Len(atoms)
    IN  IF name = "true" THEN {"false"} ELSE IF name = "false" THEN {"true"}
        ELSE IF n = 0 THEN {name}
        ELSE {IF atoms[i] = name THEN atoms[(i % n) + 1] ELSE atoms[i] : i \in 1..n}

\* Rename, negate, or graft a literal.
mutate_atom_formula(f, atoms) ==
    {make_atom(a) : a \in mutate_atom_name(Root(f).variable, atoms)} \cup {Un("Not", f)}
    \cup UNION {UNION {{Bin(k, anchor, f), Bin(k, f, anchor)} : anchor \in draw_literal(atoms)} :
                    k \in PropositionalBinary}

mutate_not_subtree(inner, atoms) ==
    {inner, Un("Not", inner)}
    \cup UNION {{Bin(k, make_atom(a), Un("Not", inner)) : a \in ElementsOf(atoms)} :
                    k \in PropositionalBinary}

mutate_binary_subtree(lhs, rhs) ==
    {lhs, rhs} \cup UNION {{Bin(k, lhs, rhs), Un("Not", Bin(k, lhs, rhs))} :
                               k \in PropositionalBinary}

\* The node of a formula mutated, where it is one that is.
MutatedNode(f, atoms) ==
    CASE IsAtom(f) -> mutate_atom_formula(f, atoms)
      [] kind(f) = "Not" -> mutate_not_subtree(child(f), atoms)
      [] kind(f) \in PropositionalBinary -> mutate_binary_subtree(children(f)[1], children(f)[2])
      [] OTHER -> {f}

\* Each node one time in as many as there are, the children first.
RECURSIVE MutatedNodes(_, _, _)
MutatedNodes(f, atoms, n_subformulas) ==
    LET operands == children(f)
        rebuilt == Rebuilt(f, [i \in DOMAIN operands |->
                                  MutatedNodes(operands[i], atoms, n_subformulas)])
    IN  (IF n_subformulas = 1 THEN {} ELSE rebuilt)
        \cup UNION {MutatedNode(g, atoms) : g \in rebuilt}

mutate_formula(f, atoms) ==
    {remove_double_negation(g) : g \in MutatedNodes(f, atoms, Len(f))}

\* The formula or one below it.
RECURSIVE select_subformula(_)
select_subformula(f) ==
    LET operands == children(f)
    IN  {f} \cup (IF is_propositional(f)
                    THEN UNION {select_subformula(operands[i]) : i \in DOMAIN operands} ELSE {})

replace_subformula(f, donor) ==
    UNION {{Grafted(f, site, g) : site \in DOMAIN f} : g \in select_subformula(donor)}

combine_subformula(f, donor) ==
    UNION {UNION {UNION {{Grafted(f, site, Bin(k, Subformula(f, site), g)),
                          Grafted(f, site, Bin(k, g, Subformula(f, site)))} : site \in DOMAIN f} :
                      g \in select_subformula(donor)} : k \in PropositionalBinary}

crossover_formula(f, donor) == replace_subformula(f, donor) \cup combine_subformula(f, donor)

-----------------------------------------------------------------------------
(* TLSF specifications: the signals and, by name, the sections' entries *)

Temporal == {"Next", "Eventually", "Globally", "Until", "Release", "WeakUntil"}

assumption_sections == <<"initially", "require", "assume">>

guarantee_sections == <<"preset", "assert", "guarantee">>

Sections == ElementsOf(assumption_sections) \cup ElementsOf(guarantee_sections)

Entry(f) == [formula |-> f, removed |-> FALSE]

live_indices(section) == {i \in DOMAIN section : ~section[i].removed}

live_slots(spec, names) ==
    UNION {{<<name, i>> : i \in live_indices(spec[name])} : name \in ElementsOf(names)}

count_live_guarantees(spec) == Cardinality(live_slots(spec, guarantee_sections))

side_atom_pool(spec) == spec.inputs \o spec.outputs

is_initial_condition_section(name) == name \in {"initially", "preset"}

section_atom_pool(spec, name) ==
    CASE name = "initially" -> spec.inputs
      [] name = "preset" -> spec.outputs
      [] OTHER -> side_atom_pool(spec)

pick_unary_kind == {"Not", "Next", "Eventually", "Globally"}

pick_binary_kind == {"And", "Or", "Until", "Release", "WeakUntil", "Implies"}

pick_connective_kind == {"Until", "WeakUntil", "And", "Or", "Implies"}

Wrapped(fs) == UNION {{Un(k, f) : f \in fs} : k \in pick_unary_kind}

Joined(kinds, fs, gs) == UNION {UNION {{Bin(k, f, g) : f \in fs} : g \in gs} : k \in kinds}

\* A rule at every node down to the atoms.
RECURSIVE mutate_temporal(_, _)
mutate_temporal(f, atoms) ==
    LET operands == children(f)
        inner == [i \in DOMAIN operands |-> mutate_temporal(operands[i], atoms)]
        Anchors == {make_atom(a) : a \in ElementsOf(atoms)}
        joined == Joined(pick_binary_kind, inner[1], inner[2])
    IN  CASE IsAtom(f) ->
                 Wrapped({f}) \cup {make_atom(a) : a \in mutate_atom_name(Root(f).variable, atoms)}
          [] kind(f) \in Unary ->
                 inner[1] \cup Wrapped(inner[1]) \cup Wrapped(Rebuilt(f, inner))
                 \cup Joined(pick_connective_kind, Anchors, Wrapped(inner[1]))
          [] kind(f) \in Binary ->
                 inner[1] \cup inner[2] \cup joined \cup Wrapped(joined) \cup Rebuilt(f, inner)

\* Freely below the temporal operators, which stay.
RECURSIVE mutate_propositional_parts(_, _)
mutate_propositional_parts(f, atoms) ==
    LET operands == children(f)
    IN  IF is_propositional(f) THEN mutate_formula(f, atoms)
        ELSE Rebuilt(f, [i \in DOMAIN operands |-> mutate_propositional_parts(operands[i], atoms)])

apply_consequent_modality(body) == {Un("Eventually", body), Un("Next", body), body}

\* A guard that is the consequent is turned around.
GuardFor(guard, consequent) ==
    IF guard = consequent THEN remove_double_negation(Un("Not", guard)) ELSE guard

Assuming(spec, f) == [spec EXCEPT !.assume = Append(@, Entry(f))]

\* A live assumption again, a fairness of an input, or one under a guard.
tlsf_add_assumption(spec) ==
    LET bodies == draw_literal(spec.inputs)
        Guarded(body) ==
            UNION {{Bin("Implies", GuardFor(guard, o), o) : guard \in draw_literal(side_atom_pool(spec))} :
                       o \in apply_consequent_modality(body)}
    IN  {Assuming(spec, spec.assume[i].formula) : i \in live_indices(spec.assume)}
        \cup (IF spec.inputs = <<>> THEN {spec} ELSE {})
        \cup {Assuming(spec, Un("Globally", Un("Eventually", body))) : body \in bodies}
        \cup UNION {{Assuming(spec, Un("Globally", g)) : g \in Guarded(body)} : body \in bodies}

tlsf_remove_guarantee(spec) ==
    {[spec EXCEPT ![slot[1]][slot[2]].removed = TRUE] : slot \in live_slots(spec, guarantee_sections)}

\* A slot rewritten, an initial condition without the temporal rewrites.
RewrittenSlot(spec, slot) ==
    LET name == slot[1]
        pool == section_atom_pool(spec, name)
        f == spec[name][slot[2]].formula
        rewritten == monotone_rewrites(f, TRUE, pool) \cup monotone_rewrites(f, FALSE, pool)
                     \cup mutate_propositional_parts(f, pool)
                     \cup (IF is_initial_condition_section(name) THEN {}
                           ELSE mutate_temporal(f, pool))
    IN  IF pool = <<>> THEN {spec}
        ELSE {[spec EXCEPT ![name][slot[2]].formula = g] : g \in rewritten}

\* The side drawn, or the other where it has nothing to rewrite.
tlsf_mutate(spec) ==
    LET slots == live_slots(spec, assumption_sections) \cup live_slots(spec, guarantee_sections)
    IN  (IF side_atom_pool(spec) # <<>> THEN tlsf_add_assumption(spec) ELSE {})
        \cup (IF count_live_guarantees(spec) > 1 THEN tlsf_remove_guarantee(spec) ELSE {})
        \cup (IF slots = {} THEN {spec} ELSE UNION {RewrittenSlot(spec, slot) : slot \in slots})

tlsf_simplify(spec) ==
    [name \in DOMAIN spec |->
        IF name \notin Sections THEN spec[name]
        ELSE [i \in DOMAIN spec[name] |->
                 IF spec[name][i].removed THEN spec[name][i]
                 ELSE [spec[name][i] EXCEPT !.formula = simplify(@)]]]

-----------------------------------------------------------------------------
(* Crossover of TLSF specifications *)

\* The subformulas a temporal operator is the root of, or the formula itself.
graft_sites(f) ==
    LET temporal == {Subformula(f, i) : i \in {j \in DOMAIN f : f[j].type \in Temporal}}
    IN  IF temporal = {} THEN {f} ELSE temporal

\* One occurrence, the first in post-order.
replace_first(f, pattern, g) ==
    LET at == {i \in DOMAIN f : Subformula(f, i) = pattern}
    IN  Grafted(f, CHOOSE i \in at : \A j \in at : i <= j, g)

\* A site gives way to a donor, or to the join of both.
Merged(into, from) ==
    LET Joins(site, donor) ==
            {donor, Bin("And", site, donor), Bin("Or", site, donor)}
            \cup UNION {{Bin(k, site, donor), Bin(k, donor, site)} : k \in {"Until", "WeakUntil"}}
    IN  UNION {UNION {{replace_first(into, site, g) : g \in Joins(site, donor)} :
                          donor \in graft_sites(from)} : site \in graft_sites(into)}

\* Mutant of donors_for: any conjunct of the side for every section.
donors_forAny(spec, names, name) ==
    {spec[slot[1]][slot[2]].formula : slot \in live_slots(spec, names)}

\* An initial condition takes its own section's only.
donors_for(spec, names, name) ==
    {spec[slot[1]][slot[2]].formula :
        slot \in {s \in live_slots(spec, names) : is_initial_condition_section(name) => s[1] = name}}

\* One conjunct of the side takes one of the other parent's.
cross_side(spec, other, names) ==
    LET Crossed(slot) ==
            LET donors == donors_for(other, names, slot[1])
            IN  IF donors = {} THEN {spec}
                ELSE UNION {{[spec EXCEPT ![slot[1]][slot[2]].formula = g] :
                                 g \in Merged(spec[slot[1]][slot[2]].formula, donor)} :
                                donor \in donors}
        slots == live_slots(spec, names)
    IN  IF slots = {} THEN {spec} ELSE UNION {Crossed(slot) : slot \in slots}

tlsf_crossover(a, b) ==
    IF a.inputs # b.inputs \/ a.outputs # b.outputs THEN {a}
    ELSE UNION {cross_side(half, b, guarantee_sections) :
                    half \in cross_side(a, b, assumption_sections)}
=============================================================================
