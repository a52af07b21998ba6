------------------------------ MODULE Formulas ------------------------------
(***************************************************************************)
(* Formulas of linear temporal logic as src/src/prop_formula holds them: an *)
(* arena of nodes in post-order, the root last, each node naming its        *)
(* children by their places. Built, taken apart, ordered, rendered, parsed, *)
(* rewritten to a simpler one and to a normal form.                         *)
(***************************************************************************)
EXTENDS Integers, Sequences, FiniteSets, TLC

CONSTANTS
    Names,          \* the atoms' names, as strings are ordered
    FreshNames      \* the names the keys give atoms, of each kind in order

Unary == {"Not", "Next", "Eventually", "Globally"}

Binary == {"And", "Or", "Implies", "Iff", "Until", "Release", "WeakUntil"}

\* A kind's place, the temporal ones last.
KindOrder == <<"Atom", "Not", "And", "Or", "Implies", "Iff", "Next", "Eventually", "Globally",
               "Until", "Release", "WeakUntil">>

PlaceIn(seq, e) == CHOOSE i \in DOMAIN seq : seq[i] = e

Node(type, variable, left, right) ==
    [type |-> type, variable |-> variable, left |-> left, right |-> right]

make_atom(name) == <<Node("Atom", name, 0, 0)>>

build_unary_arena(type, child) == Append(child, Node(type, "", Len(child), 0))

build_binary_arena(type, left, right) ==
    LET n == Len(left)
        Moved(node) == [node EXCEPT !.left = IF @ = 0 THEN 0 ELSE @ + n,
                                    !.right = IF @ = 0 THEN 0 ELSE @ + n]
    IN  left \o [i \in DOMAIN right |-> Moved(right[i])]
             \o <<Node(type, "", n, n + Len(right))>>

RECURSIVE extract_subtree(_, _)
extract_subtree(nodes, root) ==
    LET node == nodes[root]
    IN  IF node.type \in Unary
          THEN build_unary_arena(node.type, extract_subtree(nodes, node.left))
        ELSE IF node.type \in Binary
          THEN build_binary_arena(node.type, extract_subtree(nodes, node.left),
                                  extract_subtree(nodes, node.right))
        ELSE <<node>>

Root(f) == f[Len(f)]

kind(f) == Root(f).type

\* The operands of the root, as formulas of their own.
children(f) ==
    LET root == Root(f)
        at == IF root.type \in Unary THEN <<root.left>>
              ELSE IF root.type \in Binary THEN <<root.left, root.right>> ELSE <<>>
    IN  [i \in DOMAIN at |-> extract_subtree(f, at[i])]

child(f) == children(f)[1]

IsAtom(f) == kind(f) = "Atom"

Un(type, f) == build_unary_arena(type, f)

Bin(type, f, g) == build_binary_arena(type, f, g)

\* A node of a kind over some operands.
Over(type, operands) ==
    IF Len(operands) = 1 THEN Un(type, operands[1]) ELSE Bin(type, operands[1], operands[2])

True == make_atom("true")

False == make_atom("false")

is_propositional(f) ==
    \A i \in DOMAIN f : f[i].type \in {"Atom", "Not", "And", "Or", "Implies", "Iff"}

AtomsOf(f) == {node.variable : node \in {f[i] : i \in {j \in DOMAIN f : f[j].type = "Atom"}}}

\* A node's fields in the order they are compared in.
Rank(node) ==
    <<PlaceIn(KindOrder, node.type), IF node.type = "Atom" THEN PlaceIn(Names, node.variable) ELSE 0,
      node.left, node.right>>

FirstDifference(s, t) ==
    LET differing == {i \in DOMAIN s \cap DOMAIN t : s[i] # t[i]}
    IN  {i \in differing : \A j \in differing : i <= j}

NodeLess(m, n) == \E i \in FirstDifference(Rank(m), Rank(n)) : Rank(m)[i] < Rank(n)[i]

ArenaLess(f, g) ==
    LET at == FirstDifference(f, g)
    IN  IF at = {} THEN Len(f) < Len(g) ELSE \E i \in at : NodeLess(f[i], g[i])

-----------------------------------------------------------------------------
(* Rendering and parsing, of tokens *)

Symbol(type) ==
    CASE type = "Not" -> "!" [] type = "Next" -> "X"
      [] type = "Eventually" -> "F" [] type = "Globally" -> "G"
      [] type = "And" -> "&" [] type = "Or" -> "|"
      [] type = "Implies" -> "->" [] type = "Iff" -> "<->"
      [] type = "Until" -> "U" [] type = "Release" -> "R" [] type = "WeakUntil" -> "W"

\* Every operand in parentheses.
RECURSIVE to_string(_)
to_string(f) ==
    LET Enclosed(g) == <<"(">> \o to_string(g) \o <<")">>
        operands == children(f)
    IN  CASE IsAtom(f) -> <<Root(f).variable>>
          [] kind(f) \in Unary -> <<Symbol(kind(f))>> \o Enclosed(operands[1])
          [] kind(f) \in Binary ->
               Enclosed(operands[1]) \o <<Symbol(kind(f))>> \o Enclosed(operands[2])

\* The binary operators a production reads, from the loosest.
LevelKinds == <<{"Iff"}, {"Implies"}, {"Or"}, {"And"}, {"Until", "Release", "WeakUntil"}>>

\* What is left to read, the nodes so far and whether any of it failed.
Reading(text, nodes, failed) == [text |-> text, nodes |-> nodes, failed |-> failed]

NextIs(p, token) == p.text # <<>> /\ Head(p.text) = token

Past(p) == [p EXCEPT !.text = Tail(@)]

push_unary(p, type) == [p EXCEPT !.nodes = Append(@, Node(type, "", Len(@), 0))]

push_binary(p, type, lhs) == [p EXCEPT !.nodes = Append(@, Node(type, "", lhs, Len(@)))]

parse_variable(p) ==
    IF p.text = <<>> THEN Reading(<<>>, Append(p.nodes, Node("Atom", "", 0, 0)), TRUE)
    ELSE Reading(Tail(p.text), Append(p.nodes, Node("Atom", Head(p.text), 0, 0)),
            p.failed \/ Head(p.text) \in {")", "&", "|", "->", "<->"})

RECURSIVE parse_level(_, _), parse_rest(_, _), parse_unary(_)
parse_unary(p) ==
    LET named == {type \in {"Next", "Eventually", "Globally"} : NextIs(p, Symbol(type))}
    IN  IF NextIs(p, "!") \/ NextIs(p, "~") THEN push_unary(parse_unary(Past(p)), "Not")
        ELSE IF named # {}
          THEN push_unary(parse_unary(Past(p)), CHOOSE type \in named : TRUE)
        ELSE IF NextIs(p, "(")
          THEN LET inner == parse_level(1, Past(p))
               IN  IF NextIs(inner, ")") THEN Past(inner) ELSE [inner EXCEPT !.failed = TRUE]
        ELSE parse_variable(p)

\* From the iff of the loosest production down to the unary ones.
parse_level(level, p) ==
    IF level > Len(LevelKinds) THEN parse_unary(p) ELSE parse_rest(level, parse_level(level + 1, p))

\* Implication associates to the right, the others to the left.
parse_rest(level, p) ==
    LET read == {type \in LevelKinds[level] : NextIs(p, Symbol(type))}
        rhs == parse_level(IF level = 2 THEN 2 ELSE level + 1, Past(p))
    IN  IF read = {} THEN p
        ELSE parse_rest(level, push_binary(rhs, CHOOSE type \in read : TRUE, Len(p.nodes)))

parse(text) ==
    LET p == parse_level(1, Reading(text, <<>>, FALSE))
    IN  [p EXCEPT !.failed = @ \/ p.text # <<>>]

Parses(text) == ~parse(text).failed

-----------------------------------------------------------------------------
(* Rewriting, the children first *)

IsNegationOf(f, g) == kind(f) = "Not" /\ child(f) = g

is_negation_of(f, g) == IsNegationOf(f, g) \/ IsNegationOf(g, f)

negate(f) ==
    CASE kind(f) = "Not" -> child(f)
      [] f = True -> False
      [] f = False -> True
      [] OTHER -> Un("Not", f)

\* What a rule gives where it applies; the first that does is taken.
Rule(applies, result) == [applies |-> applies, result |-> result]

simplify_not(f) ==
    LET inner == child(f)
    IN  <<Rule(kind(inner) = "Not" \/ inner \in {True, False}, negate(inner))>>

simplify_and(lhs, rhs) ==
    <<Rule(lhs = rhs, lhs), Rule(lhs = True, rhs), Rule(rhs = True, lhs),
      Rule(False \in {lhs, rhs} \/ is_negation_of(lhs, rhs), False)>>

simplify_or(lhs, rhs) ==
    <<Rule(lhs = rhs, lhs), Rule(True \in {lhs, rhs} \/ is_negation_of(lhs, rhs), True),
      Rule(rhs = False, lhs), Rule(lhs = False, rhs)>>

simplify_implies(lhs, rhs) ==
    <<Rule(lhs = rhs \/ rhs = True, True), Rule(lhs = True, rhs), Rule(lhs = False, True),
      Rule(rhs = False, negate(lhs))>>

simplify_iff(lhs, rhs) ==
    <<Rule(lhs = rhs, True), Rule(lhs = True, rhs), Rule(rhs = True, lhs),
      Rule(lhs = False, negate(rhs)), Rule(rhs = False, negate(lhs)),
      Rule(is_negation_of(lhs, rhs), False)>>

\* A constant folds through every temporal operator; F F and G G fold, X X
\* does not.
simplify_unary(f) ==
    LET inner == child(f)
    IN  <<Rule(inner \in {True, False} \/ (kind(f) # "Next" /\ kind(inner) = kind(f)), inner)>>

\* Mutant of simplify_temporal_binary: what false releases may stop holding.
simplify_temporal_binaryDual(type, lhs, rhs) ==
    <<Rule(rhs \in {True, False} \/ lhs = True, rhs),
      Rule(lhs = False, Un("Eventually", rhs)), Rule(lhs = rhs, lhs)>>

\* And the operators of two operands that are the same.
simplify_temporal_binary(type, lhs, rhs) ==
    CASE type = "Until" ->
           <<Rule(rhs \in {True, False} \/ lhs = False, rhs),
             Rule(lhs = True, Un("Eventually", rhs)), Rule(lhs = rhs, lhs)>>
      [] type = "WeakUntil" ->
           <<Rule(rhs = True \/ lhs = False, rhs), Rule(lhs = True, lhs),
             Rule(rhs = False, Un("Globally", lhs)), Rule(lhs = rhs, lhs)>>
      [] type = "Release" ->
           <<Rule(rhs \in {True, False} \/ lhs = True, rhs),
             Rule(lhs = False, Un("Globally", rhs)), Rule(lhs = rhs, lhs)>>

SimplifyRules(f) ==
    LET operands == children(f)
        lhs == operands[1]
        rhs == operands[2]
    IN  CASE kind(f) = "Atom" -> <<>>
          [] kind(f) = "Not" -> simplify_not(f)
          [] kind(f) \in {"Next", "Eventually", "Globally"} -> simplify_unary(f)
          [] kind(f) = "And" -> simplify_and(lhs, rhs)
          [] kind(f) = "Or" -> simplify_or(lhs, rhs)
          [] kind(f) = "Implies" -> simplify_implies(lhs, rhs)
          [] kind(f) = "Iff" -> simplify_iff(lhs, rhs)
          [] kind(f) \in {"Until", "WeakUntil", "Release"} ->
               simplify_temporal_binary(kind(f), lhs, rhs)

simplify_node(f) ==
    LET Applies(rule) == rule.applies
        applying == SelectSeq(SimplifyRules(f), Applies)
    IN  IF applying = <<>> THEN f ELSE Head(applying).result

strip_double_negation(f) ==
    IF kind(f) = "Not" /\ kind(child(f)) = "Not" THEN child(child(f)) ELSE f

\* A node over its rewritten operands.
rewrite_subtree(f, operands) == IF operands = <<>> THEN f ELSE Over(kind(f), operands)

RECURSIVE simplify(_), remove_double_negation(_)
simplify(f) ==
    LET operands == children(f)
    IN  simplify_node(rewrite_subtree(f, [i \in DOMAIN operands |-> simplify(operands[i])]))

remove_double_negation(f) ==
    LET operands == children(f)
    IN  strip_double_negation(
            rewrite_subtree(f, [i \in DOMAIN operands |-> remove_double_negation(operands[i])]))

-----------------------------------------------------------------------------
(* The normal form *)

\* The kinds whose operands are flattened, ordered and each kept once.
Chained == {"And", "Or"}

RECURSIVE flatten(_, _)
flatten(f, type) ==
    IF kind(f) = type THEN UNION {flatten(children(f)[i], type) : i \in 1..2} ELSE {f}

RECURSIVE Sorted(_)
Sorted(fs) ==
    IF fs = {} THEN <<>>
    ELSE LET first == CHOOSE f \in fs : \A g \in fs \ {f} : ArenaLess(f, g)
         IN  <<first>> \o Sorted(fs \ {first})

\* Leaning to the left, as the parser associates.
RECURSIVE chain(_, _)
chain(type, operands) ==
    LET n == Len(operands)
    IN  IF n = 1 THEN operands[1] ELSE Bin(type, chain(type, SubSeq(operands, 1, n - 1)), operands[n])

\* A node over operands that are normal, those of a chain being all of its.
normal_node(f, type, inner, operands) ==
    CASE type = "Atom" -> f
      [] type = "Not" -> IF kind(inner[1]) = "Not" THEN child(inner[1]) ELSE Un("Not", inner[1])
      [] type \in Chained -> chain(type, Sorted(UNION {flatten(g, type) : g \in operands}))
      [] type = "Iff" -> IF ArenaLess(inner[1], inner[2]) THEN Over("Iff", inner)
                         ELSE Bin("Iff", inner[2], inner[1])
      [] OTHER -> Over(type, inner)

RECURSIVE canonical(_)
canonical(f) ==
    LET operands == children(f)
    IN  normal_node(f, kind(f), [i \in DOMAIN operands |-> canonical(operands[i])],
                    {canonical(g) : g \in flatten(f, kind(f))})

-----------------------------------------------------------------------------
(* The keys the caches take *)

constant_atoms == {"true", "false"}

\* The atoms in the order they are first rendered in, the constants left out.
collect_atoms(f) ==
    LET First(i) == /\ f[i].type = "Atom" /\ f[i].variable \notin constant_atoms
                    /\ \A j \in 1..i - 1 : f[j].variable # f[i].variable
        at == SelectSeq([i \in DOMAIN f |-> i], First)
    IN  [k \in DOMAIN at |-> f[at[k]].variable]

rename_atoms(f, forward) ==
    [i \in DOMAIN f |-> IF f[i].type = "Atom" /\ f[i].variable \in DOMAIN forward
                        THEN [f[i] EXCEPT !.variable = forward[@]] ELSE f[i]]

\* The atoms of a side under fresh names, in the order they appear in.
Numbered(order, side, fresh) ==
    LET of == {i \in DOMAIN order : order[i] \in side}
        NumberOf(name) == Cardinality({i \in of : i <= PlaceIn(order, name)})
    IN  [name \in {order[i] : i \in of} |-> fresh[NumberOf(name)]]

RenamedInOrder(normal, order) ==
    rename_atoms(normal, Numbered(order, {order[i] : i \in DOMAIN order}, FreshNames.fk))

NormalRenamed(normal) == RenamedInOrder(normal, collect_atoms(normal))

renamed(f) == NormalRenamed(canonical(f))

\* The sides apart, an atom of neither as it is, and how many declared
\* signals of each side the formula leaves unused.
SidesApart(normal, order, inputs, outputs) ==
    LET used == {order[i] : i \in DOMAIN order}
        forward == Numbered(order, inputs, FreshNames.fi)
                   @@ Numbered(order, outputs \ inputs, FreshNames.fo)
    IN  [formula |-> rename_atoms(normal, forward),
         inputs |-> Cardinality(inputs \ used),
         outputs |-> Cardinality(outputs) - Cardinality((outputs \ inputs) \cap used)]

NormalRealizability(normal, inputs, outputs) ==
    SidesApart(normal, collect_atoms(normal), inputs, outputs)

realizability(f, inputs, outputs) == NormalRealizability(canonical(f), inputs, outputs)
=============================================================================
