------------------------------ MODULE Counting ------------------------------
(***************************************************************************)
(* How many words a formula allows (src/src/fitness): the assignments of a   *)
(* guard by truth table, a machine word of them at a time, or by the model   *)
(* counter over a definitional encoding; the weighted transfer matrix of an   *)
(* automaton; and the traces of a length, by repeated squaring.              *)
(*                                                                           *)
(* A machine word is the set of its bits. ltl2tgba and ganak are external.   *)
(***************************************************************************)
EXTENDS Formulas, Functions

CONSTANTS
    WordShift,      \* a machine word holds 2^WordShift assignments
    MaxAtoms,       \* the most atoms a truth table is built for
    MaxExponent     \* the largest power of two a count can be

k_word_bits == 2^WordShift

WordBits == 0..k_word_bits - 1

\* Bit i of a number.
BitOf(n, i) == (n \div 2^i) % 2 = 1

\* The assignments of word w at which the atom holds: assignment j gives atom
\* i the value of bit i of j.
atom_column(index, n_words) ==
    [w \in 0..n_words - 1 |->
        IF index < WordShift THEN {j \in WordBits : BitOf(j, index)}
        ELSE IF BitOf(w, index - WordShift) THEN WordBits ELSE {}]

\* Constants are atoms here, as they are to the counter. The first occurrence
\* numbers them.
scan_formula(f) ==
    LET First(i) == f[i].type = "Atom" /\ \A j \in 1..i - 1 : f[j].variable # f[i].variable
        at == SelectSeq([i \in DOMAIN f |-> i], First)
    IN  [indices |-> [a \in AtomsOf(f) |-> (CHOOSE k \in DOMAIN at : f[at[k]].variable = a) - 1],
         temporal |-> ~is_propositional(f)]

RECURSIVE evaluate(_, _, _)
evaluate(f, indices, n_words) ==
    LET operands == children(f)
        left == evaluate(operands[1], indices, n_words)
        right == evaluate(operands[2], indices, n_words)
        Column(l, r) == CASE kind(f) = "Not" -> WordBits \ l
                          [] kind(f) = "And" -> l \cap r
                          [] kind(f) = "Or" -> l \cup r
                          [] kind(f) = "Implies" -> (WordBits \ l) \cup r
                          [] kind(f) = "Iff" -> WordBits \ ((l \ r) \cup (r \ l))
    IN  IF IsAtom(f) THEN atom_column(indices[Root(f).variable], n_words)
        ELSE [w \in 0..n_words - 1 |-> Column(left[w], IF kind(f) = "Not" THEN {} ELSE right[w])]

SumOf(counts) == FoldFunction(+, 0, counts)

NoCount == {}

\* Fewer assignments than a word has bits are its low ones.
count_models_exhaustively(f) ==
    LET scan == scan_formula(f)
        n == Cardinality(DOMAIN scan.indices)
        n_words == IF n > WordShift THEN 2^(n - WordShift) ELSE 1
        models == evaluate(f, scan.indices, n_words)
        live == IF n < WordShift THEN 0..2^n - 1 ELSE WordBits
    IN  IF scan.temporal \/ n > MaxAtoms THEN NoCount
        ELSE {SumOf([w \in DOMAIN models |-> Cardinality(models[w] \cap live)])}

-----------------------------------------------------------------------------
(* The definitional encoding. A literal is a variable or its negation. *)

Encoder(next, symbols, clauses, literal) ==
    [next |-> next, symbols |-> symbols, clauses |-> clauses, literal |-> literal]

get_or_create_symbol(e, name) ==
    IF name \in DOMAIN e.symbols THEN [e EXCEPT !.literal = e.symbols[name]]
    ELSE Encoder(e.next + 1, e.symbols @@ [a \in {name} |-> e.next], e.clauses, e.next)

\* The clauses that make a literal what an operator makes of its operands.
Clauses(type, x, l, r) ==
    CASE type = "Not" -> {{-x, -l}, {x, l}}
      [] type = "And" -> {{-x, l}, {-x, r}, {x, -l, -r}}
      [] type = "Or" -> {{x, -l}, {x, -r}, {-x, l, r}}
      [] type = "Implies" -> {{-x, -l, r}, {l, x}, {-r, x}}
      [] type = "Iff" -> {{-x, -l, r}, {-x, l, -r}, {x, l, r}, {x, -l, -r}}

RECURSIVE encode_node(_, _, _)
encode_node(nodes, i, e) ==
    LET node == nodes[i]
        left == encode_node(nodes, node.left, e)
        right == IF node.type = "Not" THEN left ELSE encode_node(nodes, node.right, left)
        x == right.next
    IN  IF node.type = "Atom" THEN get_or_create_symbol(e, node.variable)
        ELSE Encoder(x + 1, right.symbols,
                     right.clauses \cup Clauses(node.type, x, left.literal, right.literal), x)

\* The root holds.
encode_dimacs(f) ==
    LET e == encode_node(f, Len(f), Encoder(1, [a \in {} |-> 0], {}, 0))
    IN  [variables |-> e.next - 1, clauses |-> e.clauses \cup {{e.literal}}]

\* ganak, exact: the assignments that satisfy every clause.
run_ganak_on_dimacs(cnf) ==
    Cardinality({T \in SUBSET (1..cnf.variables) :
        \A clause \in cnf.clauses : \E x \in clause : IF x > 0 THEN x \in T ELSE -x \notin T})

\* Counted of the canonical form and remembered under the renamed one.
CountedAs(cache, key, normal) ==
    IF key \in DOMAIN cache THEN cache[key] ELSE run_ganak_on_dimacs(encode_dimacs(normal))

run_ganak_on_formula(cache, f) == CountedAs(cache, renamed(f), canonical(f))

-----------------------------------------------------------------------------
(* Automata and their traces *)

mul_pow2(base, exponent) == base * 2^exponent

\* A guard's models over every atom there is: "t", "f", or a formula over the
\* automaton's propositions.
count_guard_models(cache, guard, n_total_atoms) ==
    LET free_count == n_total_atoms - Cardinality(AtomsOf(guard))
        exact == count_models_exhaustively(guard)
    IN  IF guard = False THEN 0
        ELSE IF guard = True THEN mul_pow2(1, n_total_atoms)
        ELSE IF exact # NoCount THEN mul_pow2(CHOOSE n \in exact : TRUE, free_count)
        ELSE mul_pow2(run_ganak_on_formula(cache, guard), free_count)

\* What an automaton's text gives: of each state the marks it carries and
\* its transitions. Only a Buchi automaton says which states accept.
parse_hoa(hoa) ==
    LET sets == IF hoa.acceptance = "all" THEN 0
                ELSE IF hoa.acceptance = "generalized-Buchi" THEN hoa.n_sets ELSE 1
    IN  [n_states |-> hoa.n_states, initial |-> hoa.start, is_buchi |-> hoa.acceptance # "all",
         accepting |-> {s \in 0..hoa.n_states - 1 :
                            hoa.marks[s] # {} /\ Cardinality(hoa.marks[s]) >= sets},
         transitions |-> hoa.transitions]

\* Mutant of inv_perm: the states keep their places.
inv_permSame(automaton) == [s \in 0..automaton.n_states - 1 |-> s]

\* Where a state goes: the initial one first, the others in order.
inv_perm(automaton) ==
    [s \in 0..automaton.n_states - 1 |->
        IF s = automaton.initial THEN 0 ELSE IF s < automaton.initial THEN s + 1 ELSE s]

Indices(automaton) == 0..automaton.n_states - 1

\* The weights of the transitions between two states added up; no mask where
\* every state accepts.
build_transfer_system_from_hoa(automaton, n_total_atoms) ==
    LET place == inv_perm(automaton)
        StateAt(i) == CHOOSE s \in Indices(automaton) : place[s] = i
        Between(from, to) == {t \in automaton.transitions : t.from = from /\ t.to = to}
        Weight(ts) == SumOf([t \in ts |-> count_guard_models(<<>>, t.guard, n_total_atoms)])
    IN  [matrix |-> [i \in Indices(automaton) |-> [j \in Indices(automaton) |->
                        Weight(Between(StateAt(i), StateAt(j)))]],
         mask |-> [i \in Indices(automaton) |->
                      IF ~automaton.is_buchi \/ StateAt(i) \in automaton.accepting THEN 1 ELSE 0]]

checked_matrix_multiply(lhs, rhs) ==
    [i \in DOMAIN lhs |-> [j \in DOMAIN lhs |->
        SumOf([k \in DOMAIN lhs |-> lhs[i][k] * rhs[k][j]])]]

\* Squaring the factor while there is exponent left.
RECURSIVE PowerFrom(_, _, _)
PowerFrom(result, factor, exponent) ==
    LET taken == IF exponent % 2 = 1 THEN checked_matrix_multiply(result, factor) ELSE result
    IN  IF exponent = 0 THEN result
        ELSE PowerFrom(taken, IF exponent > 1 THEN checked_matrix_multiply(factor, factor)
                              ELSE factor, exponent \div 2)

matrix_power(matrix, exponent) ==
    PowerFrom([i \in DOMAIN matrix |-> [j \in DOMAIN matrix |-> IF i = j THEN 1 ELSE 0]],
              matrix, exponent)

\* From the first state to the states of the mask.
count_traces(system, step_count) ==
    LET propagated == matrix_power(system.matrix, step_count)
    IN  SumOf([j \in DOMAIN system.mask |-> propagated[0][j] * system.mask[j]])

\* Remembered under the formula's renamed key, the atoms and the steps.
cached_count_traces(cache, f, hoa, n_total_atoms, step_count) ==
    LET key == <<renamed(f), n_total_atoms, step_count>>
    IN  IF key \in DOMAIN cache THEN cache[key]
        ELSE count_traces(build_transfer_system_from_hoa(parse_hoa(hoa), n_total_atoms), step_count)

-----------------------------------------------------------------------------
(* The semantic objective's steps and its score of three counts *)

timing_horizon(timing) ==
    CASE timing.kind = "immediately" -> 1
      [] timing.kind = "next" -> 2
      [] timing.kind \in {"within", "for"} -> timing.n + 1
      [] timing.kind = "after" -> timing.n + 2
      [] OTHER -> 0

max_representable_step_count(n_atoms) ==
    IF n_atoms = 0 THEN MaxExponent - 1 ELSE (MaxExponent - 1) \div n_atoms

Larger(a, b) == IF a > b THEN a ELSE b

Smaller(a, b) == IF a < b THEN a ELSE b

\* Up to the later of the two deadlines, unless a count cannot hold it.
effective_step_count(timing, other, step_count, n_atoms) ==
    Smaller(Larger(step_count, Larger(timing_horizon(timing), timing_horizon(other))),
            max_representable_step_count(n_atoms))

\* A ratio of logarithms, of which only none, some and all are told apart.
directional_containment(shared, whole) ==
    IF whole <= 1 THEN IF shared >= whole THEN 2 ELSE 0
    ELSE IF shared <= 1 THEN 0
    ELSE IF shared >= whole THEN 2 ELSE 1

\* None where either is none, all where both are.
semantic_similarity_from_counts(counts) ==
    LET first == directional_containment(counts.both, counts.one)
        second == directional_containment(counts.both, counts.other)
    IN  IF counts.one = 0 /\ counts.other = 0 THEN 2
        ELSE IF counts.one = 0 \/ counts.other = 0 THEN 0
        ELSE Smaller(first, second)
=============================================================================
