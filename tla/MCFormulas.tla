----------------------------- MODULE MCFormulas -----------------------------
(***************************************************************************)
(* Requirements and formulas over words. Either requirements, on every     *)
(* word of at most three letters and a loop: the lowering and the orders   *)
(* of Fretish against FretSemantics for timings without a stop and for     *)
(* those with one, and the rules of Requirements for requirements and      *)
(* for specifications, every formula of the rules having one that implies  *)
(* it. Or a formula of Formulas.tla and what is done with it, against what *)
(* linear temporal logic says of it over every word of its own signals.    *)
(***************************************************************************)
EXTENDS FretSemantics, Mutation, Fingerprint, Counting, Tlsf

CONSTANT Signals

VARIABLE formula  \* the formula a behaviour is about, none where it is requirements

-----------------------------------------------------------------------------
(* Requirements *)

OnRequirements == formula = <<>>

MCLetter == SUBSET {"p", "q", "m"}

MCModels ==
    [f \in {"p", "q", "m", "p and q", "p or q", "true"} |->
        CASE f = "p and q" -> {a \in MCLetter : {"p", "q"} \subseteq a}
          [] f = "p or q" -> {a \in MCLetter : a \cap {"p", "q"} # {}}
          [] f = "true" -> MCLetter
          [] OTHER -> {a \in MCLetter : f \in a}]

Ticked ==
    {Timed(k, 0) : k \in {"immediately", "next", "eventually", "always", "after"}}
      \cup {Timed(k, n) : k \in {"within", "for"}, n \in 0..2} \cup {Timed("after", 1)}

Ending ==
    {Timed(k, 0) : k \in {"eventually", "always"}}
      \cup {Stopped(k, "p") : k \in {"until", "before"}}

Ordering ==
    {Timed("immediately", 0), Timed("after", 0), Timed("eventually", 0), Timed("always", 0)}
      \cup {Stopped(k, end) : k \in {"until", "before"}, end \in {"p", "p and q"}}

Requirements(conditions, responses, timings, scopes) ==
    [condition : conditions, response : responses, timing : timings,
     ctype : {"trigger", "continual"}, scope : {Unscoped} \cup [kind : scopes, mode : {"m"}]]

MCRequirement ==
    Requirements({"p"}, {"q"}, Ticked, ScopeKind)
      \cup Requirements({"true"}, {"q"}, Ending, ScopeKind)

MCRuled == Requirements({"p", "p and q"}, {"q", "p or q"}, Ordering, {"in", "only in"})

\* Requirements that imply one another, or not, by their responses, timings
\* and condition types; the last removed, too.
Req(response, k, ctype) ==
    [condition |-> "p", response |-> response, timing |-> Timed(k, 0), ctype |-> ctype,
     scope |-> Unscoped]

MCSlot ==
    {[req |-> Req("q", "always", "continual"), removed |-> FALSE],
     [req |-> Req("q", "immediately", "trigger"), removed |-> FALSE],
     [req |-> Req("p or q", "always", "trigger"), removed |-> FALSE],
     [req |-> Req("p or q", "always", "trigger"), removed |-> TRUE]}

MCSpecification == [A : [1..1 -> MCSlot], G : [1..2 -> MCSlot]]

\* The lowering means what FRET says a requirement does, on every word
\* (FretSemantics).
LoweringIsFret == OnRequirements => LoweringAgrees

\* What the orders on timings and on scopes place lower holds on no word that
\* the higher fails (FretSemantics); and what the rules say of requirements
\* and, on the shorter words, of whole specifications, and a residual query's
\* answer, are right (FretSemantics).
ImplicationRulesAreSound ==
    OnRequirements =>
        /\ OrdersAgree
        /\ RulesAreSound
        /\ Len(word) <= 2 => SpecificationRulesAreSound /\ ResidualKeepsTheAnswer

\* The arms that move along an order, no free rewrite among them.
MCRate == {"response", "condition", "timing", "stop", "ctype", "scope", "monotone"}

MCPool == {Timed("immediately", 0), Timed("within", 1), Stopped("until", "m")}

Moves(req, direction) ==
    {move.req : move \in {m \in mutate_requirement(req, direction, MCPool, Rate) : ~m.free}}

Timing ==
    {Timed("within", 1), Timed("after", 0), Timed("eventually", 0), Timed("always", 0),
     Stopped("until", "m"), Stopped("before", "m")}

Movable == Requirements({"true", "p"}, {"q"}, Timing, {"except in", "only in"})

Weakenings == UNION {{<<req, Moves(req, "weaken")>>} : req \in Movable}

Strengthenings == UNION {{<<req, Moves(req, "strengthen")>>} : req \in Movable}

Moving == Movable \cup UNION {pair[2] : pair \in Weakenings \cup Strengthenings}

\* "The directed arms move the way the gate allows by construction": whatever
\* fields one mutation rewrites along their orders together, on every word of
\* two letters the requirement it weakens implies what it becomes, and the one
\* it strengthens is implied by it.
DirectedMovesAreSound ==
    OnRequirements /\ Len(word) <= 2 =>
    LET holding == Holding(Moving)
    IN  /\ \A pair \in Weakenings : pair[1] \in holding => pair[2] \subseteq holding
        /\ \A pair \in Strengthenings : pair[1] \in holding \/ pair[2] \cap holding = {}

-----------------------------------------------------------------------------
(* Formulas *)

MCNames == <<"false", "p", "q", "true">>

MCFreshNames == [fk |-> <<"fk0", "fk1">>, fi |-> <<"fi0", "fi1">>, fo |-> <<"fo0", "fo1">>]

-----------------------------------------------------------------------------
(* Inputs *)

AtomFormulas == {make_atom(a) : a \in Signals \cup constant_atoms}

\* The formulas of some operators over some operands.
Combined(kinds, operands) ==
    UNION {{Un(k, f) : f \in operands} : k \in kinds \cap Unary}
    \cup UNION {UNION {{Bin(k, f, g) : f \in operands} : g \in operands} : k \in kinds \cap Binary}

Shallow == AtomFormulas \cup Combined(Unary \cup Binary, AtomFormulas)

P == make_atom("p")

Q == make_atom("q")

\* Deeper ones: every operator over operands its rules tell apart.
Deep ==
    Combined(Binary, {P, Un("Not", P), Un("Globally", P), Bin("And", Q, P), Bin("Or", P, Q)})
    \cup Combined(Unary, {Un("Not", P), Un("Globally", P), Un("Eventually", Q), Un("Next", P),
                          Bin("Until", P, Q), Bin("And", P, Un("Next", Q))})
    \cup Combined({"And", "Iff", "Implies"}, {Bin("Or", P, Q), Un("Not", Q), True})

\* Every operator, and every operator under one that turns or hides it.
Plain == {P, Q} \cup Combined(Unary \cup Binary, {P, Q})

Nested ==
    Combined({"Not", "Globally"}, {Bin("Iff", P, Q), Bin("Until", P, Q), Bin("And", P, Q)})
    \cup Combined({"Implies", "Iff", "Release"}, {Un("Globally", P), Un("Not", Q)})

Sample == Shallow \cup Deep \cup Nested

-----------------------------------------------------------------------------
(* The reference: the positions of the word a formula holds at *)

\* What an operator makes of its operands' meanings.
Operation(type, m) ==
    CASE type = "Not" -> Not(m[1])
      [] type = "Next" -> Next(m[1])
      [] type = "Eventually" -> Finally(m[1])
      [] type = "Globally" -> Globally(m[1])
      [] type = "And" -> m[1] \cap m[2]
      [] type = "Or" -> m[1] \cup m[2]
      [] type = "Implies" -> Not(m[1]) \cup m[2]
      [] type = "Iff" -> (m[1] \cap m[2]) \cup (Not(m[1]) \cap Not(m[2]))
      [] type = "Until" -> Until(m[1], m[2])
      [] type = "Release" -> Release(m[1], m[2])
      [] type = "WeakUntil" -> WeakUntil(m[1], m[2])

RECURSIVE MeaningOf(_, _)
MeaningOf(f, valuation) ==
    LET operands == children(f)
    IN  IF IsAtom(f) THEN valuation[Root(f).variable]
        ELSE Operation(kind(f), [i \in DOMAIN operands |-> MeaningOf(operands[i], valuation)])

Valuation ==
    [a \in Signals |-> {i \in Pos : a \in word[i]}] @@ [a \in {"true"} |-> Pos] @@ [a \in {"false"} |-> {}]

Meaning(f) == MeaningOf(f, Valuation)

-----------------------------------------------------------------------------
MCInit ==
    /\ Init
    /\ formula \in Sample \cup {<<>>}
    /\ formula # <<>> => word[1] \subseteq Signals

\* A propositional formula is about one letter at a time, and one of a single
\* operator about two.
MCNext ==
    /\ Extend /\ UNCHANGED formula
    /\ formula # <<>> =>
           /\ \A i \in DOMAIN word' : word'[i] \subseteq Signals
           /\ Len(word') > 2 => formula \notin Shallow /\ ~is_propositional(formula)

MCSpec == MCInit /\ [][MCNext]_<<word, loop, formula>>

\* What does not depend on the word is looked at once.
AtStart == formula # <<>> /\ word = <<{}>>

\* What does not depend on the formula either.
Small == formula = Un("Globally", P)

\* A formula under a key's names, read where each name stands for the atom it
\* was given to.
MeaningUnder(f, forward) ==
    MeaningOf(f, [a \in {forward[b] : b \in DOMAIN forward} |->
                     Valuation[CHOOSE b \in DOMAIN forward : forward[b] = a]] @@ Valuation)

KeyIsARenaming ==
    LET order == collect_atoms(canonical(formula))
        All == Numbered(order, Signals, FreshNames.fk)
        Sided == Numbered(order, {"p"}, FreshNames.fi) @@ Numbered(order, {"q"}, FreshNames.fo)
        key == realizability(formula, {"p"}, {"q"})
    IN  /\ IsInjective(All) /\ IsInjective(Sided)
        /\ MeaningUnder(renamed(formula), All) = Meaning(formula)
        /\ MeaningUnder(key.formula, Sided) = Meaning(formula)
        /\ AtStart => /\ key.inputs + Cardinality(AtomsOf(key.formula) \cap {"fi0", "fi1"}) = 1
                      /\ key.outputs + Cardinality(AtomsOf(key.formula) \cap {"fo0", "fo1"}) = 1

\* simplify, canonical and the removal of double negations keep what a
\* formula means, a formula's text is parsed to the formula, and the keys the
\* caches take are the formula under other names, each side's its own
\* (src/prop_formula, formula_key.cpp).
RewritesKeepTheMeaning ==
    formula # <<>> =>
    LET meaning == Meaning(formula)
    IN  /\ Meaning(simplify(formula)) = meaning
        /\ Meaning(canonical(formula)) = meaning
        /\ Meaning(remove_double_negation(formula)) = meaning
        /\ KeyIsARenaming
        /\ AtStart => /\ Parses(to_string(formula))
                      /\ parse(to_string(formula)).nodes = formula

-----------------------------------------------------------------------------
(* Fingerprints: the words are the state's, from each of its positions on *)

\* The word from position i on.
From(i) ==
    LET n == Len(word)
        Path == [k \in 1..IF i <= loop THEN n - i + 1 ELSE Period |-> After(i, k - 1)]
        at == IF i <= loop THEN loop - i ELSE 0
    IN  LassoWord(Len(Path), at,
                  [a \in Signals |-> {k \in 0..Len(Path) - 1 : a \in word[Path[k + 1]]}])

SampledAt == <<After(1, 1), After(1, 2)>>

Sampled == [k \in 1..2 |-> From(SampledAt[k])]

\* What black may answer: the word if it is a model, each state without the
\* atoms the formula does not speak of, the loop past the end where the
\* formula speaks of the first position only; or that it ran out of time.
Answer(f, late) ==
    LET States == [i \in Pos |-> [a \in AtomsOf(f) \cap Signals |->
                                      IF a \in word[i] THEN "true" ELSE "false"]]
    IN  [result |-> IF ~late /\ 1 \in Meaning(f) THEN "SAT" ELSE "UNSAT",
         states |-> IF is_propositional(f) THEN <<States[1]>> ELSE States,
         loop |-> {IF is_propositional(f) THEN 1 ELSE loop - 1}]

\* What the formula is compared with, and the formulas that are.
Others == {Bin("Until", P, Q), Un("Globally", Bin("Or", Q, Un("Not", P)))}

Compared ==
    AtomFormulas \cup Combined({"Not", "Next", "Iff", "Release"}, {P, Q})
    \cup Combined({"Until"}, {Un("Not", P), Bin("Or", P, Q)})

\* The table of the formula, another one and a second spelling of the first,
\* of which black is asked about the first spelling only.
TableOf(g, second, late) ==
    fingerprints_over(<<to_string(formula), to_string(g), to_string(second)>>, Signals, Sampled, <<>>,
                      <<Answer(formula, late), Answer(g, FALSE), Answer(second, FALSE)>>)

TableIsExact(g, late, prints) ==
    LET Apart(f, h) == Meaning(f) \ Meaning(h)
        Separated(f, h) == \E k \in DOMAIN SampledAt : SampledAt[k] \in Apart(f, h)
        Modelled(f, h) == 1 \in Apart(f, h) /\ (f = formula => ~late)
        whole == ~is_propositional(formula) /\ Signals \subseteq AtomsOf(formula)
    IN  /\ prints[1] = prints[3]
        /\ 1 \in Meaning(formula) /\ ~late =>
               \E e \in DOMAIN prints[1] : e > SampledElements /\ 0 \in prints[1][e]
        /\ whole => \A pair \in {<<1, 2>>, <<2, 1>>} :
               LET f == IF pair[1] = 1 THEN formula ELSE g
                   h == IF pair[1] = 1 THEN g ELSE formula
               IN  /\ refutes_implication(prints[pair[1]], prints[pair[2]]) <=>
                          (Separated(f, h) \/ Modelled(f, h))
                   /\ refuted_by_model_alone(prints[pair[1]], prints[pair[2]]) <=>
                          (Modelled(f, h) /\ ~Separated(f, h))

\* A bit is what the formula says of the word. A pair is refuted exactly by a
\* word that the left accepts and the right rejects: one of the sampled, or a
\* model, which every spelling of the specification it was found for accepts
\* whichever of them black was asked about (fingerprint/prefilter.cpp).
FingerprintsAreExact ==
    formula # <<>> /\ Len(word) <= 2 =>
    LET words == [i \in Pos |-> From(i)]
        meaning == Meaning(formula)
    IN  /\ \A i \in Pos : fingerprint_of(to_string(formula), words)[i] <=> i \in meaning
        /\ formula \in Compared => \A g \in Others :
               TableIsExact(g, kind(g) = "Globally",
                            TableOf(g, canonical(formula), kind(g) = "Globally"))

-----------------------------------------------------------------------------
(* Counts: a propositional formula is a guard, or the test of an automaton *)

RECURSIVE Sat(_, _)
Sat(f, S) ==
    LET operands == children(f)
        Truth(type, holds) ==
            CASE type = "Not" -> ~holds[1]
              [] type = "And" -> holds[1] /\ holds[2]
              [] type = "Or" -> holds[1] \/ holds[2]
              [] type = "Implies" -> holds[1] => holds[2]
              [] type = "Iff" -> holds[1] = holds[2]
    IN  IF IsAtom(f) THEN Root(f).variable \in S
        ELSE Truth(kind(f), [i \in DOMAIN operands |-> Sat(operands[i], S)])

\* The assignments over some atoms, a constant the atom it is spelled as.
ModelsOver(f, atoms) == {S \in SUBSET atoms : Sat(f, S)}

\* The same formula of the other signals.
Swapped(f) == rename_atoms(f, [a \in {"p", "q"} |-> IF a = "p" THEN "q" ELSE "p"])

Transition(from, guard, to) == [from |-> from, guard |-> guard, to |-> to]

\* Automata that wait for a formula, one after the other acceptance.
Automata(f) ==
    LET transitions == {Transition(1, f, 2), Transition(1, Un("Not", f), 1),
                        Transition(2, f, 0), Transition(0, True, 0), Transition(0, False, 1)}
        Marked(acceptance, two) ==
            [n_states |-> 3, start |-> 1, acceptance |-> acceptance, n_sets |-> 2,
             marks |-> [s \in 0..2 |-> IF s = 0 THEN {0, 1} ELSE IF s = 2 THEN two ELSE {}],
             transitions |-> transitions]
    IN  <<Marked("all", {}), Marked("Buchi", {0}), Marked("generalized-Buchi", {1})>>

Countable == {[kind |-> "within", n |-> 2], [kind |-> "after", n |-> 1], [kind |-> "always", n |-> 0]}

\* The words of a length that are read from a state on, by the letters.
RECURSIVE WordsRead(_, _, _)
WordsRead(hoa, s, k) ==
    LET accepts == \/ hoa.acceptance = "all"
                   \/ hoa.acceptance = "Buchi" /\ hoa.marks[s] # {}
                   \/ hoa.acceptance = "generalized-Buchi" /\ hoa.marks[s] = {0, 1}
        Reads(a, t) == t.from = s /\ t.guard # False /\ (t.guard = True \/ Sat(t.guard, a))
    IN  IF k = 0 THEN IF accepts THEN 1 ELSE 0
        ELSE SumOf([a \in SUBSET Signals |->
                SumOf([t \in {u \in hoa.transitions : Reads(a, u)} |-> WordsRead(hoa, t.to, k - 1)])])

\* Every count is the count of what it counts: by truth table, by encoding and
\* model counter, from a cache another spelling filled, over more atoms than
\* the guard has, and along an automaton. A count
\* of every word of the steps counted is representable, and the steps reach
\* the deadlines where they may. Two formulas score as the same exactly where
\* they allow the same (src/fitness).
CountsAreExact ==
    AtStart /\ is_propositional(formula) =>
        LET atoms == AtomsOf(formula)
            n == Cardinality(ModelsOver(formula, atoms))
            filled == [key \in {renamed(Swapped(formula))} |->
                           run_ganak_on_formula(<<>>, Swapped(formula))]
        IN  /\ count_models_exhaustively(formula) =
                   IF Cardinality(atoms) <= MaxAtoms THEN {n} ELSE NoCount
            /\ run_ganak_on_formula(<<>>, formula) = n
            /\ run_ganak_on_formula(filled, formula) = n
            /\ atoms \subseteq Signals => \A more \in {Signals, Signals \cup {"r"}} :
                   count_guard_models(filled, formula, Cardinality(more)) =
                       Cardinality(ModelsOver(formula, more))
            /\ atoms \subseteq Signals => \A i \in 1..3, k \in 0..3 :
                   LET Traces(cache, f) == cached_count_traces(cache, f, Automata(f)[i], 2, k)
                       other == [key \in {<<renamed(Swapped(formula)), 2, k>>} |->
                                    Traces(<<>>, Swapped(formula))]
                       n_words == WordsRead(Automata(formula)[i], 1, k)
                   IN  Traces(<<>>, formula) = n_words /\ Traces(other, formula) = n_words
            /\ \A g \in {P, Un("Not", Q), Bin("Or", P, Q)} :
                   LET Count(f) == Cardinality(ModelsOver(f, atoms \cup Signals))
                       score == semantic_similarity_from_counts(
                                    [one |-> Count(formula), other |-> Count(g),
                                     both |-> Count(Bin("And", formula, g))])
                   IN  score = 2 <=> ModelsOver(formula, atoms \cup Signals) =
                                         ModelsOver(g, atoms \cup Signals)
            /\ \A t, u \in Countable, m \in 0..2 :
                   LET steps == effective_step_count(t, u, 1, m)
                   IN  /\ m * steps < MaxExponent
                       /\ steps <= timing_horizon(t) => (steps + 1) * m >= MaxExponent
                                                        \/ steps = timing_horizon(t)

-----------------------------------------------------------------------------
(* Scores *)

\* The timings without a stop, the last of a family for all that follow it.
Elements ==
    {Timed(k, 0) : k \in {"immediately", "next", "eventually", "always", "after"}}
    \cup {Timed(k, n) : k \in {"within", "for", "after"}, n \in 1..MaxIndex + 1}

Weight(t) ==
    IF timing_argument(t) = "none" THEN k_timing_discrete_weight
    ELSE Geometric(Least(t.n, MaxIndex))

Lower(t) == {u \in Elements : timing_implies(t, u, "global")}

WeightOf(timings) == SumOf([u \in timings |-> Weight(u)])

\* Of after 0 the measure leaves out next, which after 0 implies
\* (docs/dev/operators.md:106, fitness/syntactic_similarity.cpp:109).
Unmeasured == {Timed("after", 0)}

TimingsAreMeasured ==
    \A t, u \in {e \in Elements : e.n < MaxIndex} \ Unmeasured :
        /\ mu_downset(t) = WeightOf(Lower(t))
        /\ mu_intersection(t, u) = WeightOf(Lower(t) \cap Lower(u))

\* The part of the word that a point is in.
RegionOf(t, m) ==
    LET past == \E u \in 0..t - 1 : Sees(u, m)
        future == \E u \in t + 1..t + Len(word) : Sees(u, m)
    IN  CASE Sees(t, m) -> "in"
          [] ~Sees(t, m) /\ past /\ future -> "between"
          [] ~Sees(t, m) /\ past /\ ~future -> "after"
          [] ~Sees(t, m) /\ ~past -> "before"

\* "after m" is from the first end of the mode on, the region after its last.
ScopesAreTheirRegions ==
    LET region == [t \in Time |-> RegionOf(t, Of("m"))]
    IN  \A scope \in {Unscoped} \cup [kind : ScopeKind, mode : {"m"}] :
            LET asked == UNION {{t \in Time : Inside(t, i)} : i \in Intervals(scope)}
            IN  \/ scope.kind \in {"after", "only after"} /\ \E t \in Time : region[t] = "between"
                \/ asked = {t \in Time : region[t] \in scope_regions(scope.kind)}

\* Each subformula as often as both have it; all of them only in the formula.
FormulasAreBags(f, g) ==
    LET Times(h, e) == Cardinality({i \in DOMAIN h : extract_subtree(h, i) = e})
        subformulas == {extract_subtree(f, i) : i \in DOMAIN f}
        score == formula_similarity(f, g)
    IN  /\ count_shared_subformulae(f, g) =
               SumOf([e \in subformulas |-> Least(Times(f, e), Times(g, e))])
        /\ score = formula_similarity(g, f)
        /\ (score = One) <=> (f = g)

ScoredSlots ==
    LET Always == [req |-> [condition |-> P, response |-> Q, timing |-> Timed("always", 0),
                            ctype |-> "trigger", scope |-> Unscoped],
                   removed |-> FALSE]
    IN  {Always, [Always EXCEPT !.req.timing = Stopped("until", P)],
         [Always EXCEPT !.req.timing = Timed("within", 2), !.req.response = Bin("Or", P, Q)],
         [Always EXCEPT !.req.scope = [kind |-> "in", mode |-> "m"]],
         [Always EXCEPT !.req.ctype = "continual"], [Always EXCEPT !.removed = TRUE]}

Scored ==
    LET Guarantees == [1..1 -> ScoredSlots] \cup [1..2 -> ScoredSlots]
    IN  {[A |-> <<>>, G |-> g] : g \in Guarantees}
        \cup {[A |-> a, G |-> g] : a \in [1..1 -> ScoredSlots], g \in [1..1 -> ScoredSlots]}

IsShare(x) == x.d > 0 /\ 0 <= x.n /\ x.n <= x.d

KeywordsOf(slot) ==
    IF slot.removed THEN {}
    ELSE {<<slot.req.timing, slot.req.scope, slot.req.ctype>>}

\* The same slots, with the same keywords where they are live, and the same
\* conditions and responses once each is put together.
ReadAlike(spec, other) ==
    /\ Len(spec.A) = Len(other.A) /\ Len(spec.G) = Len(other.G)
    /\ \A i \in DOMAIN spec.A : KeywordsOf(spec.A[i]) = KeywordsOf(other.A[i])
    /\ \A i \in DOMAIN spec.G : KeywordsOf(spec.G[i]) = KeywordsOf(other.G[i])
    /\ conjoin_triggers(spec) = conjoin_triggers(other)
    /\ conjoin_responses(spec) = conjoin_responses(other)

\* Both scores are shares, one and the same both ways, whatever a count says,
\* and of single requirements the syntactic one is theirs. It is whole exactly
\* for specifications that read alike, the semantic one where no slot that
\* both have differs.
AreCompared(spec, other, syntactic, semantic) ==
    /\ IsShare(syntactic) /\ IsShare(semantic)
    /\ syntactic = syntactic_similarity(other, spec)
    /\ semantic = semantic_similarity(other, spec, Fraction(1, 3))
    /\ spec = other => syntactic = One /\ semantic = One
    /\ \A slot \in ScoredSlots, o \in ScoredSlots :
           /\ ~slot.removed /\ ~o.removed
           /\ spec = [A |-> <<>>, G |-> <<slot>>] /\ other = [A |-> <<>>, G |-> <<o>>]
           => syntactic = requirement_similarity(slot.req, o.req)
    /\ (syntactic = One) <=> ReadAlike(spec, other)
    /\ (semantic = One) <=>
           /\ \A i \in Common(spec.A, other.A) : spec.A[i] = other.A[i]
           /\ \A i \in Common(spec.G, other.G) : spec.G[i] = other.G[i]

SpecificationsAreCompared(spec) ==
    \A other \in Scored :
        AreCompared(spec, other, syntactic_similarity(spec, other),
                    semantic_similarity(spec, other, Fraction(1, 3)))

\* A specification and one to cross it with.
SampleSpecification ==
    [semantics |-> "MealyStandard", inputs |-> <<"p">>, outputs |-> <<"q">>,
     initially |-> <<Entry(P)>>, require |-> <<>>, assume |-> <<Entry(Un("Globally", P))>>,
     preset |-> <<Entry(Q), [Entry(Un("Not", Q)) EXCEPT !.removed = TRUE]>>,
     assert |-> <<Entry(Bin("Until", P, Q))>>, guarantee |-> <<>>]

OtherParent ==
    [SampleSpecification EXCEPT
        !.assume = <<Entry(Un("Globally", Un("Eventually", P)))>>, !.initially = <<Entry(Bin("And", P, P))>>, !.require = <<Entry(Q)>>,
        !.guarantee = <<Entry(Un("Next", P))>>]

Mutations == tlsf_mutate(SampleSpecification)

Crossings == tlsf_crossover(SampleSpecification, OtherParent)

\* A slot is compared with the one it descends from, and what was added with
\* nothing: to one of the two objectives alone.
DescendantIsCompared(spec, m) ==
    LET syntactic == tlsf_syntactic_similarity(spec, m)
        semantic == tlsf_semantic_similarity(spec, m, Fraction(1, 3))
        before == {<<slot[1], slot[2], spec[slot[1]][slot[2]]>> : slot \in live_slots(spec, sections_of)}
        after == {<<slot[1], slot[2], m[slot[1]][slot[2]]>> : slot \in live_slots(m, sections_of)}
    IN  /\ IsShare(syntactic) /\ IsShare(semantic)
        /\ syntactic = tlsf_syntactic_similarity(m, spec)
        /\ semantic = tlsf_semantic_similarity(m, spec, Fraction(1, 3))
        /\ (syntactic = One) <=> (before = after)
        /\ (semantic = One) <=> (before \subseteq after)

\* What is compared is what the code says is: two timings other than after 0
\* by the down-sets they share in the order of timings, two scopes by the
\* regions of a trace, which are the points they are about unless the mode of
\* an after comes back, two formulas by the subformulas they share; and two
\* specifications get one score whichever comes first (fitness/
\* syntactic_similarity.cpp, fitness/semantic_similarity.cpp,
\* prop_formula/similarity.cpp, tlsf/fitness.cpp).
ScoresAreOverlaps ==
    /\ OnRequirements => ScopesAreTheirRegions
    /\ OnRequirements /\ word = <<{}>> => TimingsAreMeasured
    /\ AtStart => \A g \in Others \cup {P, formula, Bin("And", formula, P), Bin("And", P, formula)} :
                      FormulasAreBags(formula, g)
    /\ AtStart /\ Small =>
           /\ \A spec \in Scored : SpecificationsAreCompared(spec)
           /\ \A m \in {SampleSpecification} \cup Mutations :
                  DescendantIsCompared(SampleSpecification, m)

-----------------------------------------------------------------------------
(* TLSF specifications, each section empty or of a conjunct or two *)

Entries(formulas) == [i \in DOMAIN formulas |-> Entry(formulas[i])]

Conjuncts ==
    [initially |-> <<P>>, preset |-> <<Q>>, require |-> <<Bin("Or", P, Q)>>,
     assume |-> <<Un("Globally", Un("Eventually", P))>>,
     assert |-> <<Q, Bin("Implies", P, Un("Next", Q))>>,
     guarantee |-> <<Un("Globally", Bin("And", Q, Un("Not", P))), Un("Eventually", Q)>>]

Without(section) == {<<>>, section}

InSections(semantics, initially, preset, require, assume, assert, guarantee) ==
    [semantics |-> semantics, inputs |-> <<"p">>, outputs |-> <<"q">>, initially |-> initially,
     preset |-> preset, require |-> require, assume |-> assume, assert |-> assert,
     guarantee |-> guarantee]

Semantics == {"MealyStandard", "MealyStrict"}

\* Of two guarantees the first may be removed.
TlsfSpecs ==
    LET All(name) == Entries(Conjuncts[name])
    IN  {InSections(c[1], c[2], c[3], c[4], c[5], c[6], c[7]) :
            c \in Semantics \X Without(All("initially")) \X Without(All("preset"))
                    \X Without(All("require")) \X Without(All("assume"))
                    \X ({SubSeq(All("assert"), 1, 1)} \cup Without(All("assert")))
                    \X ({[All("guarantee") EXCEPT ![1].removed = TRUE]}
                         \cup Without(All("guarantee")))}

Lowered == UNION {{<<spec, to_ltl_formula(spec)>>} : spec \in TlsfSpecs}

\* Those a verdict of spec carries over to: it assumes no less of the
\* environment and asks for no more.
CarriesTo(spec) ==
    LET sides == specification_sides(spec)
    IN  {other \in TlsfSpecs : LET others == specification_sides(other)
                               IN  /\ others.scope = sides.scope
                                   /\ sides.A \subseteq others.A /\ others.G \subseteq sides.G}

Carried == UNION {{<<spec, CarriesTo(spec)>>} : spec \in TlsfSpecs}

\* Each with its parts put together again, and with its candidates.
Reassembled ==
    UNION {LET parts == split_guarantee_parts(spec)
           IN  {<<spec, to_ltl_formula(build_part_subset(spec, parts, [i \in DOMAIN parts |-> i])),
                  to_ltl_formula(build_candidate_spec(spec, guarantee_side_candidates(spec)))>>}
           : spec \in TlsfSpecs}

\* What is asked of pairs that assume as much.
Questions ==
    UNION {UNION {{<<from, dest, tlsf_spec_implies(from, dest)>>}
                  : dest \in {d \in TlsfSpecs : specification_sides(d).A = specification_sides(from).A}}
           : from \in {f \in TlsfSpecs : Len(f.initially) = 1 /\ f.require = f.assume}}

\* What TLSF says: the guarantees are owed where the assumptions hold; of a
\* strict one the invariant is owed as long as the environment's has held.
SectionHolds(spec, name, at) == \A f \in ElementsOf(live_formulae(spec[name])) : f \in at

TlsfMeans(spec, at) ==
    LET Always(name) == \A i \in Pos : SectionHolds(spec, name, at[i])
        Now(name) == SectionHolds(spec, name, at[1])
        owed == Always("require") /\ Now("assume")
        Outlives == \A t \in 0..Len(word) :
            (\A u \in 0..t : SectionHolds(spec, "require", at[After(1, u)]))
              => SectionHolds(spec, "assert", at[After(1, t)])
    IN  Now("initially") =>
            /\ Now("preset")
            /\ IF Strict(spec) THEN Outlives ELSE owed => Always("assert")
            /\ owed => Now("guarantee")

\* The families of guarantee sides that are conflicts: those above some sets.
Culprits(parts) ==
    LET sets == (SUBSET parts) \ {{}}
    IN  {{a, b, c} : a \in sets, b \in sets, c \in sets}

CoresAreMinimal(spec) ==
    LET all == specification_sides(spec).G
        Pairs(core) == {<<core[i].section, core[i].formula>> : i \in DOMAIN core}
    IN  \A culprits \in Culprits(all), window \in 1..2 :
            LET realizable == {side \in SUBSET all : \A c \in culprits : ~(c \subseteq side)}
                core == Pairs(extract_muc(spec, realizable, window))
            IN  /\ core \subseteq all /\ core \notin realizable
                /\ \A part \in core : core \ {part} \in realizable

WithACore ==
    InSections("MealyStandard", <<>>, Entries(<<Q>>), <<>>, <<>>, Entries(<<Q, P, Q>>),
               Entries(<<Un("Eventually", P)>>))

SampleConjuncts == UNION {ElementsOf(Conjuncts[name]) : name \in Sections}

\* The specifications whose lowering holds of the word, and the conjuncts that
\* hold at each position.
HoldingAsTlsfSays(holding, at) ==
    /\ \A spec \in TlsfSpecs : spec \in holding <=> TlsfMeans(spec, at)
    /\ \A spec \in TlsfSpecs : 1 \in Meaning(assumption_ltl(spec)) =>
           (spec \in holding <=> 1 \in Meaning(guarantee_ltl(spec)))
    /\ \A pair \in Carried : pair[1] \in holding => pair[2] \subseteq holding
    /\ \A r \in Reassembled :
           /\ ~Strict(r[1]) => (1 \in Meaning(r[2]) <=> r[1] \in holding)
           /\ 1 \in Meaning(r[3]) <=> r[1] \in holding
    /\ \A q \in Questions :
           q[1] \in holding /\ q[2] \notin holding <=>
               \E asked \in q[3] : 1 \in Meaning(asked.holds) \ Meaning(asked.fails)

\* A specification is lowered to what TLSF says of it. What verdicts kept
\* under its sides are carried over by is an implication of the lowerings;
\* where it holds what it assumes, it is what it guarantees; its parts, and
\* the candidates for a core, make it up again; what is asked of two that
\* assume as much is whether the one implies the other; and a core is a
\* conflict no part of which can go (src/tlsf).
LoweringIsTlsf ==
    /\ Small /\ Len(word) <= 2 =>
           HoldingAsTlsfSays({pair[1] : pair \in {l \in Lowered : 1 \in Meaning(l[2])}},
                             [i \in Pos |-> {f \in SampleConjuncts : i \in Meaning(f)}])
    /\ AtStart /\ Small => CoresAreMinimal(WithACore)

\* "the split subset walk asks about the same specification the unsplit one
\* would" (tlsf/guarantee_parts.hpp): of a strict one too.
PartsMakeUpTheSpecification ==
    Small => \A r \in Reassembled :
        1 \in Meaning(r[2]) <=> 1 \in Meaning(to_ltl_formula(r[1]))

-----------------------------------------------------------------------------
(* Moves *)

\* A monotone rewrite weakens, or strengthens, the whole formula at every
\* position of every word, wherever it is made (genetic/monotone.cpp).
MonotoneMovesGoTheirWay ==
    formula \in Plain \cup Nested /\ Len(word) <= 2 =>
        /\ \A g \in monotone_rewrites(formula, TRUE, <<"p">>) : Meaning(formula) \subseteq Meaning(g)
        /\ \A g \in monotone_rewrites(formula, FALSE, <<"p">>) : Meaning(g) \subseteq Meaning(formula)

\* A move along an order, or in a formula, whole takes the requirement or the
\* formula the way it is said to: what it weakens implies what it becomes and
\* what it strengthens is implied by it, on every word (genetic/mutation.cpp,
\* genetic/monotone.cpp).
MovesGoTheirWay == DirectedMovesAreSound /\ MonotoneMovesGoTheirWay

InitialConditionsArePropositional(spec) ==
    \A name \in {"initially", "preset"} :
        \A i \in DOMAIN spec[name] : is_propositional(spec[name][i].formula)

SpeaksOfItsSide(spec) ==
    \A name \in Sections : \A i \in DOMAIN spec[name] :
        AtomsOf(spec[name][i].formula) \subseteq
            ElementsOf(section_atom_pool(spec, name)) \cup constant_atoms

\* Nothing but an assumption is added, what was removed stays as it is, and
\* something is still guaranteed.
KeepsItsSlots(before, after) ==
    /\ <<after.inputs, after.outputs>> = <<before.inputs, before.outputs>>
    /\ \A name \in Sections :
           /\ Len(after[name]) \in {Len(before[name]),
                                    Len(before[name]) + IF name = "assume" THEN 1 ELSE 0}
           /\ \A i \in DOMAIN before[name] :
                  before[name][i].removed => after[name][i] = before[name][i]
    /\ count_live_guarantees(after) > 0

IsMutationOf(spec, m) ==
    SpeaksOfItsSide(m) /\ KeepsItsSlots(spec, m) /\ InitialConditionsArePropositional(m)

\* Whatever is drawn, every conjunct of a TLSF specification keeps to its
\* section's signals, its tombstones stay and its last guarantee does too; no
\* mutation and no simplification makes an initial condition temporal; and a
\* rewrite or a crossover of FRETISH formulas stays propositional
\* (tlsf/mutation.cpp, tlsf/crossover.cpp, tlsf/specification.cpp).
MovesKeepTheFormat ==
    AtStart =>
        /\ Small =>
               /\ \A m \in Mutations : IsMutationOf(SampleSpecification, m)
                                       /\ IsMutationOf(m, tlsf_simplify(m))
               /\ \A c \in Crossings : SpeaksOfItsSide(c) /\ KeepsItsSlots(SampleSpecification, c)
        /\ is_propositional(formula) /\ (Len(formula) <= 2 \/ formula = Bin("Implies", P, Q)) =>
               \A g \in mutate_formula(formula, <<"p", "q">>)
                          \cup crossover_formula(formula, Bin("Iff", P, Un("Not", Q))) :
                   is_propositional(g) /\ AtomsOf(g) \subseteq Signals \cup constant_atoms

\* What include/tlsf/crossover.hpp:21-23 rests the choice of donors on: an
\* initial condition stays propositional. A join of two of them under U or W
\* does not (tlsf/crossover.cpp:129-134).
CrossoverKeepsInitialConditions ==
    AtStart /\ Small =>
        \A c \in Crossings : InitialConditionsArePropositional(c)

=============================================================================
