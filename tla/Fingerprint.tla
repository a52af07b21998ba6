---------------------------- MODULE Fingerprint ----------------------------
(***************************************************************************)
(* The words every implication sweep tests its pairs on before it asks a    *)
(* solver (src/src/fingerprint): formulas evaluated over ultimately periodic *)
(* words by fixed points over masks of positions, one bit a word, the bits   *)
(* packed into elements, sampled words first and then the models black finds *)
(* of the specifications themselves.                                         *)
(*                                                                           *)
(* A mask is the set of its bits.                                            *)
(***************************************************************************)
EXTENDS Formulas

CONSTANTS
    ElementWidth,       \* the words an element holds
    SampledElements,    \* the elements the sampled words fill
    MaxPositions        \* the positions a mask has bits for

full_mask(n) == 0..n - 1

\* A word: its positions, the one the last is followed by, a mask a signal.
LassoWord(positions, loop_start, signal_masks) ==
    [n_positions |-> positions, loop_start |-> loop_start, signal_masks |-> signal_masks]

\* The positions whose successor is in the mask.
shift_to_successor(mask, w) ==
    {i \in 0..w.n_positions - 2 : i + 1 \in mask}
    \cup {i \in {w.n_positions - 1} : w.loop_start \in mask}

\* Repeats current := once \cup (kept \cap the predecessors of current), a
\* round for each position and one more.
RECURSIVE fixed_point(_, _, _, _, _)
fixed_point(current, once, kept, w, round) ==
    LET next == once \cup (kept \cap shift_to_successor(current, w))
    IN  IF round > w.n_positions \/ next = current THEN current
        ELSE fixed_point(next, once, kept, w, round + 1)

\* Least fixed points start empty, greatest full.
least(once, kept, w) == fixed_point({}, once, kept, w, 0)

greatest(once, kept, w) == fixed_point(full_mask(w.n_positions), once, kept, w, 0)

atom_mask(name, w) ==
    IF name = "true" THEN full_mask(w.n_positions)
    ELSE IF name \in DOMAIN w.signal_masks THEN w.signal_masks[name] ELSE {}

\* The mask of every node, the children before their parent.
evaluate_arena(nodes, w) ==
    LET all == full_mask(w.n_positions)
        value[i \in DOMAIN nodes] ==
            LET node == nodes[i]
                left == value[node.left]
                right == value[node.right]
            IN  CASE node.type = "Atom" -> atom_mask(node.variable, w)
                  [] node.type = "Not" -> all \ left
                  [] node.type = "And" -> left \cap right
                  [] node.type = "Or" -> left \cup right
                  [] node.type = "Implies" -> (all \ left) \cup right
                  [] node.type = "Iff" -> (left \cap right) \cup (all \ (left \cup right))
                  [] node.type = "Next" -> shift_to_successor(left, w)
                  [] node.type = "Eventually" -> least(left, all, w)
                  [] node.type = "Globally" -> greatest({}, left, w)
                  [] node.type = "Until" -> least(right, left, w)
                  [] node.type = "WeakUntil" -> greatest(right, left, w)
                  [] node.type = "Release" -> greatest(left \cap right, right, w)
    IN  value

\* One bit a word: whether the formula holds at its first position.
fingerprint_of(text, words) ==
    LET nodes == parse(text).nodes
    IN  [i \in DOMAIN words |-> 0 \in evaluate_arena(nodes, words[i])[Len(nodes)]]

\* The low bits first.
pack(bits) ==
    [e \in 1..(Len(bits) + ElementWidth - 1) \div ElementWidth |->
        {b \in 0..ElementWidth - 1 :
            LET i == (e - 1) * ElementWidth + b + 1 IN i <= Len(bits) /\ bits[i]}]

\* A word the left accepts and the right rejects.
refutes_implication(lhs, rhs) == \E e \in DOMAIN lhs : lhs[e] \ rhs[e] # {}

refuted_by_model_alone(lhs, rhs) ==
    /\ \A e \in DOMAIN lhs : e <= SampledElements => lhs[e] \subseteq rhs[e]
    /\ \E e \in DOMAIN lhs : e > SampledElements /\ lhs[e] \ rhs[e] # {}

-----------------------------------------------------------------------------
(* The models of the specifications themselves *)

NoModel == {}

any_word_model == [states |-> <<<<>>>>, loop |-> 0]

\* black's answer, of which the states and the loop are read; an undefined
\* atom is left out, and a model of a finite trace has no loop. The loop at the end of the states is the last of them.
parse_black_model(answer) ==
    LET n == Len(answer.states)
        Values(state) == [a \in {b \in DOMAIN state : state[b] # "undef"} |-> state[a] = "true"]
        understood == \A i \in 1..n : \A a \in DOMAIN answer.states[i] :
                          answer.states[i][a] \in {"true", "false", "undef"}
    IN  IF answer.result # "SAT" \/ n = 0 \/ answer.loop = {} THEN NoModel
        ELSE IF ~understood \/ \E l \in answer.loop : l > n THEN NoModel
        ELSE {[states |-> [i \in 1..n |-> Values(answer.states[i])],
               loop |-> IF l < n THEN l ELSE n - 1] : l \in answer.loop}

\* What the model leaves open is false.
word_of_model(model, signals) ==
    LET n == Len(model.states)
        atoms == signals \cup UNION {DOMAIN model.states[i] : i \in 1..n}
        Holds(a, i) == a \in DOMAIN model.states[i] /\ model.states[i][a]
    IN  IF n = 0 \/ n > MaxPositions \/ model.loop >= n THEN {}
        ELSE {LassoWord(n, model.loop, [a \in atoms |-> {i \in 0..n - 1 : Holds(a, i + 1)}])}

KeyOf(text) == IF Parses(text) THEN canonical(parse(text).nodes) ELSE text

\* A constant has an answer without black; no model is also what a timeout is.
black_model(text, answer) ==
    IF text = <<"true">> THEN {any_word_model}
    ELSE IF text = <<"false">> THEN NoModel ELSE parse_black_model(answer)

\* One model a text, where there is one: the one the memo has of its key, or
\* of the misses that share the key the first's.
models_by_key(memo, keys, texts, answers) ==
    LET First(i) == CHOOSE j \in 1..i : /\ keys[j] = keys[i]
                                        /\ \A k \in 1..j - 1 : keys[k] # keys[i]
    IN  [i \in DOMAIN texts |-> IF keys[i] \in DOMAIN memo THEN memo[keys[i]]
                                ELSE black_model(texts[First(i)], answers[First(i)])]

models_of(memo, texts, answers) ==
    models_by_key(memo, [i \in DOMAIN texts |-> KeyOf(texts[i])], texts, answers)

\* Mutant of fingerprints_over: a text accepts the word found for it and is
\* taken to reject the words found for the others.
fingerprints_overOwn(texts, signals, sampled, memo, answers) ==
    LET models == models_of(memo, texts, answers)
        PrintOf(i) == pack(fingerprint_of(texts[i], sampled))
                    \o pack([m \in DOMAIN texts |-> m = i /\ models[i] # {}])
    IN  IF signals = {} \/ \E i \in DOMAIN texts : ~Parses(texts[i]) THEN <<>>
        ELSE [i \in DOMAIN texts |-> PrintOf(i)]

\* The words of the models there are, in the order of their texts.
model_words(models, signals) ==
    LET words == [i \in DOMAIN models |-> UNION {word_of_model(m, signals) : m \in models[i]}]
        Some(ws) == ws # {}
        found == SelectSeq(words, Some)
    IN  [k \in DOMAIN found |-> CHOOSE w \in found[k] : TRUE]

\* The model words start an element of their own.
prints_over(texts, sampled, own) ==
    [i \in DOMAIN texts |->
        pack(fingerprint_of(texts[i], sampled)) \o pack(fingerprint_of(texts[i], own))]

\* Without signals, or with a text that does not parse, there is no table.
fingerprints_over(texts, signals, sampled, memo, answers) ==
    IF signals = {} \/ \E i \in DOMAIN texts : ~Parses(texts[i]) THEN <<>>
    ELSE prints_over(texts, sampled, model_words(models_of(memo, texts, answers), signals))
=============================================================================
