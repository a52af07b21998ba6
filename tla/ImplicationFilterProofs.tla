----------------------- MODULE ImplicationFilterProofs -----------------------
(***************************************************************************)
(* What TLAPS proves of the implication filters, for every set of          *)
(* specifications, every implication relation, every pool size and every   *)
(* schedule, while no query times out: the unlocked flags of check_pair    *)
(* end up marking exactly the dominated specifications, so the batch       *)
(* filter keeps exactly the maximal ones; and so does the streaming one,   *)
(* in whatever batches it merges what is pushed.                           *)
(***************************************************************************)
EXTENDS BatchFilter, StreamingMaximal, WellFoundedInduction, TLAPS

-----------------------------------------------------------------------------
(* Dominance *)

\* Breaking ties inside a class by a total order keeps dominance transitive:
\* the fact the comment over check_pair rests its short-circuit on.
LEMMA DominanceTransitive ==
    ASSUME implication \in World, NEW a \in Spec, NEW b \in Spec, NEW c \in Spec,
           Dominates(a, b), Dominates(b, c)
    PROVE  Dominates(a, c)
<1>1. ImplicationIsPreorder(implication)
  BY DominanceAssumption
<1>2. Implies(a, b) /\ Implies(b, c) /\ Implies(a, c)
  BY <1>1 DEF Dominates, Implies, ImplicationIsPreorder
<1>3. Rank[a] \in Int /\ Rank[b] \in Int /\ Rank[c] \in Int
  BY DominanceAssumption
<1>4. a # c
  BY <1>2, <1>3 DEF Dominates, prefer_first
<1>5. Implies(c, a) => Implies(b, a) /\ Implies(c, b)
  BY <1>1, <1>2 DEF Implies, ImplicationIsPreorder
<1>6. ~Implies(c, a) \/ prefer_first(a, c)
  BY <1>3, <1>5 DEF Dominates, prefer_first
<1> QED BY <1>2, <1>4, <1>6 DEF Dominates

\* A nonempty set of specifications has a member nothing in it dominates.
LEMMA SomeMaximal ==
    ASSUME implication \in World, NEW S \in SUBSET Spec, S # {}
    PROVE  \E s \in S : \A t \in S : ~Dominates(t, s)
<1>1. HasMaximal(implication)
  BY DominanceAssumption
<1> QED BY <1>1 DEF HasMaximal, Dominates, Implies

-----------------------------------------------------------------------------
(* The sweep *)

\* A region that begins over distinct specifications, the settled ones among
\* them an antichain, begins well.
LEMMA BeginKeeps ==
    ASSUME implication \in World, NEW list \in Seq(Spec), NEW settled \in 0 .. Len(list),
           NEW printed,
           \A i, j \in 1 .. Len(list) : list[i] = list[j] => i = j,
           \A i, j \in 1 .. settled : ~Dominates(list[i], list[j]),
           BeginSweep(list, settled, printed)
    PROVE  SweepInv'
<1>1. /\ specs' = list /\ n_settled' = settled /\ implication' = implication
      /\ checking' = {} /\ subsumed' = {} /\ threw' = FALSE
      /\ unstarted' \subseteq PairsOf(Len(list), settled)
  BY DEF BeginSweep
<1>2. Len(list) \in Nat
  OBVIOUS
<1>3. SweepTypeOK'
  <2>1. threw' \in BOOLEAN
    BY <1>1
  <2>2. Position' = 1 .. Len(list)
    BY <1>1 DEF Position
  <2>3. /\ unstarted' \subseteq (1 .. Len(list)) \X (1 .. Len(list))
        /\ \A p \in unstarted' : p[1] < p[2]
    BY <1>1 DEF PairsOf
  <2> QED BY <1>1, <2>1, <2>2, <2>3 DEF SweepTypeOK
<1>4. SpecsAreDistinct'
  BY <1>1 DEF SpecsAreDistinct, Position
<1>5. MarkedAreDominated'
  BY <1>1 DEF MarkedAreDominated
<1>6. Progress'
  <2> SUFFICES ASSUME NEW i \in 1 .. Len(list), NEW j \in 1 .. Len(list),
                      Dominates(list[i], list[j])
               PROVE  PairOf(i, j) \in unstarted'
    BY <1>1 DEF Progress, Position, Dominates, Implies, prefer_first, PairOf
  <2>1. i # j /\ Implies(list[i], list[j])
    BY DEF Dominates
  <2>2. ~(i \in 1 .. settled /\ j \in 1 .. settled)
    OBVIOUS
  <2>3. CASE i < j
    <3>1. <<i, j>> \in PairsOf(Len(list), settled)
      BY <1>2, <2>2, <2>3 DEF PairsOf
    <3> QED BY <2>1, <2>3, <3>1 DEF BeginSweep, PairOf
  <2>4. CASE j < i
    <3>1. <<j, i>> \in PairsOf(Len(list), settled)
      BY <1>2, <2>2, <2>4 DEF PairsOf
    <3> QED BY <2>1, <2>4, <3>1 DEF BeginSweep, PairOf
  <2> QED BY <1>2, <2>1, <2>3, <2>4
<1> QED BY <1>3, <1>4, <1>5, <1>6 DEF SweepInv

\* Reading the flags and going ahead, or skipping the pair, keeps it.
LEMMA StartKeeps ==
    ASSUME SweepInv, NEW p \in unstarted, StartCheck(p)
    PROVE  SweepInv'
<1> USE DEF SweepInv
<1>1. /\ UNCHANGED <<implication, specs, n_settled, subsumed, threw>>
      /\ unstarted' = unstarted \ {p}
      /\ checking' \subseteq checking \cup {p}
      /\ p[1] \in subsumed \/ p[2] \in subsumed \/ checking' = checking \cup {p}
      /\ checking \subseteq checking'
  BY DEF StartCheck
<1>2. Position' = Position
  BY <1>1 DEF Position
<1>3. SweepTypeOK'
  BY <1>1, <1>2 DEF SweepTypeOK
<1>4. SpecsAreDistinct' /\ MarkedAreDominated'
  BY <1>1, <1>2 DEF SpecsAreDistinct, MarkedAreDominated, Dominates, Implies, prefer_first
<1>5. Progress'
  <2> SUFFICES ASSUME NEW i \in Position, NEW j \in Position,
                      Dominates(specs[i], specs[j])
               PROVE  \/ PairOf(i, j) \in unstarted' \cup checking'
                      \/ i \in subsumed \/ j \in subsumed \/ threw
    BY <1>1, <1>2 DEF Progress, Dominates, Implies, prefer_first, PairOf
  <2>1. CASE PairOf(i, j) = p
    BY <1>1, <2>1 DEF PairOf
  <2>2. CASE PairOf(i, j) # p
    BY <1>1, <2>2 DEF Progress
  <2> QED BY <2>1, <2>2
<1> QED BY <1>3, <1>4, <1>5

\* Storing the flag a decided comparison calls for keeps it.
LEMMA FinishKeeps ==
    ASSUME SweepInv, NEW p \in checking, FinishCheck(p, FALSE)
    PROVE  SweepInv'
<1> USE DEF SweepInv
<1> DEFINE a == specs[p[1]]
           b == specs[p[2]]
<1>1. /\ UNCHANGED <<implication, specs, n_settled, unstarted, threw>>
      /\ checking' = checking \ {p}
      /\ subsumed' = subsumed \cup Marked(p, Implies(a, b), Implies(b, a))
  BY DEF FinishCheck, Answers
<1>2. Position' = Position
  BY <1>1 DEF Position
<1>3. /\ p[1] \in Position /\ p[2] \in Position /\ p[1] < p[2]
      /\ p[1] \in Int /\ p[2] \in Int
      /\ a \in Spec /\ b \in Spec /\ a # b
  BY DEF SweepTypeOK, Position, SpecsAreDistinct
<1>4. Rank[a] \in Int /\ Rank[b] \in Int /\ Rank[a] # Rank[b]
  BY <1>3, DominanceAssumption
<1>5. /\ p[1] \in Marked(p, Implies(a, b), Implies(b, a)) <=> Dominates(b, a)
      /\ p[2] \in Marked(p, Implies(a, b), Implies(b, a)) <=> Dominates(a, b)
      /\ Marked(p, Implies(a, b), Implies(b, a)) \subseteq {p[1], p[2]}
  BY <1>3, <1>4 DEF Marked, Dominates, prefer_first
<1>6. SweepTypeOK'
  <2>1. threw' \in BOOLEAN
    BY <1>1 DEF SweepTypeOK
  <2> QED BY <1>1, <1>2, <1>3, <1>5, <2>1 DEF SweepTypeOK
<1>7. SpecsAreDistinct'
  BY <1>1, <1>2 DEF SpecsAreDistinct
<1>8. MarkedAreDominated'
  <2> SUFFICES ASSUME NEW i \in subsumed'
               PROVE  \E j \in Position : Dominates(specs[j], specs[i])
    BY <1>1, <1>2 DEF MarkedAreDominated, Dominates, Implies, prefer_first
  <2>1. CASE i \in subsumed
    BY <2>1 DEF MarkedAreDominated
  <2>2. CASE i \notin subsumed
    <3>1. i \in {p[1], p[2]} /\ i \in Marked(p, Implies(a, b), Implies(b, a))
      BY <1>1, <1>5, <2>2
    <3> QED BY <1>3, <1>5, <3>1
  <2> QED BY <2>1, <2>2
<1>9. Progress'
  <2> SUFFICES ASSUME NEW i \in Position, NEW j \in Position,
                      Dominates(specs[i], specs[j])
               PROVE  \/ PairOf(i, j) \in unstarted \cup checking'
                      \/ i \in subsumed' \/ j \in subsumed' \/ threw
    BY <1>1, <1>2 DEF Progress, Dominates, Implies, prefer_first, PairOf
  <2>1. CASE PairOf(i, j) = p
    <3>1. (i = p[1] /\ j = p[2]) \/ (i = p[2] /\ j = p[1])
      BY <2>1 DEF PairOf
    <3> QED BY <1>1, <1>5, <3>1
  <2>2. CASE PairOf(i, j) # p
    BY <1>1, <2>2 DEF Progress
  <2> QED BY <2>1, <2>2
<1> QED BY <1>6, <1>7, <1>8, <1>9

\* A check that throws keeps it, Progress being excused from then on.
LEMMA ThrowKeeps ==
    ASSUME SweepInv, NEW p \in checking, ThrowCheck(p)
    PROVE  SweepInv'
<1> USE DEF SweepInv
<1>1. /\ UNCHANGED <<implication, specs, n_settled, unstarted, subsumed>>
      /\ checking' = checking \ {p}
      /\ threw'
  BY DEF ThrowCheck
<1>2. Position' = Position
  BY <1>1 DEF Position
<1>3. threw' \in BOOLEAN
  BY DEF ThrowCheck
<1>4. SweepTypeOK'
  BY <1>1, <1>2, <1>3 DEF SweepTypeOK
<1>5. SpecsAreDistinct' /\ MarkedAreDominated'
  BY <1>1, <1>2 DEF SpecsAreDistinct, MarkedAreDominated, Dominates, Implies, prefer_first
<1>6. Progress'
  BY <1>1 DEF Progress
<1> QED BY <1>4, <1>5, <1>6

\* When the region returns, the marked positions are the dominated ones.
LEMMA SweepIsExact ==
    ASSUME SweepInv, SweepReturns, NEW i \in Position
    PROVE  i \in subsumed <=> \E j \in Position : Dominates(specs[j], specs[i])
<1> USE DEF SweepInv
<1>1. ASSUME NEW j \in Position, Dominates(specs[j], specs[i])
      PROVE  i \in subsumed
  <2> DEFINE D == {s \in Spec : \E k \in Position : s = specs[k] /\ Dominates(s, specs[i])}
  <2>1. \A k \in Position : specs[k] \in Spec
    BY DEF SweepTypeOK, Position
  <2>2. implication \in World
    BY DEF SweepTypeOK
  <2>3. PICK s \in D : \A t \in D : ~Dominates(t, s)
    <3>1. D \in SUBSET Spec /\ D # {}
      BY <1>1, <2>1
    <3> QED BY <2>2, <3>1, SomeMaximal
  <2>4. PICK k \in Position : s = specs[k] /\ Dominates(specs[k], specs[i])
    BY <2>3
  <2>5. k \notin subsumed
    <3> SUFFICES ASSUME k \in subsumed PROVE FALSE
      OBVIOUS
    <3>1. PICK m \in Position : Dominates(specs[m], specs[k])
      BY DEF MarkedAreDominated
    <3>2. Dominates(specs[m], specs[i])
      BY <2>1, <2>2, <2>4, <3>1, DominanceTransitive
    <3> QED BY <2>1, <2>3, <2>4, <3>1, <3>2
  <2> QED BY <2>4, <2>5 DEF Progress, SweepReturns
<1> QED BY <1>1 DEF MarkedAreDominated

-----------------------------------------------------------------------------
(* The batch filter *)

\* A nonempty set of natural numbers has a least element.
LEMMA LeastNatural ==
    ASSUME NEW T \in SUBSET Nat, T # {}
    PROVE  \E x \in T : \A y \in T : x <= y
<1>1. PICK x \in T : \A y \in T : ~ (<<y, x>> \in OpToRel(<, Nat))
  BY NatLessThanWellFounded, WFMin
<1>2. ASSUME NEW y \in T, y < x PROVE FALSE
  <2>1. <<y, x>> \in OpToRel(<, Nat)
    BY <1>2 DEF OpToRel
  <2> QED BY <1>1, <2>1
<1> QED BY <1>2

\* Every entry of the population has a first copy.
LEMMA FirstCopyExists ==
    ASSUME pop \in Seq(Spec), NEW i \in DOMAIN pop
    PROVE  \E f \in FirstCopies : pop[f] = pop[i]
<1> DEFINE T == {j \in DOMAIN pop : pop[j] = pop[i]}
<1>1. DOMAIN pop = 1 .. Len(pop) /\ Len(pop) \in Nat
  OBVIOUS
<1>2. T \in SUBSET Nat /\ i \in T
  BY <1>1
<1>3. PICK f \in T : \A y \in T : f <= y
  BY <1>2, LeastNatural
<1>4. \A j \in 1 .. f - 1 : pop[j] # pop[f]
  BY <1>1, <1>3
<1> QED BY <1>3, <1>4 DEF FirstCopies

\* The population and its representatives stay what the call was given.
BatchInv ==
    /\ SweepInv
    /\ pop \in Seq(Spec)
    /\ phase \in {"call", "sweep", "returned", "threw"}
    /\ phase # "call" =>
         /\ representatives \in Seq(DOMAIN pop)
         /\ representatives_of(representatives)
         /\ specs = [k \in DOMAIN representatives |-> pop[representatives[k]]]
    /\ phase = "returned" =>
         /\ SweepReturns
         /\ result = [i \in DOMAIN pop |->
                        ~ \E k \in Survivors : representatives[k] = i]

LEMMA BatchBegins == BatchInit => BatchInv
<1> SUFFICES ASSUME BatchInit PROVE BatchInv
  OBVIOUS
<1>1. pop \in Seq(Spec)
  BY DEF BatchInit, SeqOf
<1>2. Position = {} /\ specs = <<>>
  BY DEF BatchInit, SweepInit, Position
<1>3. threw \in BOOLEAN
  BY DEF BatchInit, SweepInit
<1>4. SweepTypeOK
  BY <1>2, <1>3 DEF BatchInit, SweepInit, SweepTypeOK
<1>5. SweepInv
  BY <1>2, <1>4 DEF BatchInit, SweepInit, SweepInv, SpecsAreDistinct, MarkedAreDominated, Progress
<1> QED BY <1>1, <1>5 DEF BatchInv, BatchInit

LEMMA BatchStep ==
    ASSUME MayTimeOut = FALSE, BatchInv, [BatchNext]_batchVars
    PROVE  BatchInv'
<1> USE DEF BatchInv
<1>1. CASE Call
  <2>1. PICK list \in SeqOf(DOMAIN pop, Len(pop)), printed \in SUBSET Range(pop) :
          /\ representatives_of(list)
          /\ representatives' = list
          /\ BeginSweep([k \in DOMAIN list |-> pop[list[k]]], 0, printed)
    BY <1>1 DEF Call
  <2> DEFINE firsts == [k \in DOMAIN list |-> pop[list[k]]]
  <2>2. list \in Seq(DOMAIN pop) /\ DOMAIN list = 1 .. Len(list) /\ Len(list) \in Nat
    BY DEF SeqOf
  <2>3. firsts \in Seq(Spec) /\ Len(firsts) = Len(list)
    BY <2>2
  <2>4. ASSUME NEW k \in 1 .. Len(list), NEW l \in 1 .. Len(list), k < l
        PROVE  firsts[k] # firsts[l]
    <3>1. list[k] < list[l] /\ list[l] \in FirstCopies
      BY <2>1, <2>2, <2>4 DEF representatives_of, Range
    <3>2. list[k] \in 1 .. list[l] - 1
      BY <2>2, <3>1
    <3> QED BY <2>2, <3>1, <3>2 DEF FirstCopies
  <2>5. \A k, l \in 1 .. Len(firsts) : firsts[k] = firsts[l] => k = l
    BY <2>2, <2>3, <2>4
  <2>6. SweepInv'
    <3>1. implication \in World
      BY DEF SweepInv, SweepTypeOK
    <3>2. 0 \in 0 .. Len(firsts)
      BY <2>3
    <3>3. BeginSweep(firsts, 0, printed)
      BY <2>1
    <3>4. \A k, l \in 1 .. 0 : ~Dominates(firsts[k], firsts[l])
      OBVIOUS
    <3> HIDE DEF firsts
    <3> QED BY <2>3, <2>5, <3>1, <3>2, <3>3, <3>4, BeginKeeps
  <2>7. /\ pop' = pop /\ phase' = "sweep"
        /\ specs' = [k \in DOMAIN representatives' |-> pop[representatives'[k]]]
    BY <1>1, <2>1 DEF Call, BeginSweep
  <2> QED BY <2>1, <2>2, <2>6, <2>7 DEF representatives_of, FirstCopies
<1>2. CASE CheckPair
  <2>1. SweepInv'
    BY <1>2, StartKeeps, FinishKeeps, ThrowKeeps DEF CheckPair
  <2>2. UNCHANGED <<pop, representatives, phase, result, specs>> /\ phase = "sweep"
    BY <1>2 DEF CheckPair, StartCheck, FinishCheck, ThrowCheck
  <2> QED BY <2>1, <2>2 DEF representatives_of, FirstCopies
<1>3. CASE Return \/ Throw \/ UNCHANGED batchVars
  <2>1. UNCHANGED <<sweepVars, pop, representatives>>
    BY <1>3 DEF Return, Throw, batchVars, sweepVars
  <2>2. SweepInv' /\ Survivors' = Survivors /\ (SweepReturns' <=> SweepReturns)
    <3>1. UNCHANGED sweepVars
      BY <2>1
    <3> QED BY <3>1 DEF sweepVars, SweepInv, SweepTypeOK, SpecsAreDistinct, MarkedAreDominated,
                        Progress, Position, Dominates, Implies, prefer_first, PairOf,
                        Survivors, SweepReturns
  <2>3. representatives_of(representatives)' <=> representatives_of(representatives)
    BY <2>1 DEF representatives_of, FirstCopies
  <2>4. specs' = specs
    BY <2>1 DEF sweepVars
  <2> QED BY <1>3, <2>1, <2>2, <2>3, <2>4 DEF Return, Throw, batchVars
<1> QED BY <1>1, <1>2, <1>3 DEF BatchNext

\* The invariant of the batch filter, for every schedule of its checks.
THEOREM BatchInvariant ==
    ASSUME MayTimeOut = FALSE
    PROVE  BatchSpec => []BatchInv
<1>1. BatchInv /\ [BatchNext]_batchVars => BatchInv'
  BY BatchStep
<1> QED BY <1>1, BatchBegins, PTL DEF BatchSpec

\* While no query times out, no flag is ever set on a maximal specification.
THEOREM FlagsAreSound ==
    ASSUME MayTimeOut = FALSE
    PROVE  BatchSpec => []NeverMarksAMaximal
<1>1. BatchInv => NeverMarksAMaximal
  BY DEF BatchInv, SweepInv, MarkedAreDominated, NeverMarksAMaximal, Position,
         Dominates, Implies, prefer_first
<1> QED BY <1>1, BatchInvariant, PTL

\* While no query times out, the filter keeps the first copy of each maximal
\* specification and nothing else, whatever the schedule.
THEOREM BatchFilterIsExact ==
    ASSUME MayTimeOut = FALSE
    PROVE  BatchSpec => []KeepsExactlyTheMaximal
<1>1. BatchInv => KeepsExactlyTheMaximal
  <2> SUFFICES ASSUME BatchInv, phase = "returned", NEW i \in DOMAIN pop
               PROVE  ~result[i] <=> i \in FirstCopies /\ pop[i] \in MaximalOf(Range(pop))
    BY DEF KeepsExactlyTheMaximal
  <2> USE DEF BatchInv
  <2>1. /\ DOMAIN representatives = 1 .. Len(representatives)
        /\ \A k \in DOMAIN representatives : representatives[k] \in DOMAIN pop
        /\ Len(specs) = Len(representatives)
        /\ Range(representatives) = FirstCopies
    BY DEF representatives_of
  <2>2. Position = DOMAIN representatives
    BY <2>1 DEF Position
  <2>3. \A k \in Position : specs[k] = pop[representatives[k]]
    BY <2>1, <2>2
  <2>4. ASSUME NEW k \in Position
        PROVE  k \in Survivors <=> specs[k] \in MaximalOf(Range(pop))
    <3>1. k \in Survivors <=> ~ \E j \in Position : Dominates(specs[j], specs[k])
      BY SweepIsExact DEF Survivors
    <3>2. specs[k] \in Range(pop)
      BY <2>1, <2>2, <2>3 DEF Range
    <3>3. ASSUME NEW t \in Range(pop) PROVE \E j \in Position : specs[j] = t
      <4>1. PICK n \in DOMAIN pop : pop[n] = t
        BY DEF Range
      <4>2. PICK f \in FirstCopies : pop[f] = t
        BY <4>1, FirstCopyExists
      <4>3. PICK j \in DOMAIN representatives : representatives[j] = f
        BY <2>1 DEF Range
      <4> QED BY <2>2, <2>3, <4>2, <4>3
    <3>4. \A j \in Position : specs[j] \in Range(pop)
      BY <2>1, <2>2, <2>3 DEF Range
    <3>5. (\E j \in Position : Dominates(specs[j], specs[k]))
             <=> \E t \in Range(pop) : Dominates(t, specs[k])
      BY <3>3, <3>4
    <3> QED BY <3>1, <3>2, <3>5 DEF MaximalOf
  <2>5. ~result[i] <=> \E k \in Survivors : representatives[k] = i
    OBVIOUS
  <2>6. i \in FirstCopies <=> \E k \in Position : representatives[k] = i
    BY <2>1, <2>2 DEF Range
  <2>7. Survivors \subseteq Position
    BY DEF Survivors
  <2>8. \A k \in Position : representatives[k] = i =>
          (k \in Survivors <=> pop[i] \in MaximalOf(Range(pop)))
    BY <2>3, <2>4
  <2> QED BY <2>5, <2>6, <2>7, <2>8
<1> QED BY <1>1, BatchInvariant, PTL

-----------------------------------------------------------------------------
(* Lists in order *)

LEMMA InOrderIs ==
    ASSUME NEW S, NEW list, NEW sub \in InOrder(S, list), Len(list) \in Nat
    PROVE  /\ sub \in Seq(S) /\ Range(sub) = S
           /\ Len(sub) \in Nat /\ Len(sub) <= Len(list) /\ DOMAIN sub = 1 .. Len(sub)
           /\ \A i, j \in DOMAIN sub : i < j =>
                \E k, l \in DOMAIN list : k < l /\ list[k] = sub[i] /\ list[l] = sub[j]
<1>1. PICK m \in 0 .. Len(list) : sub \in [1 .. m -> S]
  BY DEF InOrder, SeqOf
<1>2. sub \in Seq(S) /\ Len(sub) = m
  BY <1>1
<1> QED BY <1>1, <1>2 DEF InOrder

LEMMA IsInOrder ==
    ASSUME NEW S, NEW list, Len(list) \in Nat, NEW sub \in Seq(S), Range(sub) = S,
           Len(sub) <= Len(list),
           \A i, j \in DOMAIN sub : i < j =>
             \E k, l \in DOMAIN list : k < l /\ list[k] = sub[i] /\ list[l] = sub[j]
    PROVE  sub \in InOrder(S, list)
<1>1. Len(sub) \in 0 .. Len(list) /\ sub \in [1 .. Len(sub) -> S]
  OBVIOUS
<1>2. sub \in SeqOf(S, Len(list))
  BY <1>1 DEF SeqOf
<1> QED BY <1>2 DEF InOrder

\* A part in order of a part in order is one of the whole.
LEMMA InOrderTransitive ==
    ASSUME NEW S, NEW T, NEW list, Len(list) \in Nat, NEW mid \in InOrder(T, list),
           NEW sub \in InOrder(S, mid)
    PROVE  sub \in InOrder(S, list)
<1>1. /\ Len(mid) \in Nat /\ Len(mid) <= Len(list)
      /\ \A i, j \in DOMAIN mid : i < j =>
           \E k, l \in DOMAIN list : k < l /\ list[k] = mid[i] /\ list[l] = mid[j]
  BY InOrderIs
<1>2. /\ sub \in Seq(S) /\ Range(sub) = S /\ Len(sub) \in Nat /\ Len(sub) <= Len(mid)
      /\ \A i, j \in DOMAIN sub : i < j =>
           \E k, l \in DOMAIN mid : k < l /\ mid[k] = sub[i] /\ mid[l] = sub[j]
  BY <1>1, InOrderIs
<1>3. ASSUME NEW i \in DOMAIN sub, NEW j \in DOMAIN sub, i < j
      PROVE  \E k, l \in DOMAIN list : k < l /\ list[k] = sub[i] /\ list[l] = sub[j]
  <2>1. PICK k, l \in DOMAIN mid : k < l /\ mid[k] = sub[i] /\ mid[l] = sub[j]
    BY <1>2, <1>3
  <2>2. PICK k2, l2 \in DOMAIN list : k2 < l2 /\ list[k2] = mid[k] /\ list[l2] = mid[l]
    BY <1>1, <2>1
  <2> QED BY <2>1, <2>2
<1>4. Len(sub) <= Len(list)
  BY <1>1, <1>2
<1> QED BY <1>2, <1>3, <1>4, IsInOrder

\* A part in order of distinct members lists each of its own once.
LEMMA InOrderIsDistinct ==
    ASSUME NEW S, NEW list, Len(list) \in Nat, NEW sub \in InOrder(S, list),
           \A k, l \in DOMAIN list : list[k] = list[l] => k = l
    PROVE  \A i, j \in DOMAIN sub : sub[i] = sub[j] => i = j
<1>1. /\ DOMAIN sub = 1 .. Len(sub)
      /\ \A i, j \in DOMAIN sub : i < j =>
           \E k, l \in DOMAIN list : k < l /\ list[k] = sub[i] /\ list[l] = sub[j]
  BY InOrderIs
<1>2. ASSUME NEW i \in DOMAIN sub, NEW j \in DOMAIN sub, i < j PROVE sub[i] # sub[j]
  <2>1. PICK k, l \in DOMAIN list : k < l /\ list[k] = sub[i] /\ list[l] = sub[j]
    BY <1>1, <1>2
  <2> QED BY <2>1
<1> QED BY <1>1, <1>2

-----------------------------------------------------------------------------
(* Merging *)

\* What was dropped batches ago need not be asked about again: whatever it
\* dominated, a member that was kept dominates too.
LEMMA MergingKeepsTheMaximal ==
    ASSUME implication \in World, NEW A \in SUBSET Spec, NEW B \in SUBSET Spec
    PROVE  MaximalOf(MaximalOf(A) \cup B) = MaximalOf(A \cup B)
<1>1. ASSUME NEW s \in MaximalOf(A \cup B) PROVE s \in MaximalOf(MaximalOf(A) \cup B)
  BY <1>1 DEF MaximalOf
<1>2. ASSUME NEW s \in MaximalOf(MaximalOf(A) \cup B), NEW t \in A, Dominates(t, s)
      PROVE  FALSE
  <2> DEFINE D == {x \in A : Dominates(x, s)}
  <2>1. s \in Spec
    BY DEF MaximalOf
  <2>2. PICK x \in D : \A y \in D : ~Dominates(y, x)
    <3>1. D \in SUBSET Spec /\ D # {}
      BY <1>2
    <3> HIDE DEF D
    <3> QED BY <3>1, SomeMaximal
  <2>3. x \in MaximalOf(A)
    <3> SUFFICES ASSUME NEW y \in A, Dominates(y, x) PROVE FALSE
      BY <2>2 DEF MaximalOf
    <3>1. Dominates(y, s)
      BY <2>1, <2>2, DominanceTransitive
    <3> QED BY <2>2, <3>1
  <2> QED BY <2>2, <2>3 DEF MaximalOf
<1>3. ASSUME NEW s \in MaximalOf(MaximalOf(A) \cup B) PROVE s \in MaximalOf(A \cup B)
  <2>1. s \in A \cup B
    BY DEF MaximalOf
  <2>2. \A t \in B : ~Dominates(t, s)
    BY DEF MaximalOf
  <2>3. \A t \in A : ~Dominates(t, s)
    BY <1>2
  <2> QED BY <2>1, <2>2, <2>3 DEF MaximalOf
<1> QED BY <1>1, <1>3

\* The sweep that returns has left unmarked exactly the maximal ones.
LEMMA SurvivorsAreMaximal ==
    ASSUME SweepInv, SweepReturns
    PROVE  {specs[i] : i \in Survivors} = MaximalOf(Range(specs))
<1>1. DOMAIN specs = Position
  BY DEF SweepInv, SweepTypeOK, Position
<1>2. \A i \in Position : i \in Survivors <=> ~ \E j \in Position : Dominates(specs[j], specs[i])
  BY SweepIsExact DEF Survivors
<1>3. Survivors \subseteq Position
  BY DEF Survivors
<1>4. Range(specs) = {specs[i] : i \in Position}
  BY <1>1 DEF Range
<1>5. \A i \in Position : specs[i] \in MaximalOf(Range(specs)) <=>
                             ~ \E j \in Position : Dominates(specs[j], specs[i])
  BY <1>4 DEF MaximalOf
<1>6. \A s \in MaximalOf(Range(specs)) : \E i \in Position : s = specs[i]
  BY <1>4 DEF MaximalOf
<1> QED BY <1>2, <1>3, <1>5, <1>6

-----------------------------------------------------------------------------
(* The streaming filter's books *)

\* Pending, without the concatenation.
PendingIsWhatWaits ==
    /\ Pending \in Seq(Spec)
    /\ coordinator \in {"took", "merge"} =>
         /\ Len(Pending) = Len(batch) + Len(m_queue)
         /\ \A k \in 1 .. Len(batch) : Pending[k] = batch[k]
         /\ \A k \in 1 .. Len(m_queue) : Pending[Len(batch) + k] = m_queue[k]
    /\ coordinator \notin {"took", "merge"} =>
         /\ Len(Pending) = Len(m_queue)
         /\ \A k \in 1 .. Len(m_queue) : Pending[k] = m_queue[k]

LEMMA PendingIs == TypeOK => PendingIsWhatWaits
<1> SUFFICES ASSUME TypeOK PROVE PendingIsWhatWaits
  OBVIOUS
<1>1. batch \in Seq(Spec) /\ m_queue \in Seq(Spec)
  BY DEF TypeOK
<1>2. CASE coordinator \in {"took", "merge"}
  <2>1. Pending = batch \o m_queue
    BY <1>2 DEF Pending
  <2> QED BY <1>1, <1>2, <2>1 DEF PendingIsWhatWaits
<1>3. CASE coordinator \notin {"took", "merge"}
  <2>1. Pending = <<>> \o m_queue
    BY <1>3 DEF Pending
  <2>2. <<>> \in Seq(Spec) /\ Len(<<>>) = 0
    OBVIOUS
  <2> QED BY <1>1, <1>3, <2>1, <2>2 DEF PendingIsWhatWaits
<1> QED BY <1>2, <1>3

LEMMA PendingWillBe == TypeOK' => PendingIsWhatWaits'
BY PendingIs, PTL

\* A step that pushes nothing and leaves what is pending, whether it waits in
\* the queue or in the coordinator's batch.
LEMMA PendingStays ==
    ASSUME TypeOK, TypeOK', NothingPendingIsLost, pushed' = pushed,
           \/ /\ UNCHANGED <<m_queue, batch>>
              /\ coordinator \in {"took", "merge"} <=> coordinator' \in {"took", "merge"}
           \/ /\ coordinator = "wait" /\ coordinator' = "took"
              /\ batch' = m_queue /\ m_queue' = <<>>
    PROVE  NothingPendingIsLost' /\ n_merged' = n_merged
<1>1. PendingIsWhatWaits /\ PendingIsWhatWaits'
  BY PendingIs, PendingWillBe
<1>2. /\ m_queue \in Seq(Spec) /\ batch \in Seq(Spec) /\ pushed \in Seq(Spec)
      /\ m_queue' \in Seq(Spec) /\ batch' \in Seq(Spec)
  BY DEF TypeOK
<1>3. /\ Len(Pending') = Len(Pending)
      /\ \A k \in 1 .. Len(Pending) : Pending'[k] = Pending[k]
  <2>1. CASE coordinator = "wait" /\ coordinator' = "took"
    <3>1. /\ Len(Pending) = Len(m_queue)
          /\ \A k \in 1 .. Len(m_queue) : Pending[k] = m_queue[k]
      BY <1>1, <2>1 DEF PendingIsWhatWaits
    <3>2. /\ Len(Pending') = Len(batch') + Len(m_queue')
          /\ \A k \in 1 .. Len(batch') : Pending'[k] = batch'[k]
      BY <1>1, <2>1 DEF PendingIsWhatWaits
    <3>3. batch' = m_queue /\ Len(m_queue') = 0
      BY <1>1, <2>1
    <3> QED BY <1>2, <3>1, <3>2, <3>3
  <2>2. CASE /\ UNCHANGED <<m_queue, batch>>
             /\ coordinator \in {"took", "merge"} <=> coordinator' \in {"took", "merge"}
    <3>1. CASE coordinator \in {"took", "merge"}
      <4>1. Pending = batch \o m_queue /\ Pending' = batch \o m_queue
        BY <2>2, <3>1 DEF Pending
      <4> QED BY <4>1
    <3>2. CASE coordinator \notin {"took", "merge"}
      <4>1. Pending = <<>> \o m_queue /\ Pending' = <<>> \o m_queue
        BY <2>2, <3>2 DEF Pending
      <4> QED BY <4>1
    <3> QED BY <3>1, <3>2
  <2> QED BY <2>1, <2>2
<1>4. n_merged' = n_merged
  BY <1>3 DEF n_merged
<1>5. DOMAIN Pending' = DOMAIN Pending
  BY <1>1, <1>3 DEF PendingIsWhatWaits
<1>6. DOMAIN Pending = 1 .. Len(Pending)
  BY <1>1 DEF PendingIsWhatWaits
<1> QED BY <1>3, <1>4, <1>5, <1>6 DEF NothingPendingIsLost

\* A step that is done with the batch, merged or dropped.
LEMMA BatchIsDone ==
    ASSUME TypeOK, TypeOK', NothingPendingIsLost, UNCHANGED <<pushed, m_queue, batch>>,
           coordinator \in {"took", "merge"}, coordinator' \notin {"took", "merge"}
    PROVE  NothingPendingIsLost' /\ n_merged' = n_merged + Len(batch)
<1>1. PendingIsWhatWaits /\ PendingIsWhatWaits'
  BY PendingIs, PendingWillBe
<1>2. /\ m_queue \in Seq(Spec) /\ batch \in Seq(Spec) /\ pushed \in Seq(Spec)
      /\ Len(batch) \in Nat /\ Len(m_queue) \in Nat /\ Len(pushed) \in Nat
  BY DEF TypeOK
<1>3. /\ Len(Pending) = Len(batch) + Len(Pending')
      /\ \A k \in 1 .. Len(Pending') : Pending'[k] = Pending[Len(batch) + k]
      /\ Len(Pending') \in Nat
  BY <1>1, <1>2 DEF PendingIsWhatWaits
<1>4. n_merged' = n_merged + Len(batch)
  BY <1>2, <1>3 DEF n_merged
<1>5. DOMAIN Pending' = 1 .. Len(Pending') /\ DOMAIN Pending = 1 .. Len(Pending)
  BY <1>1 DEF PendingIsWhatWaits
<1>6. n_merged \in Nat
  BY <1>2, <1>3 DEF NothingPendingIsLost, n_merged
<1>7. ASSUME NEW k \in DOMAIN Pending' PROVE Pending'[k] = pushed'[n_merged' + k]
  <2>1. Len(batch) + k \in DOMAIN Pending
    BY <1>2, <1>3, <1>5
  <2>2. Pending'[k] = pushed[n_merged + (Len(batch) + k)]
    BY <1>3, <1>5, <2>1 DEF NothingPendingIsLost
  <2> QED BY <1>2, <1>4, <1>5, <1>6, <2>2
<1> QED BY <1>2, <1>4, <1>6, <1>7 DEF NothingPendingIsLost

-----------------------------------------------------------------------------
(* The streaming filter's steps *)

\* What a list of members, or a listing, has to satisfy in the next state.
LEMMA MembersWillBe ==
    ASSUME implication' = implication, NEW list,
           list = [k \in 1 .. n_merged' |-> pushed'[k]],
           ~m_error' /\ ~m_abandoned' => m_members' \in InOrder(MaximalOf(Range(list)), list)
    PROVE  MembersAreTheMaximal'
BY DEF MembersAreTheMaximal, FirstPushed, MaximalOf, Dominates, Implies, prefer_first

LEMMA MembersStay ==
    ASSUME implication' = implication, MembersAreTheMaximal,
           UNCHANGED <<pushed, m_members>>, n_merged' = n_merged,
           ~m_error' => ~m_error, ~m_abandoned' => ~m_abandoned
    PROVE  MembersAreTheMaximal'
<1>1. PICK list : list = FirstPushed(n_merged)
  OBVIOUS
<1>2. list = [k \in 1 .. n_merged' |-> pushed'[k]]
  BY <1>1 DEF FirstPushed
<1>3. ~m_error' /\ ~m_abandoned' => m_members' \in InOrder(MaximalOf(Range(list)), list)
  BY <1>1 DEF MembersAreTheMaximal
<1> QED BY <1>2, <1>3, MembersWillBe

LEMMA ListingStays ==
    ASSUME implication' = implication, ListingIsMaximal,
           UNCHANGED <<pushed, named, maximal_tsv>>, ~m_abandoned' => ~m_abandoned
    PROVE  ListingIsMaximal'
BY DEF ListingIsMaximal, FirstPushed, MaximalOf, Dominates, Implies, prefer_first

LEMMA SweepStays ==
    ASSUME SweepInv, UNCHANGED sweepVars
    PROVE  SweepInv'
BY DEF sweepVars, SweepInv, SweepTypeOK, SpecsAreDistinct, MarkedAreDominated,
       Progress, Position, Dominates, Implies, prefer_first, PairOf

LEMMA StreamBegins == Init => StreamIsMaximal
<1> SUFFICES ASSUME Init PROVE StreamIsMaximal
  OBVIOUS
<1>1. TypeOK
  <2>1. pushed \in Seq(Spec) /\ m_queue \in Seq(Spec) /\ batch \in Seq(Spec)
    BY DEF Init
  <2>2. m_error \in BOOLEAN /\ m_abandoned \in BOOLEAN /\ m_closing \in BOOLEAN
    BY DEF Init
  <2>3. implication \in World /\ named \subseteq m_seen /\ coordinator = "wait"
    BY DEF Init, SweepInit
  <2> QED BY <2>1, <2>2, <2>3 DEF TypeOK
<1>2. Pending = <<>> \o <<>>
  BY DEF Init, Pending
<1>3. n_merged = 0 /\ DOMAIN Pending = {}
  BY <1>2 DEF Init, n_merged
<1>4. NothingPendingIsLost
  BY <1>3 DEF Init, NothingPendingIsLost
<1>5. CoordinatorIsPlaced
  BY DEF Init, CoordinatorIsPlaced
<1>6. MembersAreTheMaximal
  <2>1. FirstPushed(0) = <<>> /\ Range(<<>>) = {} /\ MaximalOf({}) = {}
    BY DEF FirstPushed, Range, MaximalOf
  <2>2. <<>> \in Seq({}) /\ Len(<<>>) = 0 /\ DOMAIN <<>> = {}
    OBVIOUS
  <2>3. <<>> \in InOrder({}, <<>>)
    <3>1. <<>> \in [1 .. 0 -> {}] /\ 0 \in 0 .. 0
      OBVIOUS
    <3>2. <<>> \in SeqOf({}, 0)
      BY <3>1 DEF SeqOf
    <3> QED BY <2>1, <2>2, <3>2 DEF InOrder
  <2> QED BY <1>3, <2>1, <2>3 DEF Init, MembersAreTheMaximal
<1>7. ListingIsMaximal
  BY DEF Init, ListingIsMaximal
<1> QED BY <1>1, <1>4, <1>5, <1>6, <1>7 DEF StreamIsMaximal

\* The owner's other steps, and the steps that change nothing.
Quiet ==
    /\ UNCHANGED <<sweepVars, m_queue, coordinator, batch, m_members, m_error,
                   maximal_tsv, named, pushed>>
    /\ m_abandoned' \in BOOLEAN /\ m_closing' \in BOOLEAN
    /\ m_abandoned => m_abandoned'
    /\ m_closing => m_closing'
    /\ m_closing' => owner' # "open"
    /\ owner' \in {"open", "finishing"} => ~m_abandoned'

LEMMA QuietSteps ==
    ASSUME StreamIsMaximal,
           Finish \/ Abandon \/ Joins \/ UNCHANGED vars
    PROVE  Quiet
<1> USE DEF StreamIsMaximal, TypeOK, CoordinatorIsPlaced, mergeVars, listVars
<1>1. CASE Finish
  BY <1>1 DEF Finish, Quiet
<1>2. CASE Abandon
  BY <1>2 DEF Abandon, Quiet
<1>3. CASE FinishJoined
  BY <1>3 DEF FinishJoined, Quiet
<1>4. CASE CloseAbandoned
  BY <1>4 DEF CloseAbandoned, Quiet
<1>5. CASE AbandonJoined
  BY <1>5 DEF AbandonJoined, Quiet
<1>6. CASE UNCHANGED vars
  BY <1>6 DEF vars, ownerVars, Quiet
<1> QED BY <1>1, <1>2, <1>3, <1>4, <1>5, <1>6 DEF Joins

LEMMA QuietKeeps ==
    ASSUME StreamIsMaximal, Quiet
    PROVE  StreamIsMaximal'
<1> USE DEF StreamIsMaximal
<1>1. implication' = implication
  BY DEF Quiet, sweepVars
<1>2. TypeOK'
  BY <1>1 DEF Quiet, TypeOK, m_seen
<1>3. NothingPendingIsLost' /\ n_merged' = n_merged
  BY <1>2, PendingStays DEF Quiet
<1>4. CoordinatorIsPlaced'
  <2>1. SweepInv => SweepInv'
    BY SweepStays DEF Quiet
  <2>2. specs' = specs
    BY DEF Quiet, sweepVars
  <2> QED BY <2>1, <2>2 DEF Quiet, CoordinatorIsPlaced
<1>5. MembersAreTheMaximal' /\ ListingIsMaximal'
  BY <1>1, <1>3, MembersStay, ListingStays DEF Quiet
<1> QED BY <1>2, <1>3, <1>4, <1>5

LEMMA PushKeeps ==
    ASSUME StreamIsMaximal, NEW s \in Spec, NEW has_name \in BOOLEAN, Push(s, has_name)
    PROVE  StreamIsMaximal'
<1> USE DEF StreamIsMaximal
<1>1. /\ UNCHANGED <<sweepVars, coordinator, batch, m_members, m_error, maximal_tsv,
                     m_closing, m_abandoned, owner>>
      /\ s \notin Range(pushed)
      /\ m_queue' = Append(m_queue, s) /\ pushed' = Append(pushed, s)
      /\ named' \subseteq named \cup {s} /\ named \subseteq named'
      /\ owner = "open"
  BY DEF Push, mergeVars, listVars, m_seen
<1>2. /\ pushed \in Seq(Spec) /\ m_queue \in Seq(Spec) /\ batch \in Seq(Spec)
      /\ Len(pushed) \in Nat /\ DOMAIN pushed = 1 .. Len(pushed)
      /\ named \subseteq Range(pushed)
  BY DEF TypeOK, m_seen
<1>3. /\ pushed' \in Seq(Spec) /\ m_queue' \in Seq(Spec)
      /\ Len(pushed') = Len(pushed) + 1 /\ DOMAIN pushed' = 1 .. Len(pushed) + 1
      /\ \A k \in 1 .. Len(pushed) : pushed'[k] = pushed[k]
      /\ pushed'[Len(pushed) + 1] = s
  BY <1>1, <1>2
<1>4. implication' = implication
  BY <1>1 DEF sweepVars
<1>5. TypeOK'
  <2>1. Range(pushed') = Range(pushed) \cup {s}
    <3>1. \A x : x \in Range(pushed) <=> \E k \in 1 .. Len(pushed) : x = pushed[k]
      BY <1>2 DEF Range
    <3>2. \A x : x \in Range(pushed') <=> \E k \in 1 .. Len(pushed) + 1 : x = pushed'[k]
      BY <1>3 DEF Range
    <3>3. \A k \in 1 .. Len(pushed) + 1 : k \in 1 .. Len(pushed) \/ k = Len(pushed) + 1
      BY <1>2
    <3>4. 1 .. Len(pushed) \subseteq 1 .. Len(pushed) + 1 /\ Len(pushed) + 1 \in 1 .. Len(pushed) + 1
      BY <1>2
    <3> QED BY <1>3, <3>1, <3>2, <3>3, <3>4
  <2>2. m_seen' = Range(pushed')
    BY DEF m_seen
  <2> QED BY <1>1, <1>2, <1>3, <1>4, <2>1, <2>2 DEF TypeOK
<1>6. PendingIsWhatWaits /\ PendingIsWhatWaits'
  BY <1>5, PendingIs, PendingWillBe
<1>7. /\ Len(Pending) \in Nat /\ Len(Pending') = Len(Pending) + 1
      /\ DOMAIN Pending = 1 .. Len(Pending) /\ DOMAIN Pending' = 1 .. Len(Pending) + 1
      /\ \A k \in 1 .. Len(Pending) : Pending'[k] = Pending[k]
      /\ Pending'[Len(Pending) + 1] = s
  <2>1. Pending' = Append(Pending, s)
    <3>1. CASE coordinator \in {"took", "merge"}
      <4>1. Pending = batch \o m_queue /\ Pending' = batch \o Append(m_queue, s)
        BY <1>1, <3>1 DEF Pending
      <4> QED BY <1>2, <4>1
    <3>2. CASE coordinator \notin {"took", "merge"}
      <4>1. Pending = <<>> \o m_queue /\ Pending' = <<>> \o Append(m_queue, s)
        BY <1>1, <3>2 DEF Pending
      <4>2. <<>> \in Seq(Spec)
        OBVIOUS
      <4> QED BY <1>2, <4>1, <4>2
    <3> QED BY <3>1, <3>2
  <2>2. Pending \in Seq(Spec)
    BY <1>6 DEF PendingIsWhatWaits
  <2> QED BY <2>1, <2>2
<1>8. n_merged' = n_merged /\ n_merged \in 0 .. Len(pushed)
  BY <1>2, <1>3, <1>7 DEF n_merged, NothingPendingIsLost
<1>9. NothingPendingIsLost'
  <2>1. \A i, j \in DOMAIN pushed' : pushed'[i] = pushed'[j] => i = j
    <3>1. \A i \in 1 .. Len(pushed) : pushed[i] # s
      BY <1>1, <1>2 DEF Range
    <3> QED BY <1>2, <1>3, <3>1 DEF NothingPendingIsLost
  <2>2. ASSUME NEW k \in DOMAIN Pending' PROVE Pending'[k] = pushed'[n_merged' + k]
    <3>1. CASE k \in DOMAIN Pending
      <4>1. n_merged + k \in 1 .. Len(pushed)
        BY <1>2, <1>7, <1>8, <3>1 DEF n_merged
      <4> QED BY <1>3, <1>7, <1>8, <3>1, <4>1 DEF NothingPendingIsLost
    <3>2. CASE k = Len(Pending) + 1
      <4>1. n_merged + k = Len(pushed) + 1
        BY <1>2, <1>7, <3>2 DEF n_merged
      <4> QED BY <1>3, <1>7, <1>8, <3>2, <4>1
    <3> QED BY <1>7, <3>1, <3>2
  <2> QED BY <1>8, <2>1, <2>2 DEF NothingPendingIsLost
<1>10. CoordinatorIsPlaced'
  <2>1. SweepInv => SweepInv'
    BY <1>1, SweepStays
  <2>2. specs' = specs
    BY <1>1 DEF sweepVars
  <2> QED BY <1>1, <2>1, <2>2 DEF CoordinatorIsPlaced
<1>11. \A n \in 0 .. Len(pushed) :
         [k \in 1 .. n |-> pushed'[k]] = [k \in 1 .. n |-> pushed[k]]
  BY <1>2, <1>3
<1>12. MembersAreTheMaximal'
  <2>1. PICK list : list = FirstPushed(n_merged)
    OBVIOUS
  <2>2. list = [k \in 1 .. n_merged' |-> pushed'[k]]
    BY <1>8, <1>11, <2>1 DEF FirstPushed
  <2>3. ~m_error' /\ ~m_abandoned' => m_members' \in InOrder(MaximalOf(Range(list)), list)
    BY <1>1, <2>1 DEF MembersAreTheMaximal
  <2> QED BY <1>4, <2>2, <2>3, MembersWillBe
<1>13. ListingIsMaximal'
  <2> SUFFICES ASSUME ~m_abandoned', maximal_tsv' # NoListing
               PROVE  \E n \in 0 .. Len(pushed') :
                        maximal_tsv' \in InOrder(named' \cap MaximalOf(Range([k \in 1 .. n |-> pushed'[k]])),
                                                 [k \in 1 .. n |-> pushed'[k]])
    BY <1>4 DEF ListingIsMaximal, FirstPushed, MaximalOf, Dominates, Implies, prefer_first
  <2>1. PICK n \in 0 .. Len(pushed) :
          maximal_tsv \in InOrder(named \cap MaximalOf(Range(FirstPushed(n))), FirstPushed(n))
    BY <1>1 DEF ListingIsMaximal
  <2>2. [k \in 1 .. n |-> pushed'[k]] = FirstPushed(n)
    BY <1>11 DEF FirstPushed
  <2>3. s \notin MaximalOf(Range(FirstPushed(n)))
    <3>1. Range(FirstPushed(n)) \subseteq Range(pushed)
      BY <1>2 DEF Range, FirstPushed
    <3> QED BY <1>1, <3>1 DEF MaximalOf
  <2>4. named' \cap MaximalOf(Range(FirstPushed(n))) = named \cap MaximalOf(Range(FirstPushed(n)))
    BY <1>1, <2>3
  <2>5. n \in 0 .. Len(pushed')
    BY <1>2, <1>3
  <2> QED BY <1>1, <2>1, <2>2, <2>4, <2>5
<1> QED BY <1>5, <1>9, <1>10, <1>12, <1>13

FirstOf(list, n) == [k \in 1 .. n |-> list[k]]

\* A longer prefix of a list holds what the shorter one holds and what follows it.
LEMMA FirstOfExtends ==
    ASSUME NEW list, NEW n \in Nat, NEW S, NEW tail \in Seq(S),
           \A k \in 1 .. Len(tail) : tail[k] = list[n + k]
    PROVE  Range(FirstOf(list, n + Len(tail))) = Range(FirstOf(list, n)) \cup Range(tail)
<1> DEFINE first == FirstOf(list, n)
           whole == FirstOf(list, n + Len(tail))
<1>1. /\ Len(tail) \in Nat /\ DOMAIN tail = 1 .. Len(tail)
      /\ Len(first) = n /\ DOMAIN first = 1 .. n
      /\ Len(whole) = n + Len(tail) /\ DOMAIN whole = 1 .. n + Len(tail)
      /\ \A k \in 1 .. n : first[k] = list[k]
      /\ \A k \in 1 .. n + Len(tail) : whole[k] = list[k]
  <2>1. Len(tail) \in Nat /\ DOMAIN tail = 1 .. Len(tail)
    OBVIOUS
  <2>2. n + Len(tail) \in Nat
    BY <2>1
  <2> QED BY <2>1, <2>2 DEF FirstOf
<1>2. /\ \A k \in 1 .. n : k \in DOMAIN whole /\ whole[k] = first[k]
      /\ \A k \in 1 .. Len(tail) : n + k \in DOMAIN whole /\ whole[n + k] = tail[k]
  <2> HIDE DEF first, whole
  <2>1. \A k \in 1 .. n : k \in 1 .. n + Len(tail)
    BY <1>1
  <2>2. \A k \in 1 .. Len(tail) : n + k \in 1 .. n + Len(tail)
    BY <1>1
  <2> QED BY <1>1, <2>1, <2>2
<1>3. ASSUME NEW x \in Range(whole) PROVE x \in Range(first) \cup Range(tail)
  <2>1. PICK k \in 1 .. n + Len(tail) : whole[k] = x
    BY <1>1 DEF Range
  <2>2. CASE k \in 1 .. n
    BY <1>1, <1>2, <2>1, <2>2 DEF Range
  <2>3. CASE k \notin 1 .. n
    <3>1. k - n \in 1 .. Len(tail) /\ k = n + (k - n)
      BY <1>1, <2>3
    <3>2. tail[k - n] = x
      BY <1>2, <2>1, <3>1
    <3> QED BY <1>1, <3>1, <3>2 DEF Range
  <2> QED BY <2>2, <2>3
<1>4. ASSUME NEW x \in Range(first) PROVE x \in Range(whole)
  BY <1>1, <1>2 DEF Range
<1>5. ASSUME NEW x \in Range(tail) PROVE x \in Range(whole)
  <2>1. PICK k \in 1 .. Len(tail) : tail[k] = x
    BY <1>1 DEF Range
  <2>2. n + k \in DOMAIN whole /\ whole[n + k] = x
    BY <1>2, <2>1
  <2> QED BY <2>2 DEF Range
<1> QED BY <1>3, <1>4, <1>5

\* A function from an initial segment of the naturals is a sequence.
LEMMA FunctionIsSeq ==
    ASSUME NEW f, NEW n \in Nat, NEW T, f = [k \in 1 .. n |-> f[k]], \A k \in 1 .. n : f[k] \in T
    PROVE  f \in Seq(T)
<1>1. f \in [1 .. n -> T]
  OBVIOUS
<1> QED BY <1>1

\* What follows a prefix of a list, put after a part in order of that prefix,
\* is a part in order of the longer prefix.
LEMMA InOrderExtends ==
    ASSUME NEW list, NEW n \in Nat, NEW T, T \subseteq Range(FirstOf(list, n)),
           NEW mid \in InOrder(T, FirstOf(list, n)),
           NEW S, NEW tail \in Seq(S), \A k \in 1 .. Len(tail) : tail[k] = list[n + k]
    PROVE  mid \o tail \in InOrder(T \cup Range(tail), FirstOf(list, n + Len(tail)))
<1> DEFINE first == FirstOf(list, n)
           whole == FirstOf(list, n + Len(tail))
           both == mid \o tail
<1>1. /\ Len(tail) \in Nat /\ DOMAIN tail = 1 .. Len(tail)
      /\ Len(first) = n /\ DOMAIN first = 1 .. n
      /\ Len(whole) = n + Len(tail) /\ DOMAIN whole = 1 .. n + Len(tail)
      /\ \A k \in 1 .. n : first[k] = list[k]
      /\ \A k \in 1 .. n + Len(tail) : whole[k] = list[k]
  <2>1. Len(tail) \in Nat /\ DOMAIN tail = 1 .. Len(tail)
    OBVIOUS
  <2>2. n + Len(tail) \in Nat
    BY <2>1
  <2> QED BY <2>1, <2>2 DEF FirstOf
<1>2. /\ mid \in Seq(T) /\ Range(mid) = T
      /\ Len(mid) \in Nat /\ Len(mid) <= n /\ DOMAIN mid = 1 .. Len(mid)
      /\ \A i, j \in DOMAIN mid : i < j =>
           \E k, l \in DOMAIN first : k < l /\ first[k] = mid[i] /\ first[l] = mid[j]
  <2>1. Len(first) \in Nat
    BY <1>1
  <2>2. mid \in InOrder(T, first)
    OBVIOUS
  <2> HIDE DEF first
  <2>3. mid \in Seq(T) /\ Range(mid) = T
    BY <2>1, <2>2, InOrderIs
  <2>4. Len(mid) \in Nat /\ Len(mid) <= Len(first) /\ DOMAIN mid = 1 .. Len(mid)
    BY <2>1, <2>2, InOrderIs
  <2>5. \A i, j \in DOMAIN mid : i < j =>
           \E k, l \in DOMAIN first : k < l /\ first[k] = mid[i] /\ first[l] = mid[j]
    BY <2>1, <2>2, InOrderIs
  <2> QED BY <1>1, <2>3, <2>4, <2>5
<1>3. tail \in Seq(Range(tail))
  <2>1. Len(tail) \in Nat /\ tail = [k \in 1 .. Len(tail) |-> tail[k]]
    BY <1>1
  <2>2. \A k \in 1 .. Len(tail) : tail[k] \in Range(tail)
    BY <1>1 DEF Range
  <2> QED BY <2>1, <2>2, FunctionIsSeq
<1>4. /\ both \in Seq(T \cup Range(tail))
      /\ Len(both) = Len(mid) + Len(tail) /\ DOMAIN both = 1 .. Len(mid) + Len(tail)
      /\ \A i \in 1 .. Len(mid) : both[i] = mid[i]
      /\ \A i \in 1 .. Len(tail) : both[Len(mid) + i] = tail[i]
  <2>1. mid \in Seq(T \cup Range(tail)) /\ tail \in Seq(T \cup Range(tail))
    BY <1>2, <1>3
  <2> QED BY <1>1, <1>2, <2>1
<1>5. \A i \in DOMAIN both : \/ i \in 1 .. Len(mid)
                             \/ \E j \in 1 .. Len(tail) : i = Len(mid) + j
  <2>1. ASSUME NEW i \in DOMAIN both, i \notin 1 .. Len(mid)
        PROVE  \E j \in 1 .. Len(tail) : i = Len(mid) + j
    <3>1. i - Len(mid) \in 1 .. Len(tail) /\ i = Len(mid) + (i - Len(mid))
      BY <1>1, <1>2, <1>4, <2>1
    <3> QED BY <3>1
  <2> QED BY <2>1
<1>6. /\ \A k \in 1 .. n : k \in DOMAIN whole /\ whole[k] = first[k]
      /\ \A k \in 1 .. Len(tail) : n + k \in DOMAIN whole /\ whole[n + k] = tail[k]
  <2> HIDE DEF first, whole
  <2>1. \A k \in 1 .. n : k \in 1 .. n + Len(tail)
    BY <1>1
  <2>2. \A k \in 1 .. Len(tail) : n + k \in 1 .. n + Len(tail)
    BY <1>1
  <2> QED BY <1>1, <2>1, <2>2
<1>7. \A x \in T : \E k \in 1 .. n : first[k] = x
  BY <1>1 DEF Range
<1>8. Range(both) = T \cup Range(tail)
  <2>1. ASSUME NEW x \in Range(both) PROVE x \in T \cup Range(tail)
    BY <1>4 DEF Range
  <2>2. ASSUME NEW x \in T PROVE x \in Range(both)
    <3>1. PICK i \in 1 .. Len(mid) : mid[i] = x
      BY <1>2 DEF Range
    <3>2. i \in DOMAIN both /\ both[i] = x
      BY <1>1, <1>2, <1>4, <3>1
    <3> QED BY <3>2 DEF Range
  <2>3. ASSUME NEW x \in Range(tail) PROVE x \in Range(both)
    <3>1. PICK i \in 1 .. Len(tail) : tail[i] = x
      BY <1>1 DEF Range
    <3>2. Len(mid) + i \in DOMAIN both /\ both[Len(mid) + i] = x
      BY <1>1, <1>2, <1>4, <3>1
    <3> QED BY <3>2 DEF Range
  <2> HIDE DEF both
  <2> QED BY <2>1, <2>2, <2>3
<1>9. ASSUME NEW i \in DOMAIN both, NEW j \in DOMAIN both, i < j
      PROVE  \E k, l \in DOMAIN whole : k < l /\ whole[k] = both[i] /\ whole[l] = both[j]
  <2> HIDE DEF both
  <2>1. CASE i \in 1 .. Len(mid) /\ j \in 1 .. Len(mid)
    <3>1. PICK k \in 1 .. n, l \in 1 .. n : k < l /\ first[k] = mid[i] /\ first[l] = mid[j]
      BY <1>1, <1>2, <1>9, <2>1
    <3> QED BY <1>4, <1>6, <2>1, <3>1
  <2>2. ASSUME i \in 1 .. Len(mid), NEW m \in 1 .. Len(tail), j = Len(mid) + m
        PROVE  \E k, l \in DOMAIN whole : k < l /\ whole[k] = both[i] /\ whole[l] = both[j]
    <3>1. mid[i] \in T
      BY <1>2, <2>2
    <3>2. PICK k \in 1 .. n : first[k] = mid[i]
      BY <1>7, <3>1
    <3>3. k < n + m
      BY <1>1
    <3> QED BY <1>4, <1>6, <2>2, <3>2, <3>3
  <2>3. ASSUME NEW m \in 1 .. Len(tail), i = Len(mid) + m, NEW o \in 1 .. Len(tail), j = Len(mid) + o
        PROVE  \E k, l \in DOMAIN whole : k < l /\ whole[k] = both[i] /\ whole[l] = both[j]
    <3>1. n + m < n + o
      BY <1>1, <1>2, <1>9, <2>3
    <3>2. n + m \in DOMAIN whole /\ n + o \in DOMAIN whole
      BY <1>6
    <3>3. whole[n + m] = both[i] /\ whole[n + o] = both[j]
      BY <1>4, <1>6, <2>3
    <3> QED BY <3>1, <3>2, <3>3
  <2>4. i \in 1 .. Len(mid) \/ ~(j \in 1 .. Len(mid))
    BY <1>1, <1>2, <1>4, <1>9
  <2> QED BY <1>5, <2>1, <2>2, <2>3, <2>4
<1>10. both \in InOrder(T \cup Range(tail), whole)
  <2>1. Len(whole) \in Nat /\ Len(both) <= Len(whole)
    BY <1>1, <1>2, <1>4
  <2> HIDE DEF both
  <2> QED BY <1>4, <1>8, <1>9, <2>1, IsInOrder
<1> QED BY <1>10

\* What the coordinator is about to merge, or is merging: its members and its
\* batch are distinct, in the order they were pushed, and together they have
\* the maximal elements of all that will have been merged.
LEMMA MergeList ==
    ASSUME StreamIsMaximal, ~m_error, ~m_abandoned, coordinator \in {"took", "merge"}
    PROVE  LET list == m_members \o batch
               done == FirstPushed(n_merged + Len(batch))
           IN  /\ n_merged \in Nat /\ n_merged + Len(batch) \in 0 .. Len(pushed)
               /\ list \in Seq(Spec) /\ Len(m_members) \in 0 .. Len(list)
               /\ \A i, j \in 1 .. Len(list) : list[i] = list[j] => i = j
               /\ \A i, j \in 1 .. Len(m_members) : ~Dominates(list[i], list[j])
               /\ list \in InOrder(Range(list), done)
               /\ MaximalOf(Range(list)) = MaximalOf(Range(done))
<1> USE DEF StreamIsMaximal
<1> DEFINE list == m_members \o batch
           first == FirstPushed(n_merged)
           done == FirstPushed(n_merged + Len(batch))
           T == MaximalOf(Range(first))
<1>1. /\ pushed \in Seq(Spec) /\ m_queue \in Seq(Spec) /\ batch \in Seq(Spec)
      /\ Len(pushed) \in Nat /\ DOMAIN pushed = 1 .. Len(pushed)
      /\ Len(batch) \in Nat /\ Len(m_queue) \in Nat /\ implication \in World
  BY DEF TypeOK
<1>2. PendingIsWhatWaits
  BY PendingIs
<1>3. /\ Len(Pending) = Len(batch) + Len(m_queue)
      /\ \A k \in 1 .. Len(batch) : k \in DOMAIN Pending /\ Pending[k] = batch[k]
  BY <1>1, <1>2 DEF PendingIsWhatWaits
<1>4. n_merged \in Nat /\ n_merged + Len(batch) \in 0 .. Len(pushed)
  BY <1>1, <1>3 DEF n_merged, NothingPendingIsLost
<1>5. \A k \in 1 .. Len(batch) : batch[k] = pushed[n_merged + k]
  BY <1>3 DEF NothingPendingIsLost
<1>6. m_members \in InOrder(T, first)
  BY DEF MembersAreTheMaximal
<1>7. T \subseteq Range(first)
  BY DEF MaximalOf
<1>8. /\ list \in InOrder(T \cup Range(batch), done)
      /\ Range(done) = Range(first) \cup Range(batch)
  <2>1. n_merged \in Nat /\ batch \in Seq(Spec)
    BY <1>1, <1>4
  <2>2. first = FirstOf(pushed, n_merged) /\ done = FirstOf(pushed, n_merged + Len(batch))
    BY DEF FirstPushed, FirstOf
  <2>3. T \subseteq Range(FirstOf(pushed, n_merged)) /\ m_members \in InOrder(T, FirstOf(pushed, n_merged))
    BY <1>6, <1>7, <2>2
  <2> HIDE DEF T, first, done
  <2>4. m_members \o batch \in InOrder(T \cup Range(batch), FirstOf(pushed, n_merged + Len(batch)))
    BY <1>5, <2>1, <2>3, InOrderExtends
  <2>5. Range(FirstOf(pushed, n_merged + Len(batch))) = Range(FirstOf(pushed, n_merged)) \cup Range(batch)
    BY <1>5, <2>1, FirstOfExtends
  <2> QED BY <2>2, <2>4, <2>5
<1>9. /\ Len(done) \in Nat /\ DOMAIN done = 1 .. n_merged + Len(batch)
      /\ Range(first) \subseteq Spec /\ Range(batch) \subseteq Spec
      /\ \A k, l \in DOMAIN done : done[k] = done[l] => k = l
  <2>1. \A k \in 1 .. n_merged + Len(batch) : k \in 1 .. Len(pushed)
    BY <1>1, <1>4
  <2>2. \A k \in 1 .. n_merged : k \in 1 .. Len(pushed)
    BY <1>1, <1>4
  <2>3. Len(done) = n_merged + Len(batch) /\ DOMAIN done = 1 .. n_merged + Len(batch)
    BY <1>4 DEF FirstPushed
  <2>4. Range(first) \subseteq Spec
    BY <1>1, <2>2 DEF FirstPushed, Range
  <2>5. Range(batch) \subseteq Spec
    BY <1>1 DEF Range
  <2>6. \A k, l \in DOMAIN done : done[k] = done[l] => k = l
    BY <1>1, <2>1 DEF FirstPushed, NothingPendingIsLost
  <2> QED BY <1>4, <2>3, <2>4, <2>5, <2>6
<1>10. /\ list \in Seq(T \cup Range(batch)) /\ Range(list) = T \cup Range(batch)
       /\ \A i, j \in DOMAIN list : list[i] = list[j] => i = j
  <2> HIDE DEF list, done, T
  <2>1. list \in Seq(T \cup Range(batch)) /\ Range(list) = T \cup Range(batch)
    BY <1>8, <1>9, InOrderIs
  <2>2. \A i, j \in DOMAIN list : list[i] = list[j] => i = j
    BY <1>8, <1>9, InOrderIsDistinct
  <2> QED BY <2>1, <2>2
<1>11. T \subseteq Spec
  BY <1>9 DEF MaximalOf
<1>12. list \in Seq(Spec) /\ DOMAIN list = 1 .. Len(list)
  <2> HIDE DEF list, T
  <2> QED BY <1>9, <1>10, <1>11
<1>13. /\ Len(m_members) \in 0 .. Len(list)
       /\ \A i \in 1 .. Len(m_members) : list[i] \in T
  <2>1. Len(first) \in Nat
    BY <1>4 DEF FirstPushed
  <2>2. m_members \in Seq(T) /\ Len(m_members) \in Nat
    BY <1>6, <2>1, InOrderIs DEF FirstPushed
  <2>3. /\ Len(list) = Len(m_members) + Len(batch)
        /\ \A i \in 1 .. Len(m_members) : list[i] = m_members[i]
    BY <1>1, <2>2
  <2> HIDE DEF list, T
  <2> QED BY <1>1, <2>2, <2>3
<1>14. \A i, j \in 1 .. Len(m_members) : ~Dominates(list[i], list[j])
  BY <1>13 DEF MaximalOf
<1>15. MaximalOf(Range(list)) = MaximalOf(Range(done))
  <2>1. MaximalOf(T \cup Range(batch)) = MaximalOf(Range(first) \cup Range(batch))
    BY <1>1, <1>9, MergingKeepsTheMaximal
  <2> HIDE DEF list, done, T, first
  <2> QED BY <1>8, <1>10, <2>1
<1> QED BY <1>4, <1>8, <1>10, <1>12, <1>13, <1>14, <1>15

\* A step of the coordinator pushes nothing.
CoordinatorFrame == UNCHANGED <<implication, pushed, named, m_abandoned, m_closing, owner>>

LEMMA TakeQueueKeeps ==
    ASSUME StreamIsMaximal, TakeQueue
    PROVE  StreamIsMaximal'
<1> USE DEF StreamIsMaximal
<1>1. /\ UNCHANGED <<sweepVars, pushed, named, m_abandoned, m_closing, owner, m_members,
                     m_error, maximal_tsv>>
      /\ coordinator = "wait"
      /\ \/ /\ coordinator' = "took" /\ batch' = m_queue /\ m_queue' = <<>>
         \/ /\ coordinator' = "exited" /\ UNCHANGED <<batch, m_queue>>
            /\ m_queue = <<>> /\ m_closing
  BY DEF TakeQueue, ownerVars, mergeVars, listVars, Leaves
<1>2. implication' = implication
  BY <1>1 DEF sweepVars
<1>3. TypeOK'
  <2>1. <<>> \in Seq(Spec)
    OBVIOUS
  <2> QED BY <1>1, <1>2, <2>1 DEF TypeOK, m_seen
<1>4. NothingPendingIsLost' /\ n_merged' = n_merged
  BY <1>1, <1>3, PendingStays
<1>5. CoordinatorIsPlaced'
  BY <1>1 DEF CoordinatorIsPlaced
<1>6. MembersAreTheMaximal' /\ ListingIsMaximal'
  BY <1>1, <1>2, <1>4, MembersStay, ListingStays
<1> QED BY <1>3, <1>4, <1>5, <1>6

LEMMA DispatchKeeps ==
    ASSUME StreamIsMaximal, Dispatch
    PROVE  StreamIsMaximal'
<1> USE DEF StreamIsMaximal
<1>1. /\ UNCHANGED <<m_queue, batch, pushed, named, m_abandoned, m_closing, owner, m_members,
                     maximal_tsv>>
      /\ implication' = implication
      /\ coordinator = "took"
  BY DEF Dispatch, ownerVars, mergeVars, listVars, sweepVars, BeginSweep
<1>2. CASE /\ ~m_abandoned /\ ~m_error /\ coordinator' = "merge" /\ m_error' = m_error
           /\ \E printed : BeginSweep(m_members \o batch, Len(m_members), printed)
  <2>1. TypeOK'
    BY <1>1, <1>2 DEF TypeOK, m_seen
  <2>2. NothingPendingIsLost' /\ n_merged' = n_merged
    BY <1>1, <1>2, <2>1, PendingStays
  <2>3. SweepInv'
    <3> DEFINE list == m_members \o batch
               settled == Len(m_members)
    <3>1. /\ list \in Seq(Spec) /\ settled \in 0 .. Len(list)
          /\ \A i, j \in 1 .. Len(list) : list[i] = list[j] => i = j
          /\ \A i, j \in 1 .. settled : ~Dominates(list[i], list[j])
      BY <1>1, <1>2, MergeList
    <3>2. PICK printed : BeginSweep(list, settled, printed)
      BY <1>2
    <3>3. implication \in World
      BY DEF TypeOK
    <3> HIDE DEF list, settled
    <3> QED BY <3>1, <3>2, <3>3, BeginKeeps
  <2>4. specs' = m_members' \o batch'
    BY <1>1, <1>2 DEF BeginSweep
  <2>5. CoordinatorIsPlaced'
    BY <1>1, <1>2, <2>3, <2>4 DEF CoordinatorIsPlaced
  <2>6. MembersAreTheMaximal' /\ ListingIsMaximal'
    BY <1>1, <1>2, <2>2, MembersStay, ListingStays
  <2> QED BY <2>1, <2>2, <2>5, <2>6
<1>3. CASE /\ coordinator' \in {"wait", "exited"} /\ m_error' \in BOOLEAN
           /\ m_error' \/ m_abandoned'
           /\ coordinator' = "exited" => m_abandoned'
  <2>1. TypeOK'
    BY <1>1, <1>3 DEF TypeOK, m_seen
  <2>2. NothingPendingIsLost'
    BY <1>1, <1>3, <2>1, BatchIsDone
  <2>3. CoordinatorIsPlaced' /\ MembersAreTheMaximal'
    BY <1>1, <1>3 DEF CoordinatorIsPlaced, MembersAreTheMaximal
  <2>4. ListingIsMaximal'
    BY <1>1, ListingStays
  <2> QED BY <2>1, <2>2, <2>3, <2>4
<1>4. m_error \in BOOLEAN /\ m_abandoned \in BOOLEAN
  BY DEF TypeOK
<1>5. CASE m_abandoned /\ coordinator' = "exited" /\ UNCHANGED mergeVars
  <2>1. m_error' = m_error /\ m_abandoned' = m_abandoned
    BY <1>1, <1>5 DEF mergeVars
  <2>2. m_abandoned'
    BY <1>5, <2>1
  <2> QED BY <1>3, <1>4, <1>5, <2>1, <2>2
<1>6. CASE m_error /\ coordinator' = "wait" /\ UNCHANGED mergeVars
  <2>1. m_error' = m_error
    BY <1>6 DEF mergeVars
  <2>2. m_error'
    BY <1>6, <2>1
  <2> QED BY <1>3, <1>4, <1>6, <2>1, <2>2
<1>7. CASE coordinator' = "wait" /\ m_error' = TRUE
  BY <1>3, <1>7
<1>8. CASE /\ ~m_abandoned /\ ~m_error /\ coordinator' = "merge" /\ UNCHANGED <<m_members, m_error>>
           /\ \E printed : BeginSweep(m_members \o batch, Len(m_members), printed)
  BY <1>2, <1>8
<1> QED BY <1>5, <1>6, <1>7, <1>8 DEF Dispatch

LEMMA CheckKeeps ==
    ASSUME MayTimeOut = FALSE, StreamIsMaximal, Check
    PROVE  StreamIsMaximal'
<1> USE DEF StreamIsMaximal
<1>1. /\ UNCHANGED <<m_queue, coordinator, batch, pushed, named, m_abandoned, m_closing, owner,
                     m_members, m_error, maximal_tsv>>
      /\ UNCHANGED <<implication, specs>>
      /\ coordinator = "merge"
  BY DEF Check, ownerVars, mergeVars, listVars, StartCheck, FinishCheck, ThrowCheck
<1>2. TypeOK'
  BY <1>1 DEF TypeOK, m_seen
<1>3. NothingPendingIsLost' /\ n_merged' = n_merged
  BY <1>1, <1>2, PendingStays
<1>4. ~m_abandoned => SweepInv'
  <2> SUFFICES ASSUME ~m_abandoned PROVE SweepInv'
    OBVIOUS
  <2>1. SweepInv
    BY <1>1 DEF CoordinatorIsPlaced
  <2>2. (MayTimeOut \/ m_abandoned) = FALSE
    OBVIOUS
  <2> QED BY <2>1, <2>2, StartKeeps, FinishKeeps, ThrowKeeps DEF Check
<1>5. CoordinatorIsPlaced'
  BY <1>1, <1>4 DEF CoordinatorIsPlaced
<1>6. MembersAreTheMaximal' /\ ListingIsMaximal'
  BY <1>1, <1>3, MembersStay, ListingStays
<1> QED BY <1>2, <1>3, <1>5, <1>6

LEMMA MergeKeeps ==
    ASSUME StreamIsMaximal, MergeReturns
    PROVE  StreamIsMaximal'
<1> USE DEF StreamIsMaximal
<1>1. /\ UNCHANGED <<sweepVars, m_queue, batch, pushed, named, m_abandoned, m_closing, owner,
                     m_error, maximal_tsv>>
      /\ coordinator = "merge" /\ coordinator' = "list"
      /\ SweepReturns
      /\ m_members' \in InOrder({specs[i] : i \in Survivors}, specs)
  BY DEF MergeReturns, ownerVars, listVars
<1>2. implication' = implication
  BY <1>1 DEF sweepVars
<1>3. TypeOK'
  BY <1>1, <1>2 DEF TypeOK, m_seen
<1>4. NothingPendingIsLost' /\ n_merged' = n_merged + Len(batch)
  BY <1>1, <1>3, BatchIsDone
<1>5. CoordinatorIsPlaced'
  BY <1>1 DEF CoordinatorIsPlaced
<1>6. MembersAreTheMaximal'
  <2>1. PICK done : done = FirstPushed(n_merged + Len(batch))
    OBVIOUS
  <2>2. done = [k \in 1 .. n_merged' |-> pushed'[k]]
    BY <1>1, <1>4, <2>1 DEF FirstPushed
  <2>3. ASSUME ~m_error', ~m_abandoned'
        PROVE  m_members' \in InOrder(MaximalOf(Range(done)), done)
    <3>1. SweepInv /\ specs = m_members \o batch
      BY <1>1, <2>3 DEF CoordinatorIsPlaced
    <3>2. /\ specs \in InOrder(Range(specs), done)
          /\ MaximalOf(Range(specs)) = MaximalOf(Range(done))
          /\ n_merged + Len(batch) \in Nat
      BY <1>1, <2>1, <2>3, <3>1, MergeList
    <3>3. m_members' \in InOrder(MaximalOf(Range(done)), specs)
      BY <1>1, <3>1, <3>2, SurvivorsAreMaximal
    <3>4. Len(done) \in Nat
      BY <2>1, <3>2 DEF FirstPushed
    <3> QED BY <3>2, <3>3, <3>4, InOrderTransitive
  <2> QED BY <1>2, <2>2, <2>3, MembersWillBe
<1>7. ListingIsMaximal'
  BY <1>1, <1>2, ListingStays
<1> QED BY <1>3, <1>4, <1>5, <1>6, <1>7

LEMMA ThrowingKeeps ==
    ASSUME StreamIsMaximal, MergeThrows
    PROVE  StreamIsMaximal'
<1> USE DEF StreamIsMaximal
<1>1. /\ UNCHANGED <<sweepVars, m_queue, batch, pushed, named, m_abandoned, m_closing, owner,
                     m_members, maximal_tsv>>
      /\ coordinator = "merge" /\ coordinator' = "wait" /\ m_error' = TRUE
  BY DEF MergeThrows, ownerVars, listVars
<1>2. implication' = implication
  BY <1>1 DEF sweepVars
<1>3. TypeOK'
  BY <1>1, <1>2 DEF TypeOK, m_seen
<1>4. NothingPendingIsLost'
  BY <1>1, <1>3, BatchIsDone
<1>5. CoordinatorIsPlaced' /\ MembersAreTheMaximal'
  BY <1>1 DEF CoordinatorIsPlaced, MembersAreTheMaximal
<1>6. ListingIsMaximal'
  BY <1>1, <1>2, ListingStays
<1> QED BY <1>3, <1>4, <1>5, <1>6

LEMMA WritingKeeps ==
    ASSUME StreamIsMaximal, WriteListing
    PROVE  StreamIsMaximal'
<1> USE DEF StreamIsMaximal
<1>1. /\ UNCHANGED <<sweepVars, m_queue, batch, pushed, named, m_abandoned, m_closing, owner,
                     m_members, m_error>>
      /\ coordinator = "list" /\ coordinator' = "wait"
      /\ maximal_tsv' = maximal_tsv \/ maximal_tsv' \in ListedNames
  BY DEF WriteListing, ownerVars, mergeVars, listVars
<1>2. implication' = implication
  BY <1>1 DEF sweepVars
<1>3. TypeOK'
  BY <1>1, <1>2 DEF TypeOK, m_seen
<1>4. NothingPendingIsLost' /\ n_merged' = n_merged
  BY <1>1, <1>3, PendingStays
<1>5. CoordinatorIsPlaced'
  BY <1>1 DEF CoordinatorIsPlaced
<1>6. MembersAreTheMaximal'
  BY <1>1, <1>2, <1>4, MembersStay
<1>7. CASE maximal_tsv' = maximal_tsv
  <2>1. ListingIsMaximal'
    BY <1>1, <1>2, <1>7, ListingStays
  <2> QED BY <1>3, <1>4, <1>5, <1>6, <2>1
<1>8. CASE maximal_tsv' \in ListedNames
  <2>1. ASSUME ~m_abandoned'
        PROVE  \E n \in 0 .. Len(pushed) :
                 maximal_tsv' \in InOrder(named \cap MaximalOf(Range(FirstPushed(n))), FirstPushed(n))
    <3> DEFINE T == MaximalOf(Range(FirstPushed(n_merged)))
    <3>1. m_members \in InOrder(T, FirstPushed(n_merged))
      BY <1>1, <2>1 DEF CoordinatorIsPlaced, MembersAreTheMaximal
    <3>2. n_merged \in 0 .. Len(pushed)
      <4>1. PendingIsWhatWaits
        BY PendingIs
      <4>2. Len(Pending) \in Nat /\ Len(pushed) \in Nat
        BY <4>1 DEF PendingIsWhatWaits, TypeOK
      <4> QED BY <4>2 DEF n_merged, NothingPendingIsLost
    <3>3. Len(FirstPushed(n_merged)) \in Nat
      BY <3>2 DEF FirstPushed
    <3>4. Range(m_members) = T
      <4> HIDE DEF T
      <4> QED BY <3>1, <3>3, InOrderIs
    <3>5. maximal_tsv' \in InOrder(named \cap T, m_members)
      BY <1>8, <3>4 DEF ListedNames, NamesOf
    <3>6. maximal_tsv' \in InOrder(named \cap T, FirstPushed(n_merged))
      <4> HIDE DEF T
      <4> QED BY <3>1, <3>3, <3>5, InOrderTransitive
    <3> QED BY <3>2, <3>6
  <2>2. ListingIsMaximal'
    BY <1>1, <1>2, <2>1 DEF ListingIsMaximal, FirstPushed, MaximalOf, Dominates, Implies, prefer_first
  <2> QED BY <1>3, <1>4, <1>5, <1>6, <2>2
<1> QED BY <1>1, <1>7, <1>8

LEMMA StreamStep ==
    ASSUME MayTimeOut = FALSE, StreamIsMaximal, [Next]_vars
    PROVE  StreamIsMaximal'
<1>1. CASE Finish \/ Abandon \/ Joins \/ UNCHANGED vars
  BY <1>1, QuietSteps, QuietKeeps
<1>2. ASSUME NEW s \in Spec, NEW has_name \in BOOLEAN, Push(s, has_name)
      PROVE  StreamIsMaximal'
  BY <1>2, PushKeeps
<1>3. CASE Coordinator
  BY <1>3, TakeQueueKeeps, DispatchKeeps, CheckKeeps, MergeKeeps, ThrowingKeeps, WritingKeeps
     DEF Coordinator
<1> QED BY <1>1, <1>2, <1>3 DEF Next

\* While no query times out, whatever is pushed when and merged in whatever
\* batches, the members and the listing on disk are the maximal set, in push
\* order, of what was merged.
THEOREM StreamIsAlwaysMaximal ==
    ASSUME MayTimeOut = FALSE
    PROVE  StreamSpec => []StreamIsMaximal
<1>1. StreamIsMaximal /\ [Next]_vars => StreamIsMaximal'
  BY StreamStep
<1> QED BY <1>1, StreamBegins, PTL DEF StreamSpec

-----------------------------------------------------------------------------
(* What the search is promised *)

\* MaximalSet's operators are the ones above.
LEMMA SamePromise ==
    /\ \A S, list : Promise!InOrder(S, list) = InOrder(S, list)
    /\ \A S : Promise!MaximalOf(S) = MaximalOf(S)
    /\ \A f : Promise!Range(f) = Range(f)
<1>1. \A S, n : Promise!SeqOf(S, n) = SeqOf(S, n)
  BY DEF SeqOf, Promise!SeqOf
<1>2. \A f : Promise!Range(f) = Range(f)
  BY DEF Range, Promise!Range
<1>3. \A S, list : Promise!InOrder(S, list) = InOrder(S, list)
  BY <1>1, <1>2 DEF InOrder, Promise!InOrder
<1>4. \A S : Promise!MaximalOf(S) = MaximalOf(S)
  BY DEF MaximalOf, Promise!MaximalOf, Dominates, Promise!Dominates, Implies, Promise!Implies,
         prefer_first, Promise!prefer_first
<1> QED BY <1>2, <1>3, <1>4

LEMMA PromiseBegins == Init => Promise!Init
BY DEF Init, SweepInit, Promise!Init

\* finish, once it has joined a coordinator that did not fail, has the
\* maximal set of everything that was pushed.
LEMMA ReturnKeepsThePromise ==
    ASSUME StreamIsMaximal, FinishJoined
    PROVE  Promise!Return \/ Promise!Fail
<1> USE DEF StreamIsMaximal
<1>1. /\ owner = "finishing" /\ coordinator = "exited"
      /\ UNCHANGED <<implication, pushed>>
      /\ \/ m_error /\ owner' = "threw" /\ outcome' = outcome
         \/ ~m_error /\ owner' = "returned" /\ outcome' = m_members
  BY DEF FinishJoined, Rethrows, sweepVars
<1>2. CASE owner' = "threw" /\ outcome' = outcome
  BY <1>1, <1>2 DEF Promise!Fail
<1>3. CASE ~m_error /\ owner' = "returned" /\ outcome' = m_members
  <2>1. ~m_abandoned /\ m_queue = <<>>
    BY <1>1 DEF CoordinatorIsPlaced
  <2>2. pushed \in Seq(Spec) /\ Len(pushed) \in Nat
    BY DEF TypeOK
  <2>3. PendingIsWhatWaits
    BY PendingIs
  <2>4. Len(Pending) = 0
    BY <1>1, <2>1, <2>3 DEF PendingIsWhatWaits
  <2>5. n_merged = Len(pushed)
    BY <2>2, <2>4 DEF n_merged
  <2>6. FirstPushed(n_merged) = pushed
    BY <2>2, <2>5 DEF FirstPushed
  <2>7. outcome' \in InOrder(MaximalOf(Range(pushed)), pushed)
    BY <1>3, <2>1, <2>6 DEF MembersAreTheMaximal
  <2>8. outcome' \in Promise!InOrder(Promise!MaximalOf(Promise!Range(pushed)), pushed)
    BY <2>7, SamePromise
  <2> QED BY <1>1, <1>3, <2>8 DEF Promise!Return
<1> QED BY <1>1, <1>2, <1>3

LEMMA PromiseStep ==
    ASSUME StreamIsMaximal, [Next]_vars
    PROVE  [Promise!Next]_Promise!setVars
<1>1. ASSUME NEW s \in Spec, NEW has_name \in BOOLEAN, Push(s, has_name)
      PROVE  Promise!Push(s)
  <2>1. s \notin Promise!Range(pushed)
    BY <1>1, SamePromise DEF Push, m_seen
  <2> QED BY <1>1, <2>1 DEF Push, Promise!Push, sweepVars
<1>2. CASE Finish \/ Abandon
  BY <1>2 DEF Finish, Abandon, Promise!Next, Promise!Close, sweepVars
<1>3. CASE FinishJoined
  BY <1>3, ReturnKeepsThePromise DEF Promise!Next
<1>4. CASE AbandonJoined
  BY <1>4 DEF AbandonJoined, Promise!Next, Promise!Fail, sweepVars
<1>5. CASE CloseAbandoned
  BY <1>5 DEF CloseAbandoned, Promise!setVars, sweepVars
<1>6. CASE Coordinator
  <2>1. UNCHANGED <<implication, pushed, owner, outcome>>
    BY <1>6 DEF Coordinator, TakeQueue, Dispatch, Check, MergeReturns, MergeThrows, WriteListing,
                sweepVars, ownerVars, BeginSweep, StartCheck, FinishCheck, ThrowCheck
  <2> QED BY <2>1 DEF Promise!setVars
<1>7. CASE UNCHANGED vars
  BY <1>7 DEF vars, sweepVars, ownerVars, Promise!setVars
<1> QED BY <1>1, <1>2, <1>3, <1>4, <1>5, <1>6, <1>7 DEF Next, Joins, Promise!Next

\* While no query times out, every step of the filter is a step of what it
\* promises: finish hands back the maximal specifications, in push order, of
\* everything that was pushed, or throws; a filter destroyed before that hands
\* back nothing.
THEOREM StreamKeepsItsPromise ==
    ASSUME MayTimeOut = FALSE
    PROVE  StreamSpec => Promise!Init /\ [][Promise!Next]_Promise!setVars
<1>1. StreamIsMaximal /\ [Next]_vars => [Promise!Next]_Promise!setVars
  BY PromiseStep
<1> QED BY <1>1, PromiseBegins, StreamIsAlwaysMaximal, PTL DEF StreamSpec
=============================================================================
