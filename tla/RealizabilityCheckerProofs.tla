---------------------- MODULE RealizabilityCheckerProofs ----------------------
(***************************************************************************)
(* What RealizabilityChecker tells its callers, proved for every alphabet, *)
(* rule table, query set, number of workers and size of the store.         *)
(*                                                                         *)
(* The inductive invariant is CachesAreSound: an answer is taken from the  *)
(* tables, so it is right only while they are; an entry is added from what *)
(* a call has in hand, so that must be right at every place of the call.   *)
(***************************************************************************)
EXTENDS RealizabilityChecker, FiniteSetTheorems, TLAPS

-----------------------------------------------------------------------------
(* What one decided query says of another *)

\* Where obeying one pair of sides is obeying another, realizing the one is
\* realizing the other.
LEMMA RealizabilityTransfers ==
    ASSUME NEW sc \in Scope, NEW A, NEW G, NEW B, NEW H,
           \A w \in Word : Obeys(A, G, w) => Obeys(B, H, w),
           RealizableIn(sc, A, G)
    PROVE  RealizableIn(sc, B, H)
<1>1. PICK st \in Strategy : Realizes(sc, st, A, G)
  BY DEF RealizableIn
<1>2. Plays[sc][st] \subseteq Word
  BY CheckerAssumption
<1>3. Realizes(sc, st, B, H)
  BY <1>1, <1>2 DEF Realizes
<1> QED
  BY <1>3 DEF RealizableIn

\* Fewer guarantees under more assumptions ask less of a word.
LEMMA InclusionTransfers ==
    ASSUME NEW A, NEW G, NEW B, NEW H, Includes(B, A), Includes(G, H), NEW w
    PROVE  Obeys(A, G, w) => Obeys(B, H, w)
BY DEF Obeys, Holds, Includes

\* Covered: what is offered implies what is needed.
LEMMA CoveredHolds ==
    ASSUME NEW N, NEW O, Covered(N, O), NEW w, Holds(O, w)
    PROVE  Holds(N, w)
BY CheckerAssumption DEF Covered, rule_implies, Holds

\* Sides that differ in conjuncts the rules cover ask less of a word.
LEMMA RulesTransfer ==
    ASSUME NEW A, NEW G, NEW B, NEW H,
           Covered(A \ B, B \ A), Covered(H \ G, G \ H), NEW w
    PROVE  Obeys(A, G, w) => Obeys(B, H, w)
<1> SUFFICES ASSUME Obeys(A, G, w), Holds(B, w)
             PROVE  Holds(H, w)
  BY DEF Obeys
<1>1. Holds(B \ A, w)
  BY DEF Holds
<1>2. Holds(A \ B, w)
  BY <1>1, CoveredHolds
<1>3. Holds(A, w)
  BY <1>2 DEF Holds
<1>4. Holds(G, w)
  BY <1>3 DEF Obeys
<1>5. Holds(G \ H, w)
  BY <1>4 DEF Holds
<1>6. Holds(H \ G, w)
  BY <1>5, CoveredHolds
<1> QED
  BY <1>4, <1>6 DEF Holds

\* A true entry that subsumes a query, by inclusion or by the rules, has the
\* query's own verdict.
LEMMA SubsumptionIsTrue ==
    ASSUME NEW e \in DecidedQuery, NEW q \in Query, e.scope = q.scope,
           e.realizable <=> RealizableIn(e.scope, e.A, e.G),
           Subsumes(e, q) \/ RuleSubsumes(e, q)
    PROVE  Verdict(e) = Truth(q)
<1>1. e.scope \in Scope /\ e.realizable \in BOOLEAN
  BY DEF DecidedQuery
<1>2. CASE e.realizable
  <2>1. \A w \in Word : Obeys(e.A, e.G, w) => Obeys(q.A, q.G, w)
    BY <1>2, InclusionTransfers, RulesTransfer DEF Subsumes, RuleSubsumes
  <2>2. RealizableIn(q.scope, q.A, q.G)
    BY <1>1, <1>2, <2>1, RealizabilityTransfers
  <2> QED
    BY <1>2, <2>2 DEF Verdict, Truth, Realizable
<1>3. CASE ~e.realizable
  <2>1. \A w \in Word : Obeys(q.A, q.G, w) => Obeys(e.A, e.G, w)
    BY <1>3, InclusionTransfers, RulesTransfer DEF Subsumes, RuleSubsumes
  <2>2. ~RealizableIn(q.scope, q.A, q.G)
    BY <1>1, <1>3, <2>1, RealizabilityTransfers
  <2> QED
    BY <1>3, <2>2 DEF Verdict, Truth, Realizable
<1> QED
  BY <1>1, <1>2, <1>3

\* decide_without_environment: where a strategy plays one word, some word
\* obeys the query exactly when some strategy realizes it.
LEMMA OneWordIsSatisfiability ==
    ASSUME NEW q \in Query, Routed(q)
    PROVE  Satisfiable(q) <=> Realizable(q)
<1>1. \A st \in Strategy : \E w \in Word : Plays[q.scope][st] = {w}
  BY CheckerAssumption DEF Routed
<1>2. \A st \in Strategy :
        (\E w \in Plays[q.scope][st] : Obeys(q.A, q.G, w))
          <=> \A w \in Plays[q.scope][st] : Obeys(q.A, q.G, w)
  BY <1>1
<1> QED
  BY <1>2 DEF Satisfiable, Realizable, RealizableIn, Realizes

LEMMA TruthDecides ==
    \A q : /\ Truth(q) \in {"yes", "no"}
           /\ Truth(q) = "yes" <=> Realizable(q)
BY DEF Truth

-----------------------------------------------------------------------------
(* The candidates for reuse *)

LEMMA SharedType ==
    ASSUME NEW c \in Controller, NEW q \in Query
    PROVE  Shared(c, q) \in Nat
<1>1. c.A \subseteq Conjunct /\ c.G \subseteq Conjunct /\ IsFiniteSet(Conjunct)
  BY CheckerAssumption DEF Controller
<1>2. /\ IsFiniteSet(c.A \cap q.A) /\ IsFiniteSet(c.G \cap q.G)
  BY <1>1, FS_Subset, FS_Intersection
<1> QED
  BY <1>2, FS_CardinalityType DEF Shared

\* Better ranks the controllers of a bucket without ties, so every place in the
\* order is taken by one of them.
LEMMA EveryRankIsTaken ==
    ASSUME NEW bucket \in Seq(Controller), NEW q \in Query, NEW k \in 1..Len(bucket)
    PROVE  \E i \in DOMAIN bucket :
             Cardinality({j \in DOMAIN bucket : Better(bucket, q, j, i)}) = k - 1
<1> DEFINE n == Len(bucket)
           before(i) == {j \in DOMAIN bucket : Better(bucket, q, j, i)}
           shared == [i \in 1..n |-> Shared(bucket[i], q)]
           rank == [i \in 1..n |-> Cardinality(before(i))]
<1>1. n \in Nat /\ DOMAIN bucket = 1..n /\ shared \in [1..n -> Nat]
  BY SharedType
<1>2. \A i, j \in 1..n :
        Better(bucket, q, i, j) <=> \/ shared[i] > shared[j]
                                    \/ shared[i] = shared[j] /\ i > j
  BY <1>1 DEF Better
<1>3. \A i \in 1..n : before(i) \subseteq (1..n) \ {i}
  BY <1>1, <1>2
<1>4. IsFiniteSet(1..n) /\ Cardinality(1..n) = n
  BY <1>1, FS_Interval
<1>5. \A i \in 1..n : /\ IsFiniteSet(before(i))
                      /\ Cardinality(before(i)) \in 0..n - 1
  <2> TAKE i \in 1..n
  <2>1. IsFiniteSet((1..n) \ {i}) /\ Cardinality((1..n) \ {i}) = n - 1
    BY <1>4, FS_RemoveElement
  <2>2. IsFiniteSet(before(i)) /\ Cardinality(before(i)) <= n - 1
    BY <1>3, <2>1, FS_Subset
  <2> QED
    BY <1>1, <2>2, FS_CardinalityType
<1>6. ASSUME NEW i \in 1..n, NEW j \in 1..n, Better(bucket, q, i, j)
      PROVE  rank[i] < rank[j]
  <2>1. before(i) \subseteq before(j) \ {i} /\ i \in before(j)
    BY <1>1, <1>2, <1>6
  <2>2. /\ IsFiniteSet(before(j) \ {i})
        /\ Cardinality(before(j) \ {i}) = Cardinality(before(j)) - 1
    BY <1>5, <2>1, FS_RemoveElement
  <2>3. Cardinality(before(i)) <= Cardinality(before(j)) - 1
    BY <2>1, <2>2, FS_Subset
  <2> HIDE DEF before
  <2>4. Cardinality(before(i)) \in Int /\ Cardinality(before(j)) \in Int
    BY <1>1, <1>5
  <2> QED
    BY <2>3, <2>4
<1>7. rank \in Injection(1..n, 0..n - 1)
  <2>1. rank \in [1..n -> 0..n - 1]
    BY <1>5
  <2>2. \A i, j \in 1..n : i # j => Better(bucket, q, i, j) \/ Better(bucket, q, j, i)
    BY <1>1, <1>2 DEF Better
  <2> HIDE DEF rank
  <2>3. \A i, j \in 1..n : rank[i] = rank[j] => i = j
    BY <1>1, <1>6, <2>1, <2>2
  <2> QED
    BY <2>1, <2>3 DEF Injection, IsInjective
<1>8. IsFiniteSet(0..n - 1) /\ Cardinality(0..n - 1) = n
  <2>1. 0 \in Int /\ n - 1 \in Int /\ (IF 0 > n - 1 THEN 0 ELSE n - 1 - 0 + 1) = n
    BY <1>1
  <2> QED
    BY <2>1, FS_Interval
<1>9. rank \in Surjection(1..n, 0..n - 1)
  BY <1>4, <1>7, <1>8, FS_Injection
<1>10. k - 1 \in 0..n - 1
  BY <1>1
<1>11. PICK i \in 1..n : rank[i] = k - 1
  BY <1>9, <1>10 DEF Surjection
<1> QED
  BY <1>1, <1>11

\* reuse_candidates hands out controllers of the query's own bucket.
LEMMA CandidatesAreStored ==
    ASSUME NEW q \in Query, m_controllers \in [Scope -> Seq(Controller)], q.scope \in Scope
    PROVE  /\ reuse_candidates(q) \in Seq(Controller)
           /\ \A k \in DOMAIN reuse_candidates(q) :
                \E i \in DOMAIN m_controllers[q.scope] :
                    reuse_candidates(q)[k] = m_controllers[q.scope][i]
<1> DEFINE bucket == m_controllers[q.scope]
           kept == IF Len(bucket) < Candidates THEN Len(bucket) ELSE Candidates
           before(i) == {j \in DOMAIN bucket : Better(bucket, q, j, i)}
           at(k) == CHOOSE i \in DOMAIN bucket : Cardinality(before(i)) = k - 1
<1>1. bucket \in Seq(Controller) /\ kept \in Nat /\ kept <= Len(bucket)
  BY CheckerAssumption
<1>2. \A k \in 1..kept : at(k) \in DOMAIN bucket
  <2> TAKE k \in 1..kept
  <2>1. k \in 1..Len(bucket)
    BY <1>1
  <2>2. \E i \in DOMAIN bucket : Cardinality(before(i)) = k - 1
    BY <1>1, <2>1, EveryRankIsTaken
  <2> QED
    BY <2>2
<1>3. reuse_candidates(q) = [k \in 1..kept |-> bucket[at(k)]]
  BY DEF reuse_candidates
<1> HIDE DEF at, kept, bucket
<1>4. \A k \in 1..kept : bucket[at(k)] \in Controller
  BY <1>1, <1>2
<1>5. [k \in 1..kept |-> bucket[at(k)]] \in Seq(Controller)
  BY <1>1, <1>4
<1> QED
  BY <1>2, <1>3, <1>5 DEF bucket

-----------------------------------------------------------------------------
(* The tables *)

\* A query of the program, its sides and its entry have their types.
LEMMA QueryType ==
    ASSUME NEW q \in Query
    PROVE  /\ q.scope \in Scope /\ q.A \subseteq Conjunct /\ q.G \subseteq Conjunct
           /\ \A verdict : Entry(q, verdict) \in DecidedQuery
           /\ Winning(q) \subseteq Controller
<1>1. q \in [scope : Scope, A : SUBSET Conjunct, G : SUBSET Conjunct]
  BY CheckerAssumption
<1>2. q.scope \in Scope /\ q.A \subseteq Conjunct /\ q.G \subseteq Conjunct
  BY <1>1
<1> QED
  BY <1>2 DEF Entry, DecidedQuery, Winning, Controller

\* The memo of verdicts after an emplace.
LEMMA MemoisedIsTrue ==
    ASSUME TypeOK, TablesAreTrue, NEW q \in Query,
           NEW verdict \in {"yes", "no", "undecided"},
           verdict # "undecided" => verdict = Truth(q),
           m_cache' = Memoised(q, verdict)
    PROVE  /\ DOMAIN m_cache' \subseteq Query
           /\ m_cache' \in [DOMAIN m_cache' -> {"yes", "no", "undecided"}]
           /\ \A p \in DOMAIN m_cache' :
                m_cache'[p] # "undecided" => m_cache'[p] = Truth(p)
<1>1. /\ DOMAIN m_cache' = DOMAIN m_cache \cup {q}
      /\ \A p \in DOMAIN m_cache' :
            m_cache'[p] = IF p \in DOMAIN m_cache THEN m_cache[p] ELSE verdict
  BY DEF Memoised
<1>2. m_cache' \in [DOMAIN m_cache' -> {"yes", "no", "undecided"}]
  BY <1>1 DEF Memoised, TypeOK
<1> QED
  BY <1>1, <1>2 DEF TypeOK, TablesAreTrue

\* remember_verdict adds true entries only, and none for an abandoned query.
LEMMA RememberedIsTrue ==
    ASSUME TypeOK, TablesAreTrue, NEW q \in Query, NEW have_sides \in BOOLEAN,
           NEW verdict \in {"yes", "no", "undecided"},
           verdict # "undecided" => verdict = Truth(q),
           remember_verdict(q, have_sides, verdict)
    PROVE  /\ DOMAIN m_cache' \subseteq Query
           /\ m_cache' \in [DOMAIN m_cache' -> {"yes", "no", "undecided"}]
           /\ \A p \in DOMAIN m_cache' :
                m_cache'[p] # "undecided" => m_cache'[p] = Truth(p)
           /\ m_decided' \subseteq DecidedQuery
           /\ \A e \in m_decided' : e.realizable <=> RealizableIn(e.scope, e.A, e.G)
<1>1. m_cache' = Memoised(q, verdict)
  BY DEF remember_verdict
<1>2. m_decided' \subseteq m_decided \cup {Entry(q, verdict)}
  BY DEF remember_verdict, Decided
<1>3. verdict = "undecided" => m_decided' = m_decided
  BY DEF remember_verdict, Decided
<1>4. verdict # "undecided" =>
        LET e == Entry(q, verdict) IN e.realizable <=> RealizableIn(e.scope, e.A, e.G)
  BY TruthDecides DEF Entry, Realizable
<1>5. m_decided' \subseteq DecidedQuery
  BY <1>2, QueryType DEF TypeOK
<1>6. \A e \in m_decided' : e.realizable <=> RealizableIn(e.scope, e.A, e.G)
  BY <1>2, <1>3, <1>4 DEF TablesAreTrue
<1> QED
  BY <1>1, <1>5, <1>6, MemoisedIsTrue

\* A verdict that follows from the table is the query's own.
LEMMA ComparedIsTrue ==
    ASSUME TypeOK, TablesAreTrue, NEW q \in Query,
           NEW verdict \in subsumed_verdict(q) \cup rule_subsumed_verdict(q)
    PROVE  verdict = Truth(q)
<1>1. PICK e \in Bucket(m_decided, q.scope) :
        verdict = Verdict(e) /\ (Subsumes(e, q) \/ RuleSubsumes(e, q))
  BY DEF subsumed_verdict, rule_subsumed_verdict
<1>2. /\ e \in DecidedQuery /\ e.scope = q.scope
      /\ e.realizable <=> RealizableIn(e.scope, e.A, e.G)
  BY <1>1 DEF Bucket, TypeOK, TablesAreTrue
<1> QED
  BY <1>1, <1>2, SubsumptionIsTrue

-----------------------------------------------------------------------------
(* The store *)

\* A pass, remembered or just run, is about the assumptions in hand.
LEMMA ProductIsOfItsAssumptions ==
    ASSUME NEW c \in Controller, NEW A \in SUBSET Conjunct, NEW g
    PROVE  /\ Product(c, A) \in Controller /\ Product(c, A).A = A
           /\ Empty(Product(c, A), A, g) <=> Empty(c, A, g)
BY DEF Product, Controller, Empty

\* What ToCheck leaves out needs no check: the controller realizes it.
LEMMA UncheckedIsMet ==
    ASSUME NEW c, NEW q, Realizes(c.scope, c.st, c.A, c.G), NEW g \in q.G \ ToCheck(c, q)
    PROVE  Empty(c, q.A, g)
<1>1. c.A \subseteq q.A /\ g \in c.G
  BY DEF ToCheck
<1> QED
  BY <1>1 DEF Empty, Realizes, Obeys, Holds

\* A controller that meets every guarantee under the assumptions wins the query.
LEMMA MetIsRealized ==
    ASSUME NEW q \in Query, NEW c \in Controller, c.scope = q.scope,
           \A g \in q.G : Empty(c, q.A, g)
    PROVE  Truth(q) = "yes"
<1>1. c.st \in Strategy
  BY DEF Controller
<1>2. Realizes(q.scope, c.st, q.A, q.G)
  BY DEF Empty, Realizes, Obeys, Holds
<1> QED
  BY <1>1, <1>2 DEF Truth, Realizable, RealizableIn

\* An eviction takes the oldest and leaves the others as they were.
LEMMA KeptFromBucket ==
    ASSUME NEW bucket \in Seq(Controller), Len(bucket) <= PerScope, NEW c \in Controller
    PROVE  /\ Kept(Append(bucket, c)) \in Seq(Controller)
           /\ Len(Kept(Append(bucket, c))) <= PerScope
           /\ \A i \in DOMAIN Kept(Append(bucket, c)) :
                \/ Kept(Append(bucket, c))[i] = c
                \/ \E j \in DOMAIN bucket : Kept(Append(bucket, c))[i] = bucket[j]
<1> DEFINE longer == Append(bucket, c)
<1>1. /\ longer \in Seq(Controller) /\ Len(longer) = Len(bucket) + 1 /\ longer # <<>>
      /\ \A i \in 1..Len(bucket) : longer[i] = bucket[i]
      /\ longer[Len(bucket) + 1] = c
  OBVIOUS
<1>2. \A i \in DOMAIN longer : longer[i] = c \/ \E j \in DOMAIN bucket : longer[i] = bucket[j]
  BY <1>1
<1> HIDE DEF longer
<1>3. CASE Len(longer) > PerScope
  <2>1. Kept(longer) = Tail(longer)
    BY <1>3 DEF Kept
  <2>2. /\ Tail(longer) \in Seq(Controller) /\ Len(Tail(longer)) = Len(longer) - 1
        /\ \A i \in DOMAIN Tail(longer) : Tail(longer)[i] = longer[i + 1] /\ i + 1 \in DOMAIN longer
    BY <1>1
  <2> QED
    BY <1>1, <1>2, <2>1, <2>2, CheckerAssumption DEF longer
<1>4. CASE ~(Len(longer) > PerScope)
  BY <1>1, <1>2, <1>4, CheckerAssumption DEF Kept, longer
<1> QED
  BY <1>3, <1>4

\* The two ways a check of g ends, and the entry an exec leaves.
Passes(w, g) ==
    left' = [left EXCEPT ![w] = @ \ {g}] /\ pc' = pc /\ held' = held

Fails(w) ==
    /\ held' = [held EXCEPT ![w] = Tail(@)]
    /\ left' = [left EXCEPT ![w] = {}]
    /\ pc' = [pc EXCEPT ![w] = "try"]

CheckRun(w, g) ==
    [product |-> Product(Head(held[w]), query[w].A), g |-> g, empty |-> Met(w, g)]

LEMMA CheckType ==
    ASSUME TypeOK, WorkIsSound, NEW w \in Worker, Check(w)
    PROVE  /\ held[w] # <<>> /\ Head(held[w]) \in Controller
           /\ Tail(held[w]) \in Seq(Controller)
           /\ query[w].A \in SUBSET Conjunct
           /\ \A g \in Conjunct :
                CheckRun(w, g) \in [product : Controller, g : Conjunct, empty : BOOLEAN]
<1>1. query[w] \in Query /\ held[w] \in Seq(Controller)
  BY DEF TypeOK
<1>2. held[w] # <<>>
  BY DEF Check, WorkIsSound, CallIsSound
<1>3. /\ Head(held[w]) \in Controller /\ Tail(held[w]) \in Seq(Controller)
      /\ query[w].A \in SUBSET Conjunct
  BY <1>1, <1>2, QueryType
<1>4. Product(Head(held[w]), query[w].A) \in Controller
  BY <1>3, ProductIsOfItsAssumptions
<1>5. \A g : Met(w, g) \in BOOLEAN
  BY DEF Met, Empty
<1> QED
  BY <1>2, <1>3, <1>4, <1>5 DEF CheckRun

\* A guarantee is passed only where it is met, whether the check is run or
\* remembered, and what a run leaves in the memo is what it found.
LEMMA CheckOutcome ==
    ASSUME TypeOK, StoreIsSound, WorkIsSound, NEW w \in Worker, Check(w)
    PROVE  \E g \in left[w] :
             /\ \/ m_verdicts' = m_verdicts
                \/ m_verdicts' = m_verdicts \cup {CheckRun(w, g)}
             /\ \/ Passes(w, g) /\ Met(w, g)
                \/ Fails(w)
<1> DEFINE c == Head(held[w])
           A == query[w].A
<1>1. c \in Controller /\ A \in SUBSET Conjunct
  BY CheckType
<1>2. PICK g \in left[w] :
        \/ /\ \E v \in Checked(c, A, g) : IF v.empty THEN Passes(w, g) ELSE Fails(w)
           /\ m_verdicts' = m_verdicts
        \/ /\ m_verdicts' =
                 m_verdicts \cup {[product |-> Product(c, A), g |-> g, empty |-> Empty(c, A, g)]}
           /\ IF Empty(c, A, g) THEN Passes(w, g) ELSE Fails(w)
        \/ Fails(w) /\ m_verdicts' = m_verdicts
  BY DEF Check, Passes, Fails, Goto
<1>3. \A v \in Checked(c, A, g) : v.empty => Met(w, g)
  <2> SUFFICES ASSUME NEW v \in Checked(c, A, g), v.empty
               PROVE  Met(w, g)
    OBVIOUS
  <2>1. Empty(Product(c, A), A, g)
    BY <1>1, ProductIsOfItsAssumptions DEF Checked, StoreIsSound
  <2> QED
    BY <1>1, <2>1, ProductIsOfItsAssumptions DEF Met
<1> QED
  BY <1>2, <1>3 DEF CheckRun, Met

\* A call that has nothing left to check has a controller that wins its query.
LEMMA SettleIsTrue ==
    ASSUME TypeOK, WorkIsSound, NEW w \in Worker, pc[w] = "check", left[w] = {}
    PROVE  Truth(query[w]) = "yes"
<1>1. CallIsSound(w) /\ query[w] \in Query /\ held[w] \in Seq(Controller)
  BY DEF WorkIsSound, TypeOK
<1>2. held[w] # <<>> /\ \A g \in query[w].G : Empty(Head(held[w]), query[w].A, g)
  BY <1>1 DEF CallIsSound, Met
<1>3. Head(held[w]) \in Controller /\ Head(held[w]).scope = query[w].scope
  BY <1>1, <1>2 DEF CallIsSound, Serves
<1> QED
  BY <1>1, <1>2, <1>3, MetIsRealized

-----------------------------------------------------------------------------
(* The invariant *)

\* The verdict a call has come to is decided only where it is so.
LEMMA AnswerIsTrue ==
    ASSUME TypeOK, WorkIsSound, NEW w \in Worker, pc[w] \in {"store", "remember", "answered"}
    PROVE  /\ answer[w] \in {"yes", "no", "undecided"}
           /\ answer[w] # "undecided" => answer[w] = Truth(query[w])
<1>1. answer[w] \in {"yes", "no", "undecided"}
  BY DEF TypeOK
<1>2. CallIsSound(w)
  BY DEF WorkIsSound
<1> QED
  BY <1>1, <1>2 DEF CallIsSound

\* Every variable keeps its type through every step.
LEMMA TypeStep ==
    ASSUME CachesAreSound, NEW w \in Worker, Ask(w) \/ Step(w)
    PROVE  TypeOK'
<1> USE DEF CachesAreSound, Place, Goto, Returns, callVars, tableVars, storeVars, checkVars
<1>q. query[w] \in Query /\ sides[w] \in BOOLEAN
  BY DEF TypeOK
<1>1. CASE Ask(w)
  <2>1. setting.queries \subseteq Query /\ setting.modes \subseteq BOOLEAN \X BOOLEAN
    BY CheckerAssumption DEF TypeOK
  <2> QED
    BY <1>1, <2>1 DEF Ask, TypeOK
<1>2. CASE Hit(w)
  BY <1>2 DEF Hit, TypeOK
<1>3. CASE Subsumed(w)
  <2>1. PICK verdict \in subsumed_verdict(query[w]) \cup rule_subsumed_verdict(query[w]) :
          m_cache' = Memoised(query[w], verdict) /\ answer' = [answer EXCEPT ![w] = verdict]
    BY <1>3 DEF Subsumed
  <2>2. verdict = Truth(query[w]) /\ verdict \in {"yes", "no", "undecided"}
    BY <1>q, <2>1, ComparedIsTrue, TruthDecides
  <2>3. /\ DOMAIN m_cache' \subseteq Query
        /\ m_cache' \in [DOMAIN m_cache' -> {"yes", "no", "undecided"}]
    BY <1>q, <2>1, <2>2, MemoisedIsTrue
  <2> QED
    BY <1>3, <2>1, <2>2, <2>3 DEF Subsumed, TypeOK
<1>4. CASE Miss(w)
  BY <1>4 DEF Miss, TypeOK
<1>5. CASE Route(w)
  <2>1. /\ remember_verdict(query[w], sides[w], Truth(query[w]))
        /\ answer' = [answer EXCEPT ![w] = Truth(query[w])]
    BY <1>q, <1>5, OneWordIsSatisfiability DEF Route, Truth
  <2>2. /\ DOMAIN m_cache' \subseteq Query
        /\ m_cache' \in [DOMAIN m_cache' -> {"yes", "no", "undecided"}]
        /\ m_decided' \subseteq DecidedQuery
    BY <1>q, <2>1, TruthDecides, RememberedIsTrue
  <2> QED
    BY <1>5, <2>1, <2>2, TruthDecides DEF Route, TypeOK
<1>6. CASE Unrouted(w)
  BY <1>6 DEF Unrouted, TypeOK
<1>7. CASE Pick(w)
  <2>1. reuse_candidates(query[w]) \in Seq(Controller)
    BY <1>q, QueryType, CandidatesAreStored DEF TypeOK
  <2> QED
    BY <1>7, <2>1 DEF Pick, TypeOK
<1>8. CASE Try(w)
  <2>1. held[w] \in Seq(Controller)
    BY DEF TypeOK
  <2>2. held[w] # <<>> => /\ Tail(held[w]) \in Seq(Controller)
                          /\ ToCheck(Head(held[w]), query[w]) \in SUBSET Conjunct
    BY <1>q, <2>1, QueryType DEF ToCheck
  <2>3. UNCHANGED <<setting, query, sides, speculative, answer, tableVars, storeVars, found>>
    BY <1>8 DEF Try
  <2>4. /\ pc' \in [Worker -> Place] /\ held' \in [Worker -> Seq(Controller)]
        /\ left' \in [Worker -> SUBSET Conjunct]
    <3>0. /\ pc \in [Worker -> Place] /\ held \in [Worker -> Seq(Controller)]
          /\ left \in [Worker -> SUBSET Conjunct]
      BY DEF TypeOK
    <3>1. CASE /\ pc' = [pc EXCEPT ![w] = "synth"]
               /\ UNCHANGED <<held, left>>
      BY <3>0, <3>1
    <3>2. CASE /\ held[w] # <<>>
               /\ left' = [left EXCEPT ![w] = ToCheck(Head(held[w]), query[w])]
               /\ pc' = [pc EXCEPT ![w] = "check"]
               /\ UNCHANGED held
      BY <2>2, <3>0, <3>2
    <3>3. CASE /\ held[w] # <<>>
               /\ held' = [held EXCEPT ![w] = Tail(@)]
               /\ UNCHANGED <<pc, left>>
      BY <2>2, <3>0, <3>3
    <3> QED
      BY <1>8, <3>1, <3>2, <3>3 DEF Try
  <2> QED
    BY <2>3, <2>4 DEF TypeOK
<1>9. CASE Check(w)
  <2>1. PICK g \in left[w] :
          /\ \/ m_verdicts' = m_verdicts
             \/ m_verdicts' = m_verdicts \cup {CheckRun(w, g)}
          /\ Passes(w, g) \/ Fails(w)
    BY <1>9, CheckOutcome
  <2>2. /\ CheckRun(w, g) \in [product : Controller, g : Conjunct, empty : BOOLEAN]
        /\ Tail(held[w]) \in Seq(Controller)
    BY <1>q, <1>9, CheckType DEF TypeOK
  <2>3. m_verdicts' \subseteq [product : Controller, g : Conjunct, empty : BOOLEAN]
    BY <2>1, <2>2 DEF TypeOK
  <2>4. /\ pc' \in [Worker -> Place] /\ held' \in [Worker -> Seq(Controller)]
        /\ left' \in [Worker -> SUBSET Conjunct]
    <3>1. CASE Passes(w, g)
      BY <3>1 DEF Passes, TypeOK
    <3>2. CASE Fails(w)
      BY <2>2, <3>2 DEF Fails, TypeOK
    <3> QED
      BY <2>1, <3>1, <3>2
  <2> QED
    BY <1>9, <2>3, <2>4 DEF Check, TypeOK
<1>10. CASE Settle(w)
  <2>1. /\ DOMAIN m_cache' \subseteq Query
        /\ m_cache' \in [DOMAIN m_cache' -> {"yes", "no", "undecided"}]
        /\ m_decided' \subseteq DecidedQuery
    BY <1>q, <1>10, SettleIsTrue, RememberedIsTrue DEF Settle
  <2> QED
    BY <1>10, <2>1 DEF Settle, TypeOK
<1>11. CASE Synthesise(w) \/ Reask(w)
  <2>1. Winning(query[w]) \subseteq Controller
    BY <1>q, QueryType
  <2>2. NoQuery \in Query
    BY CheckerAssumption DEF NoQuery
  <2>3. CASE Decides(w)
    <3>1. found' \in [Worker -> SUBSET Controller]
      <4>1. found \in [Worker -> SUBSET Controller]
        BY DEF TypeOK
      <4>2. CASE found' = [found EXCEPT ![w] = {}]
        BY <4>1, <4>2
      <4>3. CASE \E c \in Winning(query[w]) : found' = [found EXCEPT ![w] = {c}]
        BY <2>1, <4>1, <4>3
      <4> QED
        BY <2>3, <4>2, <4>3 DEF Decides
    <3> QED
      BY <1>11, <2>3, <3>1, TruthDecides DEF Synthesise, Reask, Decides, TypeOK
  <2>4. CASE GivesUp(w)
    BY <1>11, <2>4 DEF Synthesise, Reask, GivesUp, TypeOK
  <2>5. CASE Throws(w)
    BY <1>11, <2>2, <2>5 DEF Synthesise, Reask, Throws, Leave, TypeOK
  <2>6. CASE /\ Goto(w, "reask")
             /\ UNCHANGED <<query, sides, speculative, answer, found>>
    BY <1>11, <2>6 DEF Synthesise, Reask, TypeOK
  <2> QED
    BY <1>11, <2>3, <2>4, <2>5, <2>6 DEF Synthesise, Reask
<1>12. CASE Store(w)
  <2>1. found' \in [Worker -> SUBSET Controller]
    BY <1>12 DEF Store, TypeOK
  <2>2. /\ m_controllers' \in [Scope -> Seq(Controller)]
        /\ \A sc \in Scope : Len(m_controllers'[sc]) <= PerScope
    <3>1. CASE UNCHANGED m_controllers
      BY <3>1 DEF TypeOK
    <3>2. CASE found[w] # {}
      <4>1. PICK c \in found[w] :
              m_controllers' = [m_controllers EXCEPT ![c.scope] = Kept(Append(@, c))]
        BY <1>12, <3>2 DEF Store
      <4>2. c \in Controller /\ c.scope \in Scope
        BY DEF TypeOK, Controller
      <4>3. /\ Kept(Append(m_controllers[c.scope], c)) \in Seq(Controller)
            /\ Len(Kept(Append(m_controllers[c.scope], c))) <= PerScope
        BY <4>2, KeptFromBucket DEF TypeOK
      <4> QED
        BY <4>1, <4>2, <4>3 DEF TypeOK
    <3> QED
      BY <1>12, <3>1, <3>2 DEF Store
  <2> QED
    BY <1>12, <2>1, <2>2 DEF Store, TypeOK
<1>13. CASE Remember(w)
  <2>1. remember_verdict(query[w], sides[w], answer[w]) /\ pc[w] = "remember"
    BY <1>13 DEF Remember
  <2>2. /\ answer[w] \in {"yes", "no", "undecided"}
        /\ answer[w] # "undecided" => answer[w] = Truth(query[w])
    BY <2>1, AnswerIsTrue
  <2>3. /\ DOMAIN m_cache' \subseteq Query
        /\ m_cache' \in [DOMAIN m_cache' -> {"yes", "no", "undecided"}]
        /\ m_decided' \subseteq DecidedQuery
    BY <1>q, <2>1, <2>2, RememberedIsTrue
  <2> QED
    BY <1>13, <2>3 DEF Remember, TypeOK
<1>14. CASE Answer(w)
  <2>1. NoQuery \in Query
    BY CheckerAssumption DEF NoQuery
  <2>2. told' \subseteq DecidedQuery /\ m_witnesses' \subseteq told'
    BY <1>q, <1>14, QueryType DEF Answer, IsWitness, TypeOK
  <2> QED
    BY <1>14, <2>1, <2>2 DEF Answer, Leave, TypeOK
<1> QED
  BY <1>1, <1>2, <1>3, <1>4, <1>5, <1>6, <1>7, <1>8, <1>9, <1>10, <1>11, <1>12, <1>13, <1>14
     DEF Step

\* No entry of a table becomes wrong, and no wrong one is added.
LEMMA TablesStep ==
    ASSUME CachesAreSound, NEW w \in Worker, Ask(w) \/ Step(w)
    PROVE  TablesAreTrue'
<1> USE DEF CachesAreSound
<1>q. query[w] \in Query /\ sides[w] \in BOOLEAN
  BY DEF TypeOK
<1>1. CASE UNCHANGED <<m_cache, m_decided, told>>
  BY <1>1 DEF TablesAreTrue, Truth, Realizable, RealizableIn, Realizes, Obeys, Holds
<1>2. CASE Subsumed(w)
  <2>1. PICK verdict \in subsumed_verdict(query[w]) \cup rule_subsumed_verdict(query[w]) :
          m_cache' = Memoised(query[w], verdict)
    BY <1>2 DEF Subsumed
  <2>2. verdict = Truth(query[w]) /\ verdict \in {"yes", "no", "undecided"}
    BY <1>q, <2>1, ComparedIsTrue, TruthDecides
  <2>3. \A p \in DOMAIN m_cache' : m_cache'[p] # "undecided" => m_cache'[p] = Truth(p)
    BY <1>q, <2>1, <2>2, MemoisedIsTrue
  <2> QED
    BY <1>2, <2>3 DEF Subsumed, TablesAreTrue
<1>3. CASE Route(w)
  <2>1. remember_verdict(query[w], sides[w], Truth(query[w]))
    BY <1>q, <1>3, OneWordIsSatisfiability DEF Route, Truth
  <2>2. /\ \A p \in DOMAIN m_cache' : m_cache'[p] # "undecided" => m_cache'[p] = Truth(p)
        /\ \A e \in m_decided' : e.realizable <=> RealizableIn(e.scope, e.A, e.G)
    BY <1>q, <2>1, TruthDecides, RememberedIsTrue
  <2> QED
    BY <1>3, <2>2 DEF Route, TablesAreTrue
<1>4. CASE Settle(w)
  <2>1. remember_verdict(query[w], TRUE, "yes") /\ Truth(query[w]) = "yes"
    BY <1>4, SettleIsTrue DEF Settle
  <2>2. /\ \A p \in DOMAIN m_cache' : m_cache'[p] # "undecided" => m_cache'[p] = Truth(p)
        /\ \A e \in m_decided' : e.realizable <=> RealizableIn(e.scope, e.A, e.G)
    BY <1>q, <2>1, RememberedIsTrue
  <2> QED
    BY <1>4, <2>2 DEF Settle, TablesAreTrue
<1>5. CASE Remember(w)
  <2>1. remember_verdict(query[w], sides[w], answer[w]) /\ pc[w] = "remember"
    BY <1>5 DEF Remember
  <2>3. /\ answer[w] \in {"yes", "no", "undecided"}
        /\ answer[w] # "undecided" => answer[w] = Truth(query[w])
    BY <2>1, AnswerIsTrue
  <2>2. /\ \A p \in DOMAIN m_cache' : m_cache'[p] # "undecided" => m_cache'[p] = Truth(p)
        /\ \A e \in m_decided' : e.realizable <=> RealizableIn(e.scope, e.A, e.G)
    BY <1>q, <2>1, <2>3, RememberedIsTrue
  <2> QED
    BY <1>5, <2>2 DEF Remember, TablesAreTrue
<1>6. CASE Answer(w)
  <2>1. answer[w] = "no" => Truth(query[w]) = "no"
    BY <1>6 DEF Answer, WorkIsSound, CallIsSound
  <2>2. \A e \in told' : ~RealizableIn(e.scope, e.A, e.G)
    BY <1>6, <2>1, TruthDecides DEF Answer, Entry, Realizable, TablesAreTrue
  <2> QED
    BY <1>6, <2>2 DEF Answer, TablesAreTrue
<1> QED
  BY <1>1, <1>2, <1>3, <1>4, <1>5, <1>6
     DEF Step, Ask, Hit, Miss, Unrouted, Pick, Try, Check, Synthesise, Reask, Store, tableVars

\* The store stays sound: what joins it won the query it was printed for, and
\* what is evicted takes nothing with it that an answer rests on.
LEMMA StoreStep ==
    ASSUME CachesAreSound, NEW w \in Worker, Ask(w) \/ Step(w)
    PROVE  StoreIsSound'
<1> USE DEF CachesAreSound
<1>1. CASE UNCHANGED <<m_controllers, m_verdicts>>
  BY <1>1 DEF StoreIsSound, Realizes, Obeys, Holds, Empty
<1>2. CASE Check(w)
  <2>1. PICK g \in left[w] : \/ m_verdicts' = m_verdicts
                             \/ m_verdicts' = m_verdicts \cup {CheckRun(w, g)}
    BY <1>2, CheckOutcome
  <2>2. LET v == CheckRun(w, g) IN v.empty => Empty(v.product, v.product.A, v.g)
    BY <1>2, CheckType, ProductIsOfItsAssumptions DEF CheckRun, Met
  <2>3. \A v \in m_verdicts' : v.empty => Empty(v.product, v.product.A, v.g)
    BY <2>1, <2>2 DEF StoreIsSound
  <2> QED
    BY <1>2, <2>3 DEF Check, StoreIsSound
<1>3. CASE Store(w) /\ found[w] # {}
  <2>1. PICK c \in found[w] :
          m_controllers' = [m_controllers EXCEPT ![c.scope] = Kept(Append(@, c))]
    BY <1>3 DEF Store
  <2>2. c \in Controller /\ c.scope \in Scope /\ Realizes(c.scope, c.st, c.A, c.G)
    <3>1. c \in Winning(query[w]) /\ c \in Controller
      BY DEF TypeOK, WorkIsSound, CallIsSound
    <3>2. Realizes(c.scope, c.st, c.A, c.G)
      BY <3>1 DEF Winning
    <3> QED
      BY <3>1, <3>2 DEF Controller
  <2>3. ASSUME NEW sc \in Scope, NEW i \in DOMAIN m_controllers'[sc]
        PROVE  LET d == m_controllers'[sc][i] IN d.scope = sc /\ Realizes(sc, d.st, d.A, d.G)
    <3>1. CASE sc = c.scope
      <4>1. m_controllers'[sc] = Kept(Append(m_controllers[sc], c))
        BY <2>1, <3>1 DEF TypeOK
      <4>2. m_controllers[sc] \in Seq(Controller) /\ Len(m_controllers[sc]) <= PerScope
        BY DEF TypeOK
      <4>3. \/ m_controllers'[sc][i] = c
            \/ \E j \in DOMAIN m_controllers[sc] : m_controllers'[sc][i] = m_controllers[sc][j]
        BY <2>2, <2>3, <4>1, <4>2, KeptFromBucket
      <4> QED
        BY <2>2, <3>1, <4>3 DEF StoreIsSound
    <3>2. CASE sc # c.scope
      BY <2>1, <2>3, <3>2 DEF StoreIsSound, TypeOK
    <3> QED
      BY <3>1, <3>2
  <2> QED
    BY <1>3, <2>3 DEF Store, StoreIsSound
<1>4. CASE Store(w) /\ found[w] = {}
  BY <1>1, <1>4 DEF Store
<1> QED
  BY <1>1, <1>2, <1>3, <1>4
     DEF Step, Ask, Hit, Subsumed, Miss, Route, Unrouted, Pick, Try, Settle, Synthesise, Reask,
         Remember, Answer, storeVars

\* A step of one worker leaves what the others have in hand alone.
LEMMA OthersKeepTheirs ==
    ASSUME NEW v, CallIsSound(v),
           query'[v] = query[v], pc'[v] = pc[v], answer'[v] = answer[v],
           held'[v] = held[v], left'[v] = left[v], found'[v] = found[v]
    PROVE  CallIsSound(v)'
BY DEF CallIsSound, Serves, Met, Empty, Truth, Realizable, RealizableIn, Realizes, Obeys,
       Holds, Winning

\* A call with nothing in hand has only its verdict to answer for.
LEMMA EmptyHanded ==
    ASSUME NEW w, held'[w] = <<>>, left'[w] = {}, found'[w] = {}, pc'[w] # "check",
           pc'[w] \in {"store", "remember", "answered"} /\ answer'[w] # "undecided" =>
             answer'[w] = Truth(query'[w])
    PROVE  CallIsSound(w)'
BY DEF CallIsSound, Truth, Realizable, RealizableIn, Realizes, Obeys, Holds

\* The candidates after the first are as good as they were.
LEMMA TailInHand ==
    ASSUME NEW w, query'[w] = query[w], CallIsSound(w), held[w] \in Seq(Controller),
           held[w] # <<>>, held'[w] = Tail(held[w])
    PROVE  \A i \in DOMAIN held'[w] : Serves(held'[w][i], query'[w])
<1> TAKE i \in DOMAIN held'[w]
<1>1. held'[w][i] = held[w][i + 1] /\ i + 1 \in DOMAIN held[w]
  OBVIOUS
<1>2. Serves(held[w][i + 1], query[w])
  BY <1>1 DEF CallIsSound
<1> QED
  BY <1>1, <1>2

\* What a call has in hand is sound at the place its step takes it to.
LEMMA WorkStep ==
    ASSUME CachesAreSound, NEW w \in Worker, Ask(w) \/ Step(w)
    PROVE  WorkIsSound'
<1> USE DEF CachesAreSound
<1>q. /\ CallIsSound(w) /\ query[w] \in Query
      /\ pc \in [Worker -> Place] /\ query \in [Worker -> Query]
      /\ answer \in [Worker -> {"yes", "no", "undecided"}]
      /\ held \in [Worker -> Seq(Controller)]
      /\ left \in [Worker -> SUBSET Conjunct]
      /\ found \in [Worker -> SUBSET Controller]
  BY DEF TypeOK, WorkIsSound
<1>o. ASSUME NEW v \in Worker, v # w
      PROVE  CallIsSound(v)'
  <2>1. /\ query'[v] = query[v] /\ pc'[v] = pc[v] /\ answer'[v] = answer[v]
        /\ held'[v] = held[v] /\ left'[v] = left[v] /\ found'[v] = found[v]
    <3> USE <1>q, <1>o DEF Goto, Returns, callVars, checkVars
    <3>1. CASE Ask(w) \/ Hit(w) \/ Subsumed(w) \/ Miss(w) \/ Route(w) \/ Unrouted(w)
      BY <3>1 DEF Ask, Hit, Subsumed, Miss, Route, Unrouted
    <3>2. CASE Pick(w) \/ Try(w) \/ Settle(w)
      BY <3>2 DEF Pick, Try, Settle
    <3>3. CASE Check(w)
      <4>1. \E g \in left[w] : Passes(w, g) \/ Fails(w)
        BY <3>3, CheckOutcome
      <4> QED
        BY <3>3, <4>1 DEF Check, Passes, Fails
    <3>4. CASE Synthesise(w) \/ Reask(w)
      BY <3>4 DEF Synthesise, Reask, Decides, GivesUp, Throws, Leave
    <3>5. CASE Store(w) \/ Remember(w) \/ Answer(w)
      BY <3>5 DEF Store, Remember, Answer, Leave
    <3> QED
      BY <3>1, <3>2, <3>3, <3>4, <3>5 DEF Step
  <2>2. CallIsSound(v)
    BY DEF WorkIsSound
  <2> QED
    BY <2>1, <2>2, OthersKeepTheirs
<1>w. CallIsSound(w)'
  <2>k. pc[w] \notin {"try", "check", "store"} =>
          held[w] = <<>> /\ left[w] = {} /\ found[w] = {}
    BY <1>q DEF CallIsSound
  <2> USE <1>q DEF Goto, Returns, callVars, checkVars
  <2>1. CASE Ask(w) \/ Miss(w) \/ Unrouted(w)
    BY <2>1, <2>k, EmptyHanded DEF Ask, Miss, Unrouted
  <2>2. CASE Hit(w)
    <3>1. m_cache[query[w]] # "undecided" => m_cache[query[w]] = Truth(query[w])
      BY <2>2 DEF Hit, TablesAreTrue
    <3> QED
      BY <2>2, <2>k, <3>1, EmptyHanded DEF Hit
  <2>3. CASE Subsumed(w)
    <3>1. PICK verdict \in subsumed_verdict(query[w]) \cup rule_subsumed_verdict(query[w]) :
            answer' = [answer EXCEPT ![w] = verdict]
      BY <2>3 DEF Subsumed
    <3>2. verdict = Truth(query[w])
      BY <3>1, ComparedIsTrue
    <3> QED
      BY <2>3, <2>k, <3>1, <3>2, EmptyHanded DEF Subsumed
  <2>4. CASE Route(w)
    <3>1. answer' = [answer EXCEPT ![w] = Truth(query[w])]
      BY <2>4, OneWordIsSatisfiability DEF Route, Truth
    <3> QED
      BY <2>4, <2>k, <3>1, EmptyHanded DEF Route
  <2>5. CASE Pick(w)
    <3>1. query[w].scope \in Scope
      BY QueryType
    <3>2. ASSUME NEW k \in DOMAIN reuse_candidates(query[w])
          PROVE  Serves(reuse_candidates(query[w])[k], query[w])
      <4>1. PICK i \in DOMAIN m_controllers[query[w].scope] :
              reuse_candidates(query[w])[k] = m_controllers[query[w].scope][i]
        BY <3>1, <3>2, CandidatesAreStored DEF TypeOK
      <4> QED
        BY <3>1, <4>1 DEF StoreIsSound, Serves
    <3>3. held'[w] = reuse_candidates(query[w]) /\ query'[w] = query[w]
      BY <2>5 DEF Pick
    <3>4. \A i \in DOMAIN held'[w] : Serves(held'[w][i], query'[w])
      BY <3>2, <3>3
    <3> QED
      BY <2>5, <2>k, <3>4 DEF Pick, CallIsSound
  <2>6. CASE Try(w)
    <3>1. held[w] \in Seq(Controller) /\ query'[w] = query[w] /\ found'[w] = {}
      BY <2>6 DEF Try, CallIsSound
    <3>2. CASE held[w] = <<>> /\ pc'[w] = "synth" /\ held' = held /\ left' = left
      BY <2>6, <3>1, <3>2, EmptyHanded DEF Try, CallIsSound
    <3>3. CASE /\ held[w] # <<>> /\ held' = held /\ pc'[w] = "check"
               /\ left'[w] = ToCheck(Head(held[w]), query[w])
      <4>1. Serves(Head(held[w]), query[w]) /\ \A i \in DOMAIN held[w] : Serves(held[w][i], query[w])
        BY <3>1, <3>3 DEF CallIsSound
      <4>2. \A g \in query[w].G \ left'[w] : Empty(Head(held[w]), query[w].A, g)
        BY <3>3, <4>1, UncheckedIsMet DEF Serves
      <4>3. \A g \in query'[w].G \ left'[w] : Met(w, g)'
        BY <3>1, <3>3, <4>2 DEF Met, Empty, Holds
      <4>4. left'[w] \subseteq query'[w].G
        BY <3>1, <3>3 DEF ToCheck
      <4> QED
        BY <3>1, <3>3, <4>1, <4>3, <4>4 DEF CallIsSound
    <3>4. CASE held[w] # <<>> /\ held'[w] = Tail(held[w]) /\ pc' = pc /\ left' = left
      <4>1. \A i \in DOMAIN held'[w] : Serves(held'[w][i], query'[w])
        BY <3>1, <3>4, TailInHand
      <4> QED
        BY <2>6, <3>1, <3>4, <4>1 DEF Try, CallIsSound
    <3> QED
      BY <2>6, <3>2, <3>3, <3>4 DEF Try
  <2>7. CASE Check(w)
    <3>1. PICK g \in left[w] : (Passes(w, g) /\ Met(w, g)) \/ Fails(w)
      BY <2>7, CheckOutcome
    <3>2. /\ pc[w] = "check" /\ query' = query /\ found'[w] = {}
          /\ held[w] \in Seq(Controller) /\ held[w] # <<>>
      BY <2>7 DEF Check, CallIsSound
    <3>3. CASE Passes(w, g) /\ Met(w, g)
      <4>1. \A i \in DOMAIN held'[w] : Serves(held'[w][i], query'[w])
        BY <3>2, <3>3 DEF Passes, CallIsSound
      <4>2. \A h \in query'[w].G \ left'[w] : Met(w, h)'
        <5>1. \A h \in query[w].G \ left'[w] : Met(w, h)
          BY <3>2, <3>3 DEF Passes, CallIsSound
        <5> QED
          BY <3>2, <3>3, <5>1 DEF Passes, Met, Empty, Holds
      <4> QED
        BY <3>2, <3>3, <4>1, <4>2 DEF Passes, CallIsSound
    <3>4. CASE Fails(w)
      <4>1. \A i \in DOMAIN held'[w] : Serves(held'[w][i], query'[w])
        BY <3>2, <3>4, TailInHand DEF Fails
      <4> QED
        BY <3>2, <3>4, <4>1 DEF Fails, CallIsSound
    <3> QED
      BY <3>1, <3>3, <3>4
  <2>8. CASE Settle(w)
    BY <2>8, SettleIsTrue, EmptyHanded DEF Settle, CallIsSound
  <2>9. CASE Synthesise(w) \/ Reask(w)
    <3>1. held[w] = <<>> /\ left[w] = {} /\ found[w] = {} /\ held' = held /\ left' = left
      BY <2>9, <2>k DEF Synthesise, Reask
    <3>2. CASE Decides(w)
      <4>1. found'[w] \subseteq Winning(query'[w])
        BY <3>2 DEF Decides
      <4> QED
        BY <3>1, <3>2, <4>1
           DEF Decides, CallIsSound, Truth, Realizable, RealizableIn, Realizes, Obeys, Holds,
               Winning
    <3>3. CASE GivesUp(w)
      BY <3>1, <3>3, EmptyHanded DEF GivesUp
    <3>4. CASE Throws(w)
      BY <3>1, <3>4, EmptyHanded DEF Throws, Leave
    <3>5. CASE Goto(w, "reask") /\ UNCHANGED found
      BY <3>1, <3>5, EmptyHanded
    <3> QED
      BY <2>9, <3>2, <3>3, <3>4, <3>5 DEF Synthesise, Reask
  <2>10. CASE Store(w)
    BY <2>10, EmptyHanded DEF Store, CallIsSound
  <2>11. CASE Remember(w) \/ Answer(w)
    BY <2>11, <2>k, EmptyHanded DEF Remember, Answer, Leave, CallIsSound
  <2> QED
    BY <2>1, <2>2, <2>3, <2>4, <2>5, <2>6, <2>7, <2>8, <2>9, <2>10, <2>11 DEF Step
<1> QED
  BY <1>o, <1>w DEF WorkIsSound

-----------------------------------------------------------------------------
(* The theorems *)

\* Nothing an answer may be built on is ever wrong: the memo, the table of
\* verdicts compared with, the store and its checks, and what the calls hold of
\* them, however many workers fill and evict them, time out and throw.
THEOREM CachesAreAlwaysSound == CheckerSpec => []CachesAreSound
<1>1. Init => CachesAreSound
  <2> SUFFICES ASSUME Init PROVE CachesAreSound
    OBVIOUS
  <2>1. NoQuery \in Query
    BY CheckerAssumption DEF NoQuery
  <2>2. TypeOK
    BY <2>1, CheckerAssumption DEF Init, TypeOK, Place
  <2>3. TablesAreTrue /\ StoreIsSound
    BY DEF Init, TablesAreTrue, StoreIsSound
  <2>4. WorkIsSound
    BY DEF Init, WorkIsSound, CallIsSound
  <2> QED
    BY <2>2, <2>3, <2>4 DEF CachesAreSound
<1>2. CachesAreSound /\ [Next]_vars => CachesAreSound'
  <2> SUFFICES ASSUME CachesAreSound, [Next]_vars
               PROVE  CachesAreSound'
    OBVIOUS
  <2>1. CASE Next
    <3>1. PICK w \in Worker : Ask(w) \/ Step(w)
      BY <2>1 DEF Next
    <3> QED
      BY <3>1, TypeStep, TablesStep, StoreStep, WorkStep DEF CachesAreSound
  <2>2. CASE UNCHANGED vars
    <3> USE <2>2 DEF vars, callVars, tableVars, storeVars, checkVars, CachesAreSound
    <3>1. TypeOK'
      BY DEF TypeOK
    <3>2. TablesAreTrue'
      BY DEF TablesAreTrue, Truth, Realizable, RealizableIn, Realizes, Obeys, Holds
    <3>3. StoreIsSound'
      BY DEF StoreIsSound, Realizes, Obeys, Holds, Empty
    <3>4. WorkIsSound'
      BY OthersKeepTheirs DEF WorkIsSound
    <3> QED
      BY <3>1, <3>2, <3>3, <3>4
  <2> QED
    BY <2>1, <2>2
<1> QED
  BY <1>1, <1>2, PTL DEF CheckerSpec

\* check_realizability_ltl: whatever route a verdict took (the memo, a query it
\* was compared with, a rule, satisfiability, a stored controller or ltlsynt), and
\* whatever the other workers did meanwhile, it is right.
THEOREM AnswersAreAlwaysTrue == CheckerSpec => []AnswersAreTrue
<1>1. CachesAreSound => AnswersAreTrue
  BY DEF CachesAreSound, WorkIsSound, CallIsSound, AnswersAreTrue
<1> QED
  BY <1>1, CachesAreAlwaysSound, PTL

\* proved_unrealizable: a specification it speaks of is unrealizable, whatever
\* was asked, and rests on a query some caller was told the answer of.
THEOREM WitnessesAlwaysProve == CheckerSpec => []WitnessesProve
<1>1. ASSUME TypeOK, TablesAreTrue
      PROVE  WitnessesProve
  <2>1. ASSUME NEW q \in Query, proved_unrealizable(q)
        PROVE  ~Realizable(q)
    <3>1. PICK e \in m_witnesses :
            e.scope = q.scope /\ Includes(e.A, q.A) /\ Includes(q.G, e.G)
      BY <2>1 DEF proved_unrealizable, Bucket
    <3>2. ~RealizableIn(q.scope, e.A, e.G)
      BY <1>1, <3>1 DEF TypeOK, TablesAreTrue
    <3>3. \A w \in Word : Obeys(q.A, q.G, w) => Obeys(e.A, e.G, w)
      BY <3>1, InclusionTransfers
    <3> QED
      BY <3>2, <3>3, QueryType, RealizabilityTransfers DEF Realizable
  <2> QED
    BY <1>1, <2>1 DEF WitnessesProve, TypeOK
<1>2. CachesAreSound => WitnessesProve
  BY <1>1 DEF CachesAreSound
<1> QED
  BY <1>2, CachesAreAlwaysSound, PTL
=============================================================================
