------------------------- MODULE RealizabilityChecker -------------------------
(***************************************************************************)
(* RealizabilityChecker of src/src/runner/spot.cpp: the memo of verdicts,  *)
(* the table of decided queries that subsume others by inclusion or by the *)
(* requirement rules, the route through satisfiability, the store of       *)
(* controllers, the ltlsynt exec with its second attempt, and the witnesses *)
(* proved_unrealizable reads. Workers call it concurrently; m_cache_mutex   *)
(* and m_reuse_mutex cover single steps, the execs run outside both.       *)
(*                                                                         *)
(* Realizability is kept semantic: a strategy plays a set of words, and a  *)
(* query is realizable when some strategy of its alphabet plays only words *)
(* on which the assumptions imply the guarantees. What a tool reports is   *)
(* the truth, or that it does not know; what the checker concludes from it *)
(* is the code's.                                                          *)
(***************************************************************************)
EXTENDS Integers, FiniteSets, Sequences

CONSTANTS
    Worker,
    Conjunct,       \* interned conjuncts, by id
    Scope,          \* alphabets, with the caller's discriminator
    Word, Strategy,
    Plays,          \* Plays[scope][strategy]: the words it produces
    Sat,            \* Sat[conjunct]: the words that satisfy it
    Rules,          \* pairs requirement_implies proves, stronger first
    InputFree,      \* the scopes without environment inputs
    Query,          \* the queries: records [scope, A, G]
    Settings,       \* [queries, modes, min_guarantees, two_attempts]: which queries
                    \* are asked and how, <<with sides, speculative>>;
                    \* m_reuse_min_guarantees, 0 where reuse is off; and whether
                    \* a decompose budget is set below the timeout
    SignatureBits,  \* 64
    DifferenceCap,  \* k_rule_difference_cap
    PerScope,       \* k_controllers_per_scope
    Candidates      \* k_reuse_candidates

Holds(S, w) == \A c \in S : w \in Sat[c]

\* On w the assumptions imply the guarantees.
Obeys(A, G, w) == Holds(A, w) => Holds(G, w)

Realizes(sc, st, A, G) == \A w \in Plays[sc][st] : Obeys(A, G, w)

RealizableIn(sc, A, G) == \E st \in Strategy : Realizes(sc, st, A, G)

Realizable(q) == RealizableIn(q.scope, q.A, q.G)

Truth(q) == IF Realizable(q) THEN "yes" ELSE "no"

ASSUME CheckerAssumption ==
    /\ Plays \in [Scope -> [Strategy -> SUBSET Word]]
    /\ Sat \in [Conjunct -> SUBSET Word]
    /\ Rules \subseteq {r \in Conjunct \X Conjunct : Sat[r[1]] \subseteq Sat[r[2]]}
    /\ InputFree \subseteq Scope
    /\ \A sc \in InputFree, st \in Strategy : \E w \in Word : Plays[sc][st] = {w}
    /\ Query \subseteq [scope : Scope, A : SUBSET Conjunct, G : SUBSET Conjunct]
    /\ Query # {}
    /\ \A s \in Settings :
         /\ s.queries \subseteq Query /\ s.modes \subseteq BOOLEAN \X BOOLEAN
         /\ s.min_guarantees \in Nat /\ s.two_attempts \in BOOLEAN
    /\ Conjunct \subseteq Nat /\ IsFiniteSet(Conjunct)    \* an id is an int
    /\ SignatureBits \in Nat \ {0}
    /\ DifferenceCap \in Nat /\ PerScope \in Nat \ {0} /\ Candidates \in Nat

VARIABLES
    setting,        \* the member of Settings this behaviour is about
    pc, query, speculative,     \* one call per worker at a time
    sides,          \* whether it came with FRETISH sides
    answer,
    m_cache,        \* query to memoised verdict
    m_decided,      \* decided queries that came with sides
    m_witnesses,    \* unrealizable queries a non-speculative caller was told
    m_controllers,  \* scope to stored controllers, oldest first
    m_verdicts,     \* checks run: [controller, A, g, empty]
    held,           \* the controllers a worker's check still has to try
    left,           \* the guarantees its current check still has to pass
    found,          \* the controller ltlsynt printed, if it is to be stored
    told            \* history: queries a non-speculative caller was told "no"

callVars == <<pc, query, sides, speculative, answer>>
tableVars == <<m_cache, m_decided, m_witnesses, told>>
storeVars == <<m_controllers, m_verdicts>>
checkVars == <<held, left, found>>
vars == <<setting, callVars, tableVars, storeVars, checkVars>>

MinGuarantees == setting.min_guarantees
TwoAttempts == setting.two_attempts

\* The locals of a call are gone when it returns.
NoQuery == CHOOSE q \in Query : TRUE

Controller == [scope : Scope, st : Strategy, A : SUBSET Conjunct, G : SUBSET Conjunct]

DecidedQuery == [scope : Scope, A : SUBSET Conjunct, G : SUBSET Conjunct, realizable : BOOLEAN]

Init ==
    /\ setting \in Settings
    /\ pc = [w \in Worker |-> "idle"]
    /\ query = [w \in Worker |-> NoQuery]
    /\ sides = [w \in Worker |-> FALSE]
    /\ speculative = [w \in Worker |-> FALSE]
    /\ answer = [w \in Worker |-> "undecided"]
    /\ m_cache = [q \in {} |-> "undecided"]
    /\ m_decided = {} /\ m_witnesses = {} /\ told = {}
    /\ m_controllers = [sc \in Scope |-> <<>>] /\ m_verdicts = {}
    /\ held = [w \in Worker |-> <<>>]
    /\ left = [w \in Worker |-> {}]
    /\ found = [w \in Worker |-> {}]

Goto(w, place) == pc' = [pc EXCEPT ![w] = place]

Leave(w) ==
    /\ query' = [query EXCEPT ![w] = NoQuery]
    /\ sides' = [sides EXCEPT ![w] = FALSE]
    /\ speculative' = [speculative EXCEPT ![w] = FALSE]
    /\ answer' = [answer EXCEPT ![w] = "undecided"]
    /\ Goto(w, "idle")

Returns(w, verdict) ==
    /\ answer' = [answer EXCEPT ![w] = verdict]
    /\ Goto(w, "answered")

-----------------------------------------------------------------------------
(* The verdicts that follow from decided queries *)

signature(S) == {c % SignatureBits : c \in S}

\* Mutant of Includes: the signatures alone are compared.
IncludesBySignature(superset, subset) == signature(subset) \subseteq signature(superset)

Includes(superset, subset) ==
    /\ signature(subset) \subseteq signature(superset)
    /\ subset \subseteq superset

Bucket(table, sc) == {e \in table : e.scope = sc}

\* Mutant of Subsumes: both directions of the two sides swapped.
SubsumesBackwards(e, q) ==
    IF e.realizable THEN Includes(e.A, q.A) /\ Includes(q.G, e.G)
                    ELSE Includes(q.A, e.A) /\ Includes(e.G, q.G)

\* Fewer guarantees under more assumptions stay realizable, and the other way
\* about for unrealizable.
Subsumes(e, q) ==
    IF e.realizable THEN Includes(q.A, e.A) /\ Includes(e.G, q.G)
                    ELSE Includes(e.A, q.A) /\ Includes(q.G, e.G)

Verdict(e) == IF e.realizable THEN "yes" ELSE "no"

subsumed_verdict(q) ==
    {Verdict(e) : e \in {e \in Bucket(m_decided, q.scope) : Subsumes(e, q)}}

rule_implies(stronger, weaker) == <<stronger, weaker>> \in Rules

\* Every conjunct of needed is implied by one of offered.
Covered(needed, offered) ==
    \A weaker \in needed : \E stronger \in offered : rule_implies(stronger, weaker)

bounded_difference(S, T) == Cardinality(S \ T) <= DifferenceCap

RuleSubsumes(e, q) ==
    /\ bounded_difference(e.A, q.A) /\ bounded_difference(q.A, e.A)
    /\ bounded_difference(e.G, q.G) /\ bounded_difference(q.G, e.G)
    /\ IF e.realizable
         THEN Covered(e.A \ q.A, q.A \ e.A) /\ Covered(q.G \ e.G, e.G \ q.G)
         ELSE Covered(q.A \ e.A, e.A \ q.A) /\ Covered(e.G \ q.G, q.G \ e.G)

rule_subsumed_verdict(q) ==
    {Verdict(e) : e \in {e \in Bucket(m_decided, q.scope) : RuleSubsumes(e, q)}}

\* m_cache.emplace: an entry that is there is kept.
Memoised(q, verdict) ==
    [p \in DOMAIN m_cache \cup {q} |->
        IF p \in DOMAIN m_cache THEN m_cache[p] ELSE verdict]

Entry(q, verdict) == [scope |-> q.scope, A |-> q.A, G |-> q.G, realizable |-> verdict = "yes"]

\* Mutant of Decided: an abandoned query counts as unrealizable.
DecidedAlways(q, have_sides, verdict) == IF have_sides THEN {Entry(q, verdict)} ELSE {}

\* Only a decided verdict joins the table.
Decided(q, have_sides, verdict) ==
    IF have_sides /\ verdict # "undecided" THEN {Entry(q, verdict)} ELSE {}

remember_verdict(q, have_sides, verdict) ==
    /\ m_cache' = Memoised(q, verdict)
    /\ m_decided' = m_decided \cup Decided(q, have_sides, verdict)

-----------------------------------------------------------------------------
(* One call *)

Ask(w) ==
    /\ pc[w] = "idle"
    /\ \E q \in setting.queries, mode \in setting.modes :
         /\ query' = [query EXCEPT ![w] = q]
         /\ sides' = [sides EXCEPT ![w] = mode[1]]
         /\ speculative' = [speculative EXCEPT ![w] = mode[2]]
    /\ Goto(w, "lookup")
    /\ UNCHANGED <<setting, answer, tableVars, storeVars, checkVars>>

\* decide_realizability_ltl's first critical section: the memo, then the two
\* subsumption passes, whose answers are memoised but join no table.
Hit(w) ==
    /\ pc[w] = "lookup" /\ query[w] \in DOMAIN m_cache
    /\ Returns(w, m_cache[query[w]])
    /\ UNCHANGED <<setting, query, sides, speculative, tableVars, storeVars, checkVars>>

Subsumed(w) ==
    /\ pc[w] = "lookup" /\ query[w] \notin DOMAIN m_cache /\ sides[w]
    /\ \E verdict \in IF subsumed_verdict(query[w]) # {} THEN subsumed_verdict(query[w])
                      ELSE rule_subsumed_verdict(query[w]) :
         /\ m_cache' = Memoised(query[w], verdict)
         /\ Returns(w, verdict)
    /\ UNCHANGED <<setting, query, sides, speculative, m_decided, m_witnesses, told, storeVars, checkVars>>

Miss(w) ==
    /\ pc[w] = "lookup" /\ query[w] \notin DOMAIN m_cache
    /\ sides[w] => /\ subsumed_verdict(query[w]) = {}
                   /\ rule_subsumed_verdict(query[w]) = {}
    /\ Goto(w, "route")
    /\ UNCHANGED <<setting, query, sides, speculative, answer, tableVars, storeVars, checkVars>>

\* Mutant of Routed: any query is taken for satisfiability.
RoutedAlways(q) == TRUE

Routed(q) == q.scope \in InputFree

Satisfiable(q) ==
    \E st \in Strategy : \E w \in Plays[q.scope][st] : Obeys(q.A, q.G, w)

\* decide_without_environment: black's answer, recorded as ltlsynt's would be,
Route(w) ==
    /\ pc[w] = "route" /\ Routed(query[w])
    /\ LET verdict == IF Satisfiable(query[w]) THEN "yes" ELSE "no"
       IN  /\ remember_verdict(query[w], sides[w], verdict)
           /\ Returns(w, verdict)
    /\ UNCHANGED <<setting, query, sides, speculative, m_witnesses, told, storeVars, checkVars>>

Wanted(w) ==
    sides[w] /\ MinGuarantees > 0 /\ Cardinality(query[w].G) >= MinGuarantees

\* or a query with an environment, or that black leaves undecided.
Unrouted(w) ==
    /\ pc[w] = "route"
    /\ Goto(w, IF Wanted(w) THEN "candidates" ELSE "synth")
    /\ UNCHANGED <<setting, query, sides, speculative, answer, tableVars, storeVars, checkVars>>

Shared(c, q) == Cardinality(c.A \cap q.A) + Cardinality(c.G \cap q.G)

\* The stored controllers in the order they are tried: by shared conjuncts,
\* the newest first among equals.
Better(bucket, q, i, j) ==
    \/ Shared(bucket[i], q) > Shared(bucket[j], q)
    \/ Shared(bucket[i], q) = Shared(bucket[j], q) /\ i > j

reuse_candidates(q) ==
    LET bucket == m_controllers[q.scope]
        before(i) == {j \in DOMAIN bucket : Better(bucket, q, j, i)}
        kept == IF Len(bucket) < Candidates THEN Len(bucket) ELSE Candidates
    IN  [k \in 1..kept |->
            bucket[CHOOSE i \in DOMAIN bucket : Cardinality(before(i)) = k - 1]]

Pick(w) ==
    /\ pc[w] = "candidates"
    /\ held' = [held EXCEPT ![w] = reuse_candidates(query[w])]
    /\ Goto(w, "try")
    /\ UNCHANGED <<setting, query, sides, speculative, answer, tableVars, storeVars, left, found>>

\* Mutant of ToCheck: what the controller was synthesised for is trusted.
ToCheckNew(c, q) == q.G \ c.G

\* A guarantee the controller was synthesised for needs no check where the
\* query assumes all it assumed.
ToCheck(c, q) == IF c.A \subseteq q.A THEN q.G \ c.G ELSE q.G

\* product_for the next candidate, which may fail.
Try(w) ==
    /\ pc[w] = "try"
    /\ \/ /\ held[w] = <<>>
          /\ Goto(w, "synth")
          /\ UNCHANGED <<held, left>>
       \/ /\ held[w] # <<>>
          /\ left' = [left EXCEPT ![w] = ToCheck(Head(held[w]), query[w])]
          /\ Goto(w, "check")
          /\ UNCHANGED held
       \/ /\ held[w] # <<>>
          /\ held' = [held EXCEPT ![w] = Tail(@)]
          /\ UNCHANGED <<pc, left>>
    /\ UNCHANGED <<setting, query, sides, speculative, answer, tableVars, storeVars, found>>

\* The product of a controller and an assumption set, with the negation of a
\* guarantee, accepts no word.
Empty(c, A, g) ==
    \A word \in Plays[c.scope][c.st] : Holds(A, word) => word \in Sat[g]

\* Mutant of Product: one product per controller, whatever is assumed.
ProductOfController(c, A) == [c EXCEPT !.A = {}]

\* A product is the controller's under one assumption set.
Product(c, A) == [c EXCEPT !.A = A]

Checked(c, A, g) == {v \in m_verdicts : v.product = Product(c, A) /\ v.g = g}

\* product_meets: a memoised check, unless the product went with its evicted
\* controller, or one exec whose decided answer is kept. Only a pass is believed.
Check(w) ==
    /\ pc[w] = "check"
    /\ \E g \in left[w] :
         LET c == Head(held[w])
             known == Checked(c, query[w].A, g)
             Ran(empty) == [product |-> Product(c, query[w].A), g |-> g, empty |-> empty]
             Passes == /\ left' = [left EXCEPT ![w] = @ \ {g}]
                       /\ UNCHANGED <<pc, held>>
             Fails == /\ held' = [held EXCEPT ![w] = Tail(@)]
                      /\ left' = [left EXCEPT ![w] = {}]
                      /\ Goto(w, "try")
         IN  \/ /\ \E v \in known : IF v.empty THEN Passes ELSE Fails
                /\ UNCHANGED m_verdicts
             \/ LET empty == Empty(c, query[w].A, g)
                IN  /\ m_verdicts' = m_verdicts \cup {Ran(empty)}
                    /\ IF empty THEN Passes ELSE Fails
             \/ Fails /\ UNCHANGED m_verdicts
    /\ UNCHANGED <<setting, query, sides, speculative, answer, tableVars, m_controllers, found>>

\* settled_by_controller: a pass is a verdict.
Settle(w) ==
    /\ pc[w] = "check" /\ left[w] = {}
    /\ remember_verdict(query[w], TRUE, "yes")
    /\ held' = [held EXCEPT ![w] = <<>>]
    /\ Returns(w, "yes")
    /\ UNCHANGED <<setting, query, sides, speculative, m_witnesses, told, storeVars, left, found>>

\* The machines that win a query.
Winning(q) ==
    {[scope |-> q.scope, st |-> st, A |-> q.A, G |-> q.G] :
        st \in {st \in Strategy : Realizes(q.scope, st, q.A, q.G)}}

\* run_ltlsynt outside the locks: a verdict, with a controller where one was
\* asked for and the query is realizable; a timeout or a limit; or a throw.
Decides(w) ==
    /\ UNCHANGED <<query, sides, speculative>>
    /\ answer' = [answer EXCEPT ![w] = Truth(query[w])]
    /\ \/ found' = [found EXCEPT ![w] = {}]
       \/ /\ Wanted(w)
          /\ \E c \in Winning(query[w]) : found' = [found EXCEPT ![w] = {c}]
    /\ Goto(w, "store")

GivesUp(w) ==
    /\ UNCHANGED <<query, sides, speculative>>
    /\ answer' = [answer EXCEPT ![w] = "undecided"]
    /\ found' = [found EXCEPT ![w] = {}]
    /\ Goto(w, "store")

Throws(w) ==
    /\ Leave(w)
    /\ UNCHANGED found

Synthesise(w) ==
    /\ pc[w] = "synth"
    /\ \/ Decides(w)
       \/ ~TwoAttempts /\ GivesUp(w)
       \/ /\ TwoAttempts /\ Goto(w, "reask")
          /\ UNCHANGED <<query, sides, speculative, answer, found>>
       \/ Throws(w)
    /\ UNCHANGED <<setting, tableVars, storeVars, held, left>>

\* The second attempt, without decomposition, in what the first left over.
Reask(w) ==
    /\ pc[w] = "reask"
    /\ Decides(w) \/ GivesUp(w) \/ Throws(w)
    /\ UNCHANGED <<setting, tableVars, storeVars, held, left>>

Kept(bucket) == IF Len(bucket) > PerScope THEN Tail(bucket) ELSE bucket

\* store_controller, where a complete machine was printed.
Store(w) ==
    /\ pc[w] = "store"
    /\ IF found[w] = {} THEN UNCHANGED m_controllers
       ELSE \E c \in found[w] :
              m_controllers' = [m_controllers EXCEPT ![c.scope] = Kept(Append(@, c))]
    /\ found' = [found EXCEPT ![w] = {}]
    /\ Goto(w, "remember")
    /\ UNCHANGED <<setting, query, sides, speculative, answer, tableVars, m_verdicts, held, left>>

\* The last critical section. The caller is answered what its own exec said.
Remember(w) ==
    /\ pc[w] = "remember"
    /\ remember_verdict(query[w], sides[w], answer[w])
    /\ Goto(w, "answered")
    /\ UNCHANGED <<setting, query, sides, speculative, answer, m_witnesses, told, storeVars, checkVars>>

\* Mutant of IsWitness: a guess's answer is a witness too.
IsWitnessAlways(w) == answer[w] = "no" /\ sides[w]

IsWitness(w) == answer[w] = "no" /\ sides[w] /\ ~speculative[w]

\* record_witness, and the verdict handed to the caller.
Answer(w) ==
    /\ pc[w] = "answered"
    /\ m_witnesses' = IF IsWitness(w)
                        THEN m_witnesses \cup {Entry(query[w], "no")} ELSE m_witnesses
    /\ told' = IF answer[w] = "no" /\ sides[w] /\ ~speculative[w]
                 THEN told \cup {Entry(query[w], "no")} ELSE told
    /\ Leave(w)
    /\ UNCHANGED <<setting, m_cache, m_decided, storeVars, checkVars>>

Step(w) ==
    \/ Hit(w) \/ Subsumed(w) \/ Miss(w) \/ Route(w) \/ Unrouted(w) \/ Pick(w)
    \/ Try(w) \/ Check(w) \/ Settle(w) \/ Synthesise(w) \/ Reask(w) \/ Store(w)
    \/ Remember(w) \/ Answer(w)

Next == \E w \in Worker : Ask(w) \/ Step(w)

CheckerSpec == Init /\ [][Next]_vars

\* proved_unrealizable: some witness assumes at least as much of q's and asks
\* no more than it.
proved_unrealizable(q) ==
    \E e \in Bucket(m_witnesses, q.scope) : Includes(e.A, q.A) /\ Includes(q.G, e.G)

-----------------------------------------------------------------------------
(* Properties *)

Place == {"idle", "lookup", "route", "candidates", "try", "check", "synth", "reask",
          "store", "remember", "answered"}

TypeOK ==
    /\ setting \in Settings
    /\ pc \in [Worker -> Place]
    /\ query \in [Worker -> Query]
    /\ sides \in [Worker -> BOOLEAN] /\ speculative \in [Worker -> BOOLEAN]
    /\ answer \in [Worker -> {"yes", "no", "undecided"}]
    /\ DOMAIN m_cache \subseteq Query
    /\ m_cache \in [DOMAIN m_cache -> {"yes", "no", "undecided"}]
    /\ m_decided \subseteq DecidedQuery
    /\ told \subseteq DecidedQuery /\ m_witnesses \subseteq told
    /\ m_controllers \in [Scope -> Seq(Controller)]
    /\ \A sc \in Scope : Len(m_controllers[sc]) <= PerScope
    /\ m_verdicts \subseteq [product : Controller, g : Conjunct, empty : BOOLEAN]
    /\ held \in [Worker -> Seq(Controller)]
    /\ left \in [Worker -> SUBSET Conjunct]
    /\ found \in [Worker -> SUBSET Controller]

\* Whatever route a verdict took (the memo, a query it was compared with, a
\* rule, satisfiability, a stored controller or ltlsynt), it is right.
AnswersAreTrue ==
    \A w \in Worker :
        pc[w] = "answered" /\ answer[w] # "undecided" => answer[w] = Truth(query[w])

\* No entry the checker answers from is wrong, so an answer by comparison never
\* builds on one.
TablesAreTrue ==
    /\ \A q \in DOMAIN m_cache : m_cache[q] # "undecided" => m_cache[q] = Truth(q)
    /\ \A e \in m_decided : e.realizable <=> RealizableIn(e.scope, e.A, e.G)
    /\ \A e \in told : ~RealizableIn(e.scope, e.A, e.G)

\* "The store never makes a verdict wrong": a stored controller realizes the
\* query it is filed under, and a memoised check is of its own assumptions.
StoreIsSound ==
    /\ \A sc \in Scope : \A i \in DOMAIN m_controllers[sc] :
         LET c == m_controllers[sc][i] IN c.scope = sc /\ Realizes(sc, c.st, c.A, c.G)
    /\ \A v \in m_verdicts : v.empty => Empty(v.product, v.product.A, v.g)

\* A controller a worker has in hand is of its query's alphabet and realizes
\* what it was synthesised for, wherever it has gone from the store since.
Serves(c, q) == c.scope = q.scope /\ Realizes(c.scope, c.st, c.A, c.G)

\* g holds of whatever the controller w is checking plays, under w's assumptions.
Met(w, g) == Empty(Head(held[w]), query[w].A, g)

\* What a call has established at the place it has reached: its verdict is the
\* true one, its check has passed every guarantee it no longer has to, and its
\* candidates and what ltlsynt printed are there only while they are of use.
CallIsSound(w) ==
    /\ pc[w] \in {"store", "remember", "answered"} /\ answer[w] # "undecided" =>
         answer[w] = Truth(query[w])
    /\ \A i \in DOMAIN held[w] : Serves(held[w][i], query[w])
    /\ pc[w] \notin {"try", "check"} => held[w] = <<>>
    /\ pc[w] = "check" => /\ held[w] # <<>>
                          /\ left[w] \subseteq query[w].G
                          /\ \A g \in query[w].G \ left[w] : Met(w, g)
    /\ pc[w] # "check" => left[w] = {}
    /\ pc[w] # "store" => found[w] = {}
    /\ found[w] \subseteq Winning(query[w])

WorkIsSound == \A w \in Worker : CallIsSound(w)

\* What proved_unrealizable of any specification is so, by queries some
\* non-speculative caller was told are unrealizable and by no others.
WitnessesProve ==
    /\ m_witnesses \subseteq told
    /\ \A q \in Query : proved_unrealizable(q) => ~Realizable(q)

\* Nothing an answer may be built on is wrong: the memo, the table of verdicts
\* compared with, the store and its checks, and what the calls hold of them.
CachesAreSound == TypeOK /\ TablesAreTrue /\ StoreIsSound /\ WorkIsSound
=============================================================================
