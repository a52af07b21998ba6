----------------------- MODULE SatisfiabilityChecker -----------------------
(***************************************************************************)
(* SatisfiabilityChecker of src/src/runner/black.cpp, with the entry       *)
(* points of src/src/runner/ltlfilt.cpp it calls: threads that share one   *)
(* checker ask whether a formula is satisfiable, and each question goes to *)
(* the memo, to SPOT, to black and to SPOT's automata in an order that     *)
(* depends on what the caller expects.                                     *)
(*                                                                         *)
(* A formula is a member of Formulas with the traits the routes look at.   *)
(* The tools are external: SPOT's UNSAT is right and its SAT may be wrong, *)
(* black is right on a formula without weak operators and may find a       *)
(* model that is none on one with them, emptiness is right, and each may   *)
(* run out of its budget.                                                  *)
(***************************************************************************)
EXTENDS Naturals, FiniteSets, Sequences, TLC

CONSTANTS
    Threads,
    Formulas,
    HasModel,   \* the formulas that have a model
    Weak,          \* those written with W or M
    Folded,        \* those that are SPOT's constants, "0" and "1"
    LongFormulas,  \* those of k_implication_long_formula characters or more
    Renamed,       \* formula_key::renamed: the key that forgets the atoms' names
    Canonical,     \* formula_key::canonical: the key that keeps them
    Budgets,       \* settings: m_timeout, m_spot_budget, m_model_probe_budget, in ms
    FirstLook,     \* k_implication_first_look
    MaxCalls       \* calls each thread makes

\* Assumed where the module is given its constants.
SatisfiabilityAssumption ==
    /\ HasModel \subseteq Formulas /\ Weak \subseteq Formulas
    /\ LongFormulas \subseteq Formulas /\ Folded \subseteq Formulas
    /\ DOMAIN Renamed = Formulas /\ DOMAIN Canonical = Formulas
    /\ \A f, g \in Formulas : Canonical[f] = Canonical[g] => Renamed[f] = Renamed[g]
    /\ \A f, g \in Formulas :
         Renamed[f] = Renamed[g] => (f \in HasModel) = (g \in HasModel)
    /\ \A b \in Budgets : b.timeout \in Nat /\ b.spot \in Nat \ {0} /\ b.probe \in Nat \ {0}
    /\ FirstLook \in Nat \ {0} /\ MaxCalls \in Nat

VARIABLES
    settings,   \* what was set before the checker was shared
    m_cache,    \* Renamed key -> answer
    rewrites,   \* rewrite_weak_operators' memo: Canonical key -> outcome
    pc, call,   \* where a thread is, and what it asked
    answer,     \* what its call has come to
    execs,      \* history: the tools its call has started, and their budgets
    calls       \* how many calls it has made

local == <<pc, call, answer, execs, calls>>
vars == <<settings, m_cache, rewrites, local>>

-----------------------------------------------------------------------------
Undecided == "undecided"
Idle == <<"idle", "">>
Kinds == {"ExpectSat", "ExpectUnsat", "by black"}
Truth(f) == IF f \in HasModel THEN "sat" ELSE "unsat"
NoCall == [formula |-> "none", kind |-> "none"]

CacheKey(f) == Renamed[f]

\* Mutant of RewriteKey: the key that forgets the atoms.
RewriteKeyRenamed(f) == Renamed[f]

RewriteKey(f) == Canonical[f]

Smaller(x, y) == IF x <= y THEN x ELSE y

\* A zero timeout bounds nothing of SPOT's.
Within(budget) ==
    IF settings.timeout = 0 THEN budget ELSE Smaller(settings.timeout, budget)

spot_budget == Within(settings.spot)
probe_budget == Within(settings.probe)

first_look(f) == IF f \in LongFormulas THEN 0 ELSE Smaller(spot_budget, FirstLook)

\* Mutant of black_timeout_seconds: rounded down.
BlackTimeoutTruncated(budget) == budget \div 1000

\* black's own -t, in whole seconds, rounded up.
black_timeout_seconds(budget) == (budget + 999) \div 1000

Init ==
    /\ settings \in Budgets
    /\ m_cache = [k \in {} |-> k] /\ rewrites = [k \in {} |-> k]
    /\ pc = [t \in Threads |-> Idle]
    /\ call = [t \in Threads |-> NoCall]
    /\ answer = [t \in Threads |-> Undecided]
    /\ execs = [t \in Threads |-> {}]
    /\ calls = [t \in Threads |-> 0]

Goto(t, where) == pc' = [pc EXCEPT ![t] = where]
Answered(t, a) == answer' = [answer EXCEPT ![t] = a] /\ Goto(t, <<"store", "">>)

\* A tool is started with a budget, and black with a timeout of its own too.
Started(t, tool, budget) ==
    execs' = [execs EXCEPT ![t] = @ \cup
                {[tool |-> tool, budget |-> budget,
                  own |-> IF tool = "black" THEN black_timeout_seconds(budget) ELSE 0]}]

-----------------------------------------------------------------------------
(* The tools.                                                              *)

\* ltlfilt --satisfiable.
SpotAnswers(f) == {Undecided, "sat", Truth(f)}

\* ltl2tgba and autfilt --is-empty.
EmptinessAnswers(f) == {Undecided, Truth(f)}

\* black, on a text that has or has not had its weak operators rewritten.
BlackAnswers(f, rewritten) ==
    {Undecided, Truth(f)} \cup (IF f \in Weak /\ ~rewritten THEN {"sat"} ELSE {})

-----------------------------------------------------------------------------
(* The calls.                                                              *)

\* Mutant of FirstStage: a long formula is looked at with no time to do it in.
FirstStageAlwaysLooks(f, kind) ==
    CASE kind = "ExpectSat" -> <<"spot", "only">>
      [] kind = "by black" -> <<"rewrite", "full">>
      [] kind = "ExpectUnsat" -> <<"spot", "first">>

\* Where a call that missed the memo goes first.
FirstStage(f, kind) ==
    CASE kind = "ExpectSat" -> <<"spot", "only">>
      [] kind = "by black" -> <<"rewrite", "full">>
      [] kind = "ExpectUnsat" ->
           IF first_look(f) > 0 THEN <<"spot", "first">> ELSE <<"rewrite", "probe">>

\* check_satisfiability and check_satisfiability_by_black, as far as the memo,
\* which is looked at under its shared lock.
Ask(t) ==
    /\ pc[t] = Idle /\ calls[t] < MaxCalls
    /\ calls' = [calls EXCEPT ![t] = @ + 1]
    /\ execs' = [execs EXCEPT ![t] = {}]
    /\ \E f \in Formulas, kind \in Kinds :
         /\ call' = [call EXCEPT ![t] = [formula |-> f, kind |-> kind]]
         /\ IF CacheKey(f) \in DOMAIN m_cache
              THEN answer' = [answer EXCEPT ![t] = m_cache[CacheKey(f)]] /\ Goto(t, <<"return", "">>)
            ELSE IF f \in Folded
              THEN Answered(t, Truth(f))
              ELSE answer' = [answer EXCEPT ![t] = Undecided] /\ Goto(t, FirstStage(f, kind))
    /\ UNCHANGED <<settings, m_cache, rewrites>>

SpotStageBudget(f, stage) == IF stage = "first" THEN first_look(f) ELSE spot_budget

\* Mutant of SpotSays: SPOT's SAT is believed.
SpotSaysFinally(t, a) ==
    IF a = Undecided THEN Goto(t, <<"rewrite", "full">>) /\ UNCHANGED answer
                     ELSE Answered(t, a)

\* What follows an answer of SPOT: its UNSAT is final, its SAT has to be
\* confirmed, and without one the route goes on.
SpotSays(t, a) ==
    CASE a = "unsat" -> Answered(t, a)
      [] a = "sat" -> Goto(t, <<"rewrite", "confirm">>) /\ UNCHANGED answer
      [] OTHER ->
           CASE pc[t][2] = "only" -> Goto(t, <<"rewrite", "full">>) /\ UNCHANGED answer
             [] pc[t][2] = "first" -> Goto(t, <<"rewrite", "probe">>) /\ UNCHANGED answer
             [] pc[t][2] = "second" -> Answered(t, Undecided)

\* spot_satisfiable: the only stage of an ExpectSat query, the first look or
\* the second of an ExpectUnsat one.
SpotSatisfiable(t) ==
    /\ pc[t][1] = "spot"
    /\ LET f == call[t].formula
       IN  /\ Started(t, "spot", SpotStageBudget(f, pc[t][2]))
           /\ \E a \in SpotAnswers(f) : SpotSays(t, a)
    /\ UNCHANGED <<settings, m_cache, rewrites, call, calls>>

\* What follows an answer of black.
BlackSays(t, a, stage) ==
    CASE stage = "full" -> Answered(t, a)
      [] stage = "probe" ->
           IF a = "sat" THEN Answered(t, a)
           ELSE IF spot_budget > first_look(call[t].formula)
                  THEN Goto(t, <<"spot", "second">>) /\ UNCHANGED answer
                  ELSE Answered(t, Undecided)
      [] stage = "confirm" ->
           IF a = Undecided THEN Goto(t, <<"emptiness", "">>) /\ UNCHANGED answer
                            ELSE Answered(t, a)

NeedsRewrite(f) == f \in Weak

BlackBudget(stage) == IF stage = "probe" THEN probe_budget ELSE settings.timeout

Solve(t, rewritten) ==
    LET stage == pc[t][2]
    IN  /\ Started(t, "black", BlackBudget(stage))
        /\ \E a \in BlackAnswers(call[t].formula, rewritten) : BlackSays(t, a, stage)

\* The rewrite's outcomes: no text, a constant, or a text over the atoms of
\* the formula it was made from.
Outcomes(f) == {[text |-> "none", of |-> f], [text |-> "constant", of |-> f],
                [text |-> "formula", of |-> f]}

\* What black_answer does with a rewrite's outcome: no answer where there is
\* no text, the constant where it folded, and otherwise black.
AfterRewrite(t, outcome) ==
    LET f == call[t].formula
    IN  CASE outcome.text = "none" -> BlackSays(t, Undecided, pc[t][2]) /\ UNCHANGED execs
          [] outcome.text = "constant" -> BlackSays(t, Truth(f), pc[t][2]) /\ UNCHANGED execs
          [] outcome.text = "formula" -> Solve(t, TRUE)

\* black_answer where the formula is black's already.
BlackAsIs(t) ==
    /\ pc[t][1] = "rewrite"
    /\ ~NeedsRewrite(call[t].formula)
    /\ Solve(t, FALSE)
    /\ UNCHANGED <<settings, m_cache, rewrites, call, calls>>

\* black says something else entirely: the call throws and stores nothing.
BlackThrows(t) ==
    /\ pc[t][1] = "rewrite"
    /\ ~NeedsRewrite(call[t].formula)
    /\ Started(t, "black", BlackBudget(pc[t][2]))
    /\ Goto(t, Idle)
    /\ UNCHANGED <<settings, m_cache, rewrites, call, answer, calls>>

\* black_answer where the rewrite is in rewrite_weak_operators' memo: an
\* outcome of the formula, or of another spelling of it over the same atoms.
BlackRecalled(t) ==
    /\ pc[t][1] = "rewrite"
    /\ NeedsRewrite(call[t].formula)
    /\ RewriteKey(call[t].formula) \in DOMAIN rewrites
    /\ AfterRewrite(t, rewrites[RewriteKey(call[t].formula)])
    /\ UNCHANGED <<settings, m_cache, rewrites, call, calls>>

\* It is not, and ltlfilt is started with no lock held.
StartRewrite(t) ==
    /\ pc[t][1] = "rewrite"
    /\ NeedsRewrite(call[t].formula)
    /\ RewriteKey(call[t].formula) \notin DOMAIN rewrites
    /\ Goto(t, <<"rewriting", pc[t][2]>>)
    /\ UNCHANGED <<settings, m_cache, rewrites, call, answer, execs, calls>>

\* ltlfilt --remove-wm has answered: the memo keeps the outcome that came
\* first, the caller its own.
BlackRewritten(t) ==
    /\ pc[t][1] = "rewriting"
    /\ \E outcome \in Outcomes(call[t].formula) :
         /\ rewrites' = rewrites @@ (RewriteKey(call[t].formula) :> outcome)
         /\ AfterRewrite(t, outcome)
    /\ UNCHANGED <<settings, m_cache, call, calls>>

\* confirm_spot_sat where black ran out of time.
Emptiness(t) ==
    /\ pc[t][1] = "emptiness"
    /\ Started(t, "spot", spot_budget)
    /\ \E a \in EmptinessAnswers(call[t].formula) : Answered(t, a)
    /\ UNCHANGED <<settings, m_cache, rewrites, call, calls>>

\* Mutant of Remembers: every call stores what it came to.
RemembersAll(kind, a) == TRUE

\* by_black keeps only a decided answer.
Remembers(kind, a) == kind = "by black" => a # Undecided

\* The answer is stored, unless another thread's is there already, and
\* returned whatever the memo holds.
Store(t) ==
    /\ pc[t][1] = "store"
    /\ m_cache' = IF Remembers(call[t].kind, answer[t])
                    THEN m_cache @@ (CacheKey(call[t].formula) :> answer[t])
                    ELSE m_cache
    /\ Goto(t, <<"return", "">>)
    /\ UNCHANGED <<settings, rewrites, call, answer, execs, calls>>

Return(t) ==
    /\ pc[t][1] = "return"
    /\ Goto(t, Idle)
    /\ UNCHANGED <<settings, m_cache, rewrites, call, answer, execs, calls>>

Step(t) ==
    \/ Ask(t) \/ SpotSatisfiable(t) \/ BlackAsIs(t) \/ BlackThrows(t) \/ BlackRecalled(t)
    \/ StartRewrite(t) \/ BlackRewritten(t) \/ Emptiness(t) \/ Store(t) \/ Return(t)

Next == \E t \in Threads : Step(t)

Spec == Init /\ [][Next]_vars

-----------------------------------------------------------------------------
Answers == {"sat", "unsat", Undecided}

\* Every variable holds a value of its kind; only a call under way is
\* somewhere.
TypeOK ==
    /\ settings \in Budgets
    /\ DOMAIN m_cache \subseteq {Renamed[f] : f \in Formulas}
    /\ \A k \in DOMAIN m_cache : m_cache[k] \in Answers
    /\ \A t \in Threads : answer[t] \in Answers /\ (pc[t] # Idle => call[t] # NoCall)

\* What a caller is told, and what the memo keeps, is never a wrong verdict,
\* though SPOT's SAT and black's reading of W and M both may be
\* (check_satisfiability).
DecidedAnswersAreTrue ==
    /\ \A t \in Threads :
         pc[t][1] \in {"store", "return"} /\ answer[t] # Undecided
           => answer[t] = Truth(call[t].formula)
    /\ \A f \in Formulas :
         Renamed[f] \in DOMAIN m_cache /\ m_cache[Renamed[f]] # Undecided
           => m_cache[Renamed[f]] = Truth(f)

\* An undecided answer is remembered for good, so it is stored only once SPOT
\* has been asked: "an undecided one leaves the formula for a later
\* check_satisfiability to try SPOT on" (black.hpp).
UndecidedMeansSpotWasAsked ==
    [][\A k \in DOMAIN m_cache' \ DOMAIN m_cache :
         m_cache'[k] = Undecided =>
           \E t \in Threads :
             /\ pc[t][1] = "store" /\ CacheKey(call[t].formula) = k
             /\ \E e \in execs[t] : e.tool = "spot"]_vars

\* "The value is a formula, so it must come back over the caller's own atom
\* names" (rewrite_weak_operators): what the memo holds for a formula was made
\* from one over the same atoms, whichever thread stored it.
RewritesKeepTheAtoms ==
    \A f \in Formulas :
        RewriteKey(f) \in DOMAIN rewrites =>
            Canonical[rewrites[RewriteKey(f)].of] = Canonical[f]

\* No tool runs without a bound unless the timeout is off, and then black
\* alone: a zero budget, which execute_and_capture reads as none, never comes
\* out of a skipped or a shortened stage.
EveryToolIsBounded ==
    \A t \in Threads : \A e \in execs[t] :
        e.budget = 0 => e.tool = "black" /\ settings.timeout = 0

\* black's own timeout is never off where its budget is not, and never the
\* shorter of the two (black_answer).
BlackStopsItself ==
    \A t \in Threads : \A e \in execs[t] :
        e.tool = "black" /\ e.budget > 0 => e.own > 0 /\ e.own * 1000 >= e.budget

\* The answers and both memos are right, whichever thread filled them by
\* whichever route.
AnswersAreTrue == TypeOK /\ DecidedAnswersAreTrue /\ RewritesKeepTheAtoms

\* No tool can hang a call, by its deadline or by black's own.
ToolsAreBounded == EveryToolIsBounded /\ BlackStopsItself
=============================================================================
