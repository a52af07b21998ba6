---------------------------- MODULE ScorePopulation ----------------------------
(***************************************************************************)
(* score_population of src/include/genetic/generation.hpp: plan a whole    *)
(* population against the fitness cache, run every part of every planned   *)
(* candidate in one region, fold each candidate when its last part lands,  *)
(* and judge the failures. Called once per generation, over a cache that   *)
(* lives as long as the run.                                               *)
(*                                                                         *)
(* A part's value is its own address, so a score is whole when it holds    *)
(* every address of its specification. A part that throws once may answer  *)
(* the next time. The region collects its parts in any order, which is     *)
(* what BoundedAsync allows it.                                            *)
(***************************************************************************)
EXTENDS Integers, Sequences, FiniteSets, FiniteSetsExt

CONSTANTS
    Spec_,            \* specifications
    Parts,            \* Parts[s][o]: how many parts objective o of s splits into
    ScoredPopulations,  \* the populations a call may be handed, sequences of specs
    FailurePercent,   \* max_scoring_failure_rate
    Calls             \* bound: generations scored

ASSUME ScoreAssumption ==
    /\ Parts \in [Spec_ -> Seq(Nat)]
    /\ ScoredPopulations \subseteq Seq(Spec_)
    /\ FailurePercent \in Nat /\ Calls \in Nat

VARIABLES
    pc,
    call,
    to_score,   \* population
    idx,        \* the slot plan_population is at
    planned,    \* PlannedCandidate records
    running,    \* addresses dispatched and not collected
    scored,     \* slot to record, for the slots in succeeded
    errors,
    done,       \* slots reported to on_progress
    cache,      \* m_cache: specification to record
    n_dropped,  \* ScoringStats::n_dropped
    result,     \* what the call returned
    asked,      \* history: how often each part ran in this call
    failed      \* history: specifications a part of which threw in this call

scoreVars == <<pc, call, to_score, idx, planned, running, scored, errors, done,
          cache, n_dropped, result, asked, failed>>

-----------------------------------------------------------------------------
zero == <<>>    \* the 0.0 a slot of PlannedCandidate::values starts with

\* Address <<o, k>> is part k of objective o.
PartsOf(s) == UNION {{o} \X (1..Parts[s][o]) : o \in DOMAIN Parts[s]}

Value(s, a) == <<s, a>>

\* What scoring a specification alone and in order gives.
Whole(s) == [a \in PartsOf(s) |-> Value(s, a)]

ScoreInit ==
    /\ pc = "idle" /\ call = 0
    /\ to_score = <<>> /\ idx = 1
    /\ planned = <<>> /\ running = {}
    /\ scored = [i \in {} |-> <<>>] /\ errors = <<>> /\ done = 0
    /\ cache = [s \in {} |-> <<>>]
    /\ n_dropped = 0 /\ result = <<>>
    /\ asked = [p \in {} |-> 0] /\ failed = {}

Call ==
    /\ pc \in {"idle", "returned"}
    /\ call < Calls
    /\ call' = call + 1
    /\ \E p \in ScoredPopulations : to_score' = p
    /\ pc' = "plan"
    /\ idx' = 1 /\ planned' = <<>> /\ running' = {}
    /\ scored' = [i \in {} |-> <<>>] /\ errors' = <<>> /\ done' = 0
    /\ result' = <<>>
    /\ asked' = [x \in {} |-> 0] /\ failed' = {}
    /\ UNCHANGED <<cache, n_dropped>>

spec == to_score[idx]

Cached == spec \in DOMAIN cache

\* Mutant of Repeat: only the slot just before is looked at.
RepeatOfLast ==
    {c \in DOMAIN planned : c = Len(planned) /\ planned[c].spec = spec}

\* planned_by_spec.
Repeat == {c \in DOMAIN planned : planned[c].spec = spec}

\* plan_population, one slot: answered by the cache,
PlanCached ==
    /\ pc = "plan" /\ idx <= Len(to_score) /\ Cached
    /\ scored' = [i \in DOMAIN scored \cup {idx} |->
                    IF i = idx THEN cache[spec] ELSE scored[i]]
    /\ done' = done + 1
    /\ idx' = idx + 1
    /\ UNCHANGED <<pc, call, to_score, planned, running, errors, cache, n_dropped, result, asked, failed>>

\* a repeat of a planned one,
PlanRepeat ==
    /\ pc = "plan" /\ idx <= Len(to_score) /\ ~Cached
    /\ \E c \in Repeat :
         planned' = [planned EXCEPT ![c].indices = @ \cup {idx}]
    /\ idx' = idx + 1
    /\ UNCHANGED <<pc, call, to_score, running, scored, errors, done, cache, n_dropped, result, asked, failed>>

\* the store into the cache keeps an entry that is there.
Stored(s, record) ==
    [t \in DOMAIN cache \cup {s} |-> IF t \in DOMAIN cache THEN cache[t] ELSE record]

\* one every objective decomposed to nothing,
PlanEmpty ==
    /\ pc = "plan" /\ idx <= Len(to_score) /\ ~Cached /\ Repeat = {}
    /\ PartsOf(spec) = {}
    /\ cache' = Stored(spec, Whole(spec))
    /\ scored' = [i \in DOMAIN scored \cup {idx} |->
                    IF i = idx THEN Whole(spec) ELSE scored[i]]
    /\ done' = done + 1
    /\ idx' = idx + 1
    /\ UNCHANGED <<pc, call, to_score, planned, running, errors, n_dropped, result, asked, failed>>

Outstanding(s) == Cardinality(PartsOf(s))

\* or a candidate of its own.
PlanNew ==
    /\ pc = "plan" /\ idx <= Len(to_score) /\ ~Cached /\ Repeat = {}
    /\ PartsOf(spec) # {}
    /\ planned' = Append(planned,
          [spec |-> spec, indices |-> {idx},
           values |-> [a \in PartsOf(spec) |-> zero],
           outstanding |-> Outstanding(spec), error |-> "none"])
    /\ idx' = idx + 1
    /\ UNCHANGED <<pc, call, to_score, running, scored, errors, done, cache, n_dropped, result, asked, failed>>

\* part_addresses, and the region dispatched.
Dispatch ==
    /\ pc = "plan" /\ idx > Len(to_score)
    /\ running' = UNION {{<<c, a>> : a \in PartsOf(planned[c].spec)} : c \in DOMAIN planned}
    /\ pc' = "collect"
    /\ UNCHANGED <<call, to_score, idx, planned, scored, errors, done, cache, n_dropped, result, asked, failed>>

\* Mutant of Filed: a failed part is not counted off.
FiledUncounted(candidate, a, outcome) ==
    IF outcome = "ok"
      THEN [candidate EXCEPT !.values[a] = Value(candidate.spec, a),
                             !.outstanding = @ - 1]
      ELSE [candidate EXCEPT !.error = outcome]

\* A finished part filed: its value, or the first message.
Filed(candidate, a, outcome) ==
    LET kept == IF outcome = "ok"
                  THEN [candidate EXCEPT !.values[a] = Value(candidate.spec, a)]
                  ELSE [candidate EXCEPT !.error = IF @ = "none" THEN outcome ELSE @]
    IN  [kept EXCEPT !.outstanding = @ - 1]

\* Mutant of Commits: the last part alone decides.
CommitsOnLast(candidate, outcome) == outcome = "ok"

Commits(candidate, outcome) == candidate.error = "none"

\* Mutant of ErrorsOf: one error for the candidate.
ErrorsOfCandidate(candidate) == <<candidate.error>>

\* One error per slot the candidate answered for.
ErrorsOf(candidate) == [i \in 1..Cardinality(candidate.indices) |-> candidate.error]

\* collect_part, on the dispatcher's thread.
Collect ==
    /\ pc = "collect"
    /\ \E c \in DOMAIN planned, a \in UNION {PartsOf(planned[i].spec) : i \in DOMAIN planned},
          outcome \in {"ok", "error"} :
         /\ <<c, a>> \in running
         /\ running' = running \ {<<c, a>>}
         /\ LET s == planned[c].spec
                filed == Filed(planned[c], a, outcome)
                last == filed.outstanding = 0
                commits == last /\ Commits(filed, outcome)
            IN  /\ planned' = [planned EXCEPT ![c] = filed]
                /\ cache' = IF commits THEN Stored(s, filed.values) ELSE cache
                /\ scored' = IF commits
                               THEN [i \in DOMAIN scored \cup filed.indices |->
                                       IF i \in filed.indices THEN cache'[s] ELSE scored[i]]
                               ELSE scored
                /\ errors' = IF last /\ ~commits THEN errors \o ErrorsOf(filed) ELSE errors
                /\ done' = IF last THEN done + Cardinality(filed.indices) ELSE done
                /\ asked' = [x \in DOMAIN asked \cup {<<s, a>>} |->
                               (IF x \in DOMAIN asked THEN asked[x] ELSE 0)
                                 + (IF x = <<s, a>> THEN 1 ELSE 0)]
                /\ failed' = IF outcome = "ok" THEN failed ELSE failed \cup {s}
    /\ UNCHANGED <<pc, call, to_score, idx, n_dropped, result>>

tolerated ==
    IF to_score = <<>> THEN 0
    ELSE Min({Len(to_score) - 1,
              Max({1, (FailurePercent * Len(to_score)) \div 100})})

\* A set of slots in ascending order.
InOrder(S) ==
    [k \in 1..Cardinality(S) |-> CHOOSE i \in S : Cardinality({j \in S : j < i}) = k - 1]

\* The slots that succeeded, in population order.
Survivors ==
    LET kept == InOrder(DOMAIN scored)
    IN  [k \in DOMAIN kept |-> <<to_score[kept[k]], scored[kept[k]]>>]

\* Too many failures throw; fewer are tallied and their slots dropped.
Judge ==
    /\ pc = "collect" /\ running = {}
    /\ IF Len(errors) > tolerated
         THEN pc' = "threw" /\ UNCHANGED <<n_dropped, result>>
         ELSE /\ pc' = "returned"
              /\ n_dropped' = n_dropped + Len(errors)
              /\ result' = Survivors
    /\ UNCHANGED <<call, to_score, idx, planned, running, scored, errors, done, cache, asked, failed>>

ScoreNext ==
    \/ Call \/ PlanCached \/ PlanRepeat \/ PlanEmpty \/ PlanNew \/ Dispatch
    \/ Collect \/ Judge

ScoreSpec == ScoreInit /\ [][ScoreNext]_scoreVars

-----------------------------------------------------------------------------
(* Properties *)

Address == UNION {PartsOf(s) : s \in Spec_}

Records == UNION {[PartsOf(s) -> {zero} \cup (Spec_ \X Address)] : s \in Spec_}

PlannedCandidate ==
    [spec : Spec_, indices : SUBSET Nat, values : Records, outstanding : Nat,
     error : {"none", "error"}]

ScoreTypeOK ==
    /\ pc \in {"idle", "plan", "collect", "returned", "threw"}
    /\ call \in 0..Calls
    /\ to_score \in Seq(Spec_)
    /\ idx \in 1..Len(to_score) + 1
    /\ planned \in Seq(PlannedCandidate)
    /\ running \subseteq (DOMAIN planned) \X Address
    /\ \A e \in running : e[2] \in PartsOf(planned[e[1]].spec)
    /\ DOMAIN cache \subseteq Spec_
    /\ errors \in Seq({"error"})
    /\ n_dropped \in Nat
    /\ failed \subseteq {planned[c].spec : c \in DOMAIN planned}

\* The slots plan_population has been at.
Seen == 1..idx - 1

\* The parts a planned candidate still waits for.
Waiting(c) == {a \in PartsOf(planned[c].spec) : pc = "plan" \/ <<c, a>> \in running}

\* Each candidate is planned once, for every slot that holds it, and a slot is
\* answered by the cache or by a candidate.
PlansAreDistinct ==
    /\ \A c, d \in DOMAIN planned : planned[c].spec = planned[d].spec => c = d
    /\ \A c \in DOMAIN planned :
         /\ planned[c].indices = {i \in Seen : to_score[i] = planned[c].spec}
         /\ planned[c].indices # {}
         /\ PartsOf(planned[c].spec) # {}
    /\ \A i \in Seen :
         to_score[i] \in DOMAIN cache \/ \E c \in DOMAIN planned : planned[c].spec = to_score[i]
    /\ pc \notin {"idle", "plan"} => Seen = DOMAIN to_score
    /\ pc = "plan" => running = {} /\ failed = {} /\ errors = <<>> /\ DOMAIN asked = {}

\* What a candidate has outstanding are parts that run; what has come in is
\* filed, or there is an error, and the score is stored with the last part.
PartsAreFiled ==
    \A c \in DOMAIN planned :
        LET s == planned[c].spec
        IN  /\ DOMAIN planned[c].values = PartsOf(s)
            /\ planned[c].outstanding = Cardinality(Waiting(c))
            /\ planned[c].error = "none" <=> s \notin failed
            /\ planned[c].error = "none" =>
                 \A a \in PartsOf(s) \ Waiting(c) : planned[c].values[a] = Value(s, a)
            /\ s \in DOMAIN cache <=> Waiting(c) = {} /\ planned[c].error = "none"

\* The slots of the candidates that came to an end with an error.
Dropped ==
    {i \in Seen : \E c \in DOMAIN planned :
        planned[c].spec = to_score[i] /\ Waiting(c) = {} /\ planned[c].error # "none"}

\* A slot has a score exactly when its specification has one, and what failed
\* or is reported is counted by slot.
SlotsAreSettled ==
    /\ DOMAIN scored = {i \in Seen : to_score[i] \in DOMAIN cache}
    /\ \A i \in DOMAIN scored : scored[i] = Whole(to_score[i])
    /\ Len(errors) = Cardinality(Dropped)
    /\ done = Cardinality(DOMAIN scored \cup Dropped)
    /\ pc \in {"returned", "threw"} => running = {}

\* "The output is what a serial sweep would give": whatever order the parts
\* landed in, the call returns the slots of every specification none of whose
\* parts threw, in population order and each with its whole score.
ResultIsSerial ==
    pc = "returned" =>
        \E slot_of \in [1..Len(result) -> DOMAIN to_score] :
            /\ \A k, l \in 1..Len(result) : k < l => slot_of[k] < slot_of[l]
            /\ \A i \in DOMAIN to_score :
                 to_score[i] \notin failed <=> \E k \in 1..Len(result) : slot_of[k] = i
            /\ result = [k \in 1..Len(result) |->
                           <<to_score[slot_of[k]], Whole(to_score[slot_of[k]])>>]

\* A score that is stored is whole, so a candidate that failed once is scored
\* again the next time and never answered with the zeros of what did not run.
CachedScoresAreWhole == \A s \in DOMAIN cache : cache[s] = Whole(s)

\* No query is paid for twice in a generation: repeats share one plan, and
\* what the cache holds is not planned.
NoPartRunsTwice ==
    /\ \A x \in DOMAIN asked : asked[x] = 1
    /\ \A e \in running : <<planned[e[1]].spec, e[2]>> \notin DOMAIN asked

\* "The failure tolerance counts individuals dropped rather than distinct
\* specifications that failed", and never gives up the whole population.
DropsAreCountedBySlot ==
    /\ pc = "returned" =>
         /\ Len(result) = Len(to_score) - Len(errors)
         /\ to_score # <<>> => Len(result) >= 1
    /\ pc = "threw" =>
         Len(to_score) - Cardinality(DOMAIN scored) > tolerated

\* Progress is reported in individuals and reaches the total exactly when the
\* last one is settled.
ProgressCountsIndividuals ==
    /\ done <= Len(to_score)
    /\ pc \in {"returned", "threw"} => done = Len(to_score)
    /\ pc = "collect" /\ running # {} => done < Len(to_score)

\* score_population gives what a serial sweep would, stores whole scores only,
\* pays for no query twice, counts what it drops by slot, and reports progress
\* in individuals.
ScoringIsSerial ==
    /\ ScoreTypeOK /\ PlansAreDistinct /\ PartsAreFiled /\ SlotsAreSettled
    /\ ResultIsSerial /\ CachedScoresAreWhole /\ NoPartRunsTwice
    /\ DropsAreCountedBySlot /\ ProgressCountsIndividuals
=============================================================================
