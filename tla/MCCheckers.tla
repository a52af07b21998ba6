------------------------------ MODULE MCCheckers ------------------------------
(* RealizabilityChecker, SatisfiabilityChecker and the status that is graded  *)
(* by them for TLC, one of them in each behaviour; the variables of the       *)
(* others keep their first values.                                           *)
(*                                                                           *)
(* For the first a word is one move of the environment and one of the        *)
(* system; a strategy of the scope "play" answers each move of the           *)
(* environment, one of the scope "blind" makes its move alone. For the       *)
(* second plain has a model; weak and renamed are one unsatisfiable formula  *)
(* with a weak operator over different atoms, and long is an unsatisfiable   *)
(* one too long for a first look; zero is SPOT's 0.                          *)
EXTENDS RealizabilityChecker, TLC

CONSTANTS plain, weak, renamed, long, zero, t1, t2

VARIABLES
    part,
    candidate,  \* the specification a status is given, none in the other parts
    sat_settings, sat_cache, sat_rewrites, sat_pc, sat_call, sat_answer, sat_execs, sat_calls

satVars == <<sat_settings, sat_cache, sat_rewrites, sat_pc, sat_call, sat_answer, sat_execs,
             sat_calls>>

checkerVars == <<part, candidate, vars, satVars>>

Move == {0, 1}

MCWord == Move \X Move
MCStrategy == [Move -> Move]
MCScope == {"play", "blind"}
MCPlays ==
    [sc \in MCScope |-> [st \in MCStrategy |->
        IF sc = "play" THEN {<<x, st[x]>> : x \in Move} ELSE {<<st[0], st[1]>>}]]

\* "the system moves 0", "the system copies", "the system moves 0 or the
\* environment 0", "the environment moves 0", "the system moves 1".
MCConjunct == 1..5
MCSat ==
    <<{w \in MCWord : w[2] = 0}, {w \in MCWord : w[1] = w[2]},
      {w \in MCWord : w[2] = 0 \/ w[1] = 0}, {w \in MCWord : w[1] = 0},
      {w \in MCWord : w[2] = 1}>>
MCRules == {<<1, 3>>}
MCInputFree == {"blind"}

Q(sc, A, G) == [scope |-> sc, A |-> A, G |-> G]

\* For the store: realizable under its assumption only, not at all, and always.
MCQueryReuse == {Q("play", {4}, {1, 2}), Q("play", {}, {1, 2}), Q("play", {}, {2})}
MCModeReuse == {<<TRUE, FALSE>>}

\* For the comparisons: an assumption added, a guarantee replaced by a weaker
\* one, or a contradicting one added.
MCQueryCompare == {Q("play", {}, {1}), Q("play", {4}, {1}), Q("play", {}, {3}),
                   Q("play", {}, {1, 5})}
MCModeCompare == {<<TRUE, FALSE>>, <<TRUE, TRUE>>}

\* For the routes: without an environment, and with one.
MCQueryRoutes == {Q("blind", {}, {1, 5}), Q("blind", {}, {2}), Q("play", {4}, {1, 5})}
MCModeRoutes == {<<TRUE, FALSE>>, <<FALSE, FALSE>>}

MCQuery == MCQueryReuse \cup MCQueryCompare \cup MCQueryRoutes

MCSettings ==
    {[queries |-> MCQueryReuse, modes |-> MCModeReuse, min_guarantees |-> 1,
      two_attempts |-> FALSE],
     [queries |-> MCQueryCompare, modes |-> MCModeCompare, min_guarantees |-> 0,
      two_attempts |-> FALSE],
     [queries |-> MCQueryRoutes, modes |-> MCModeRoutes, min_guarantees |-> 0,
      two_attempts |-> TRUE]}

-----------------------------------------------------------------------------
MCFormulas == {plain, weak, renamed, long, zero}

MCRenamed == [f \in MCFormulas |-> IF f = renamed THEN weak ELSE f]

MCCanonical == [f \in MCFormulas |-> f]

\* The defaults; a timeout shorter than SPOT's first look; none.
MCBudgets ==
    {[timeout |-> 1000, spot |-> 500, probe |-> 300],
     [timeout |-> 150, spot |-> 500, probe |-> 300],
     [timeout |-> 0, spot |-> 500, probe |-> 300]}

Satisfiability == INSTANCE SatisfiabilityChecker WITH
    Threads <- {t1, t2}, Formulas <- MCFormulas, HasModel <- {plain},
    Weak <- {weak, renamed}, Folded <- {zero}, LongFormulas <- {long},
    Renamed <- MCRenamed, Canonical <- MCCanonical, Budgets <- MCBudgets,
    FirstLook <- 200, MaxCalls <- 1,
    settings <- sat_settings, m_cache <- sat_cache, rewrites <- sat_rewrites,
    pc <- sat_pc, call <- sat_call, answer <- sat_answer, execs <- sat_execs,
    calls <- sat_calls

ASSUME Satisfiability!SatisfiabilityAssumption

-----------------------------------------------------------------------------
(* Status: every repair of three guarantees, under five environments *)

Graded == INSTANCE Status WITH
    Word <- MCWord, Plays <- {MCPlays["play"][st] : st \in MCStrategy}

Requirement(ltl, names_output) ==
    [condition |-> "met", response |-> "met", stops |-> FALSE, ltl |-> ltl,
     names_output |-> names_output, removed |-> FALSE]

EnvironmentMoves(x) == Requirement({w \in MCWord : w[1] = x}, FALSE)

\* The first contradicts the second; the fourth is one the system can break.
MCAssumptions ==
    {<<>>, <<EnvironmentMoves(0)>>, <<EnvironmentMoves(0), EnvironmentMoves(1)>>,
     <<Requirement(MCSat[1], TRUE)>>,
     <<[Requirement(MCSat[1], TRUE) EXCEPT !.removed = TRUE], EnvironmentMoves(0)>>}

\* Guarantees that agree or not, one only the environment can meet, one that
\* is vacuous, and some with a part that cannot be met.
MCGuarantee ==
    {Requirement(MCSat[1], TRUE), Requirement(MCSat[2], TRUE), Requirement(MCSat[5], TRUE),
     EnvironmentMoves(0),
     [Requirement(MCWord, TRUE) EXCEPT !.condition = "false"],
     [Requirement(MCSat[4], TRUE) EXCEPT !.response = "never"],
     [Requirement(MCSat[3], TRUE) EXCEPT !.response = "never", !.stops = TRUE]}

Toggled(requirement) == {requirement, [requirement EXCEPT !.removed = TRUE]}

MCGuarantees ==
    {<<>>} \cup {<<a, b, c>> : a \in UNION {Toggled(r) : r \in MCGuarantee},
                             b, c \in MCGuarantee}

MCCandidate == [A : MCAssumptions, G : MCGuarantees]

\* What a run may leave undecided: nothing, one question, or all of one kind.
MCLate(spec) ==
    {{}} \cup {{question} : question \in Graded!Questions(spec)}
      \cup {{question \in Graded!Questions(spec) : question[1] = kind} :
              kind \in {"subset", "condition", "side"}}
      \cup {Graded!Questions(spec)}

MCOrders == {<<>>, <<2, 1>>, <<3, 2, 1>>}

NoCandidate == [A |-> <<>>, G |-> <<>>]

\* How a candidate is graded, whatever is left undecided (Status).
StatusIsGraded ==
    part = "status" =>
        /\ Graded!OrderIsStable(candidate)
        /\ \A order \in MCOrders :
              Graded!TopTierIsTruth(candidate, order) /\ Graded!KeptIsMaximal(candidate, order)
        /\ \A late \in MCLate(candidate) :
              /\ \A order \in MCOrders :
                    /\ Graded!SplitIsSerial(candidate, late, order)
                    /\ \A grading \in {"mrs", "aurus"} :
                          Graded!TimeoutsBuyNothing(candidate, grading, late, order)
              /\ \A grading \in {"mrs", "aurus"} :
                    Graded!GateAdmitsRepairs(candidate, grading, late)

-----------------------------------------------------------------------------
CheckersInit ==
    /\ part \in {"realizability", "satisfiability", "status"}
    /\ candidate \in IF part = "status" THEN MCCandidate ELSE {NoCandidate}
    /\ Init /\ Satisfiability!Init
    /\ part # "satisfiability" => sat_settings.timeout = 0
    /\ part # "realizability" => setting.two_attempts

CheckersNext ==
    \/ part = "realizability" /\ Next /\ UNCHANGED <<part, candidate, satVars>>
    \/ part = "satisfiability" /\ Satisfiability!Next /\ UNCHANGED <<part, candidate, vars>>

CheckersSpec == CheckersInit /\ [][CheckersNext]_checkerVars

\* The satisfiability checker's answers and memos are right, whichever thread
\* filled them by whichever route, an undecided answer is stored only once SPOT
\* has been asked, and no tool it starts can hang a call.
SatisfiabilityIsTrue ==
    /\ [](Satisfiability!AnswersAreTrue /\ Satisfiability!ToolsAreBounded)
    /\ Satisfiability!UndecidedMeansSpotWasAsked

Symmetry == Permutations(Worker)
=============================================================================
