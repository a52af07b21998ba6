---------------------------- MODULE WalkLookahead ----------------------------
(***************************************************************************)
(* The MRS walk of status_score_mrs with the lookahead behind it           *)
(* (WalkLookahead in src/src/fitness/status.cpp). While the walk asks one  *)
(* query, background pool tasks ask the queries the next steps may ask,    *)
(* under every outcome of the steps before them; the walk cancels those    *)
(* not started, abandons those it can no longer reach, waits for the one   *)
(* it needs if it has started, and on its way out kills what still runs.   *)
(*                                                                         *)
(* A node is named by its set of parts. The pool may run a pending task at *)
(* any time, never, or, as it runs the walk itself in one of its workers   *)
(* and scoring in the others, only after the walk is over: the walk may    *)
(* not depend on it.                                                       *)
(***************************************************************************)
EXTENDS Integers, Sequences, FiniteSets, SequencesExt

CONSTANTS
    m_order,      \* the admission order: a permutation of the parts
    Oracle,       \* the verdict functions a run is checked against
    m_depth,      \* how many steps ahead queries are asked
    PoolSize,     \* workers that may be idle when the walk looks
    Faults        \* what may throw in a run: "none", "oracle" or "submit"

Part == Range(m_order)
Set == (SUBSET Part) \ {{}}
NoNode == {}

ASSUME LookaheadAssumption ==
    /\ m_order \in Seq(Part) /\ IsInjective(m_order)
    /\ Oracle \subseteq [Set -> BOOLEAN]
    /\ m_depth \in Nat \ {0}
    /\ PoolSize \in Nat
    /\ Faults \subseteq {"none", "oracle", "submit"}

VARIABLES
    fault,        \* what may throw, one of Faults
    verdict,      \* which sets of parts the oracle accepts
    memo,         \* the sets whose verdict the checker has memoised, with it
    pc,           \* where the walk is
    step,         \* parts settled so far
    kept,         \* the parts accepted so far
    m_nodes,      \* sets with a node the walk may still ask for
    m_abandoned,  \* started nodes it can no longer reach
    m_state,      \* each node's state, "none" for a set that has none
    m_kill,       \* nodes with m_kill set
    m_abandon,    \* nodes with m_abandon set
    own,          \* the node whose answer the current query waits for
    budget,       \* idle workers left to launch on
    foreseen      \* history: the last reachable sets

walkVars == <<fault, verdict, step, kept>>
nodeVars == <<m_nodes, m_abandoned, m_state, m_kill, m_abandon>>
vars == <<walkVars, memo, pc, nodeVars, own, budget, foreseen>>

-----------------------------------------------------------------------------
\* "query":   about to ask the next part's query, or, past the last, done
\* "drop":    in refresh, letting go of nodes that are out of reach
\* "launch":  in refresh, submitting tasks
\* "wait":    waiting for own to be done
\* "ask":     asking the oracle
\* "unwind":  leaving with an exception, the destructor to come
\* "join":    in the destructor, everything cancelled or killed
WalkPC == {"query", "drop", "launch", "wait", "ask", "unwind", "join",
           "scored", "threw"}

Query == kept \cup {m_order[step + 1]}

\* Mutant of Before: the query's own part is not taken out.
BeforeWithPart == Query

\* What was kept before this step: the query without its own part.
Before == kept

\* reachable: the sets steps up to m_depth ahead of the query may ask. A set
\* for step s holds part s, any of the parts the steps from this one up to s
\* settle, and what was kept before.
reachable ==
    UNION {{Before \cup Q \cup {m_order[step + 1 + ahead]} :
              Q \in SUBSET {m_order[k] : k \in step + 1 .. step + ahead}} :
           ahead \in 1 .. (IF step + 1 + m_depth <= Len(m_order)
                             THEN m_depth ELSE Len(m_order) - step - 1)}

Init ==
    /\ fault \in Faults
    /\ verdict \in Oracle
    /\ memo = <<>>
    /\ pc = "query" /\ step = 0 /\ kept = {}
    /\ m_nodes = {} /\ m_abandoned = {} /\ m_kill = {} /\ m_abandon = {}
    /\ m_state = [n \in Set |-> "none"]
    /\ own = NoNode
    /\ budget = 0
    /\ foreseen = {}

\* cancel: Pending becomes Cancelled, anything else stays. A node whose
\* submission threw is Pending too, with no task to run it.
Cancel(nodes) ==
    [n \in Set |-> IF n \in nodes /\ m_state[n] \in {"pending", "unqueued"}
                     THEN "cancelled" ELSE m_state[n]]

\* Mutants: the query's node stays in m_nodes; it is waited for uncancelled.
OtherNodesAll == m_nodes
OwnNotCancelled == m_state

\* The nodes but the query's own, which leaves m_nodes, and its cancellation.
OtherNodes == m_nodes \ {Query}
OwnCancelled == Cancel(m_nodes \cap {Query})

\* before_query, up to refresh: the query's own node is waited for unless it
\* could still be cancelled.
BeforeQuery ==
    /\ pc = "query"
    /\ step < Len(m_order)
    /\ m_nodes' = OtherNodes
    /\ m_state' = OwnCancelled
    /\ own' = IF Query \in m_nodes /\ m_state'[Query] # "cancelled"
                THEN Query ELSE NoNode
    /\ foreseen' = reachable
    /\ pc' = "drop"
    /\ UNCHANGED <<walkVars, memo, m_abandoned, m_kill, m_abandon, budget>>

\* Mutant of OutOfReach: nodes still in reach are let go of too.
OutOfReachAll == m_nodes

\* The nodes refresh lets go of.
OutOfReach == m_nodes \ reachable

\* refresh: one node out of reach is cancelled, or, if it runs, abandoned.
Drop(n) ==
    /\ pc = "drop"
    /\ n \in OutOfReach
    /\ m_nodes' = m_nodes \ {n}
    /\ m_state' = Cancel({n})
    /\ IF m_state[n] = "running"
         THEN /\ m_abandon' = m_abandon \cup {n}
              /\ m_abandoned' = m_abandoned \cup {n}
         ELSE UNCHANGED <<m_abandon, m_abandoned>>
    /\ UNCHANGED <<walkVars, memo, pc, m_kill, own, budget, foreseen>>

\* refresh: abandoned nodes that are done are forgotten, and the idle workers
\* counted. The count is stale at once, so any number is possible.
CountIdle ==
    /\ pc = "drop"
    /\ OutOfReach = {}
    /\ m_abandoned' = {n \in m_abandoned : m_state[n] # "done"}
    /\ budget' \in 0 .. PoolSize
    /\ pc' = "launch"
    /\ UNCHANGED <<walkVars, memo, m_nodes, m_state, m_kill, m_abandon, own, foreseen>>

\* The step a reachable set is asked at.
StepOf(set) == CHOOSE k \in DOMAIN m_order :
    m_order[k] \in set /\ \A j \in DOMAIN m_order : m_order[j] \in set => j <= k

\* wanted's order: nearest step first, and within a step the branch that
\* accepted the earlier part first.
Precedes(set, other) ==
    \/ StepOf(set) < StepOf(other)
    \/ /\ StepOf(set) = StepOf(other)
       /\ \E k \in DOMAIN m_order :
            /\ m_order[k] \in set \ other
            /\ \A j \in 1 .. k - 1 : m_order[j] \in set <=> m_order[j] \in other

\* The set the loop over wanted comes to next.
Wanted == {set \in reachable \ m_nodes :
             \A other \in reachable \ m_nodes : ~Precedes(other, set)}

\* The idle workers bound what is launched.
MayLaunch == budget > 0

\* launch: a node for one of them is made and its task submitted.
Launch(set) ==
    /\ pc = "launch"
    /\ MayLaunch
    /\ set \in Wanted
    /\ m_nodes' = m_nodes \cup {set}
    /\ m_state' = [m_state EXCEPT ![set] = "pending"]
    /\ budget' = budget - 1
    /\ UNCHANGED <<walkVars, memo, pc, m_abandoned, m_kill, m_abandon, own, foreseen>>

\* launch: submit throws, the node made before it staying in m_nodes, and the
\* exception leaves before_query.
LaunchThrows(set) ==
    /\ fault = "submit"
    /\ pc = "launch" /\ MayLaunch
    /\ set \in Wanted
    /\ m_nodes' = m_nodes \cup {set}
    /\ m_state' = [m_state EXCEPT ![set] = "unqueued"]
    /\ pc' = "unwind"
    /\ own' = NoNode
    /\ UNCHANGED <<walkVars, memo, m_abandoned, m_kill, m_abandon, budget, foreseen>>

\* The end of before_query: refresh is over, and there is a node to wait for
\* or there is not.
RefreshEnds ==
    /\ pc = "launch"
    /\ budget = 0 \/ reachable \subseteq m_nodes
    /\ pc' = IF own # NoNode THEN "wait" ELSE "ask"
    /\ UNCHANGED <<walkVars, memo, nodeVars, own, budget, foreseen>>

\* wait_done on own.
Await ==
    /\ pc = "wait"
    /\ m_state[own] \in {"done", "cancelled"}
    /\ pc' = "ask"
    /\ UNCHANGED <<walkVars, memo, nodeVars, own, budget, foreseen>>

\* The oracle's answer: the checker's memo if it holds one, or a query that
\* is run and memoised.
Answer(set) == IF set \in DOMAIN memo THEN memo[set] ELSE verdict[set]

Memoise(set, answer) ==
    IF set \in DOMAIN memo THEN memo
    ELSE [s \in DOMAIN memo \cup {set} |-> IF s = set THEN answer ELSE memo[s]]

\* The walk's own query, and what it makes of the answer.
Ask ==
    /\ pc = "ask"
    /\ memo' = Memoise(Query, Answer(Query))
    /\ kept' = IF Answer(Query) THEN Query ELSE kept
    /\ step' = step + 1
    /\ own' = NoNode
    /\ pc' = "query"
    /\ UNCHANGED <<fault, verdict, nodeVars, budget, foreseen>>

AskThrows ==
    /\ fault = "oracle"
    /\ pc = "ask"
    /\ own' = NoNode
    /\ pc' = "unwind"
    /\ UNCHANGED <<walkVars, memo, nodeVars, budget, foreseen>>

\* The destructor's first part: every node is cancelled or killed.
Leaving == pc = "unwind" \/ (pc = "query" /\ step = Len(m_order))

KillAll ==
    /\ Leaving
    /\ m_state' = Cancel(m_nodes)
    /\ m_kill' = m_kill \cup m_abandoned
                   \cup {n \in m_nodes : m_state[n] # "pending"}
    /\ pc' = "join"
    /\ UNCHANGED <<walkVars, memo, m_nodes, m_abandoned, m_abandon, own, budget,
                   foreseen>>

\* Mutant of Outlasted: abandoned nodes are not waited for.
OutlastedNodes == m_nodes

\* What the destructor waits for.
Outlasted == m_nodes \cup m_abandoned

\* Its second part: it waits.
Join ==
    /\ pc = "join"
    /\ \A n \in Outlasted : m_state[n] \in {"done", "cancelled"}
    /\ pc' = IF step = Len(m_order) THEN "scored" ELSE "threw"
    /\ UNCHANGED <<walkVars, memo, nodeVars, own, budget, foreseen>>

Walk ==
    \/ BeforeQuery \/ CountIdle \/ RefreshEnds \/ Await \/ Ask \/ AskThrows
    \/ KillAll \/ Join
    \/ \E n \in Set : Drop(n) \/ Launch(n) \/ LaunchThrows(n)

-----------------------------------------------------------------------------
\* A worker reaches the task and wins the node from the walk. A task whose
\* node was cancelled returns at once.
TaskStart(n) ==
    /\ m_state[n] = "pending"
    /\ Cardinality({m \in Set : m_state[m] = "running"}) < PoolSize
    /\ m_state' = [m_state EXCEPT ![n] = "running"]
    /\ UNCHANGED <<walkVars, memo, pc, m_nodes, m_abandoned, m_kill, m_abandon, own,
                   budget, foreseen>>

\* A task's query comes back and is memoised, as any query is.
TaskAnswers(n) ==
    /\ m_state[n] = "running"
    /\ memo' = Memoise(n, Answer(n))
    /\ m_state' = [m_state EXCEPT ![n] = "done"]
    /\ UNCHANGED <<walkVars, pc, m_nodes, m_abandoned, m_kill, m_abandon, own, budget,
                   foreseen>>

\* Mutant of KilledMemo: a killed query is memoised as refused.
KilledMemoRefused(n) == Memoise(n, FALSE)

\* What a query that was killed leaves in the memo: nothing.
KilledMemo(n) == memo

\* A task's exec is killed, or its oracle throws: the exception passes the
\* runners' handlers and ends in the task.
TaskFails(n) ==
    /\ m_state[n] = "running"
    /\ n \in m_kill \cup m_abandon \/ fault = "oracle"
    /\ memo' = KilledMemo(n)
    /\ m_state' = [m_state EXCEPT ![n] = "done"]
    /\ UNCHANGED <<walkVars, pc, m_nodes, m_abandoned, m_kill, m_abandon, own, budget,
                   foreseen>>

TaskEnds(n) == TaskAnswers(n) \/ TaskFails(n)

Next == Walk \/ \E n \in Set : TaskStart(n) \/ TaskEnds(n)

LookaheadSpec == Init /\ [][Next]_vars

\* The walk's thread is scheduled, and a query that runs ends, by its budget
\* or by being killed. Nothing makes the pool start a pending task.
FairLookaheadSpec ==
    LookaheadSpec /\ WF_vars(Walk) /\ \A n \in Set : WF_vars(TaskEnds(n))

-----------------------------------------------------------------------------
(* Properties *)

TypeOK ==
    /\ fault \in Faults
    /\ DOMAIN memo \subseteq Set
    /\ pc \in WalkPC
    /\ step \in 0 .. Len(m_order) /\ kept \subseteq Part
    /\ m_nodes \subseteq Set /\ m_abandoned \subseteq Set
    /\ m_state \in [Set -> {"none", "pending", "unqueued", "running", "done", "cancelled"}]
    /\ m_kill \subseteq Set /\ m_abandon \subseteq Set
    /\ own \in Set \cup {NoNode}
    /\ budget \in 0 .. PoolSize

\* "A started task borrows m_oracle, which the caller owns, so none may
\* outlive the walk": when the walk is over, no task of its runs and no queued
\* one can still start. A submit that throws is left out: it unwinds past the
\* query's own node, which before_query has taken from m_nodes.
NoTaskOutlivesTheWalk ==
    fault # "submit" /\ pc \in {"scored", "threw"} =>
        \A n \in Set : m_state[n] \notin {"pending", "running"}

\* "Never set on a node the walk is waiting for": the answer the walk waits
\* for is not one it has told to stop.
AwaitedIsNotKilled == own # NoNode => own \notin m_kill \cup m_abandon

\* refresh's comment: "A set the walk cannot reach now it never can again", so
\* a node that was dropped, or asked for, is never made a second time.
DroppedStaysOutOfReach ==
    \A n \in Set : m_state[n] # "none" /\ n \notin m_nodes =>
        pc \notin {"drop", "launch"} \/ n \notin reachable

\* Whatever the walk decides, its next query was among those it foresaw.
NextQueryWasForeseen ==
    pc = "query" /\ step \in 1 .. Len(m_order) - 1 => Query \in foreseen

\* "A killed exec raises past the runners' own handlers, which is what keeps it
\* out of every cache": whatever was killed, abandoned or thrown out of, what
\* the memo holds for later candidates is the oracle's own answers.
MemoIsTruthful == \A s \in DOMAIN memo : memo[s] = verdict[s]

\* Where the walk is: what it kept is settled, and while it handles a query
\* there is one, its reach foreseen.
Settled == {m_order[k] : k \in 1 .. step}
Querying == pc \in {"drop", "launch", "wait", "ask"}

WalkIsPlaced ==
    /\ kept \subseteq Settled
    /\ Querying => step < Len(m_order) /\ foreseen = reachable

\* No query from here on is n's: the walk kept other parts, or is past it.
Gone(n) ==
    \/ n \cap Settled # kept
    \/ \A k \in step + 2 .. Len(m_order) : m_order[k] \notin n

\* Every set that has had a node is near enough to be asked, or was let go of
\* for good; a task that may still start has its node in m_nodes, and one that
\* runs is waited for by somebody, unless a submit that threw unwound past it.
IsBooked(n) ==
    /\ m_state[n] # "none" =>
         /\ \A k \in step + 2 + m_depth .. Len(m_order) : m_order[k] \notin n
         /\ n \notin m_nodes => Gone(n)
    /\ n \in m_nodes \cup m_abandon => m_state[n] # "none"
    /\ ~(n \in m_nodes /\ n \in m_abandon)
    /\ m_state[n] = "pending" => n \in m_nodes /\ pc \notin {"join", "scored", "threw"}
    /\ m_state[n] = "running" => n \in m_nodes \cup m_abandoned \cup {own} \/ fault = "submit"

NodesAreBooked == \A n \in Set : IsBooked(n)

\* The node the walk waits for is the query's, out of m_nodes and, once the
\* walk asks, over; nothing is killed before the destructor.
OwnIsTheQuerys ==
    /\ own # NoNode => Querying /\ own = Query /\ own \notin m_nodes
    /\ own # NoNode /\ pc = "ask" => m_state[own] \in {"done", "cancelled"}
    /\ pc \notin {"join", "scored", "threw"} => m_kill = {}

\* The lookahead's promises to the walk, whatever races: it stops only what is
\* not needed, drops only what cannot be asked, foresees what is, and leaves
\* the memo true. With its books, which the promises rest on, it is inductive.
LookaheadIsSound ==
    /\ TypeOK
    /\ NoTaskOutlivesTheWalk
    /\ AwaitedIsNotKilled
    /\ DroppedStaysOutOfReach
    /\ NextQueryWasForeseen
    /\ MemoIsTruthful
    /\ WalkIsPlaced /\ NodesAreBooked /\ OwnIsTheQuerys

Serial == INSTANCE MrsWalk WITH
    walk <- IF pc \in {"scored", "threw"} THEN pc ELSE "walking"

\* Speculation moves queries and no outcome: the parts kept, and so the score,
\* are the serial walk's, however tasks, kills and the memo interleave, every
\* query being decided. And the walk ends, although the pool may never start one of its
\* tasks.
ImplementsMrsWalk == Serial!WalkSpec
=============================================================================
