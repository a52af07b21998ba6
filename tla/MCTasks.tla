------------------------------- MODULE MCTasks -------------------------------
(* ThreadPool, BoundedAsync and ProcessExec for TLC, one of them in each     *)
(* behaviour: the pool, the callers that hand it tasks and wait for them,    *)
(* and the tool calls those tasks make. BoundedAsync rests on the abstract   *)
(* TaskPool, which ThreadPool implements; that every task ends, which its    *)
(* fairness assumes of the tasks, is what CallsReturn promises.              *)
(*                                                                           *)
(* The pool has two Foreground and two Background tasks, any of which may    *)
(* come from another.                                                        *)
(* The search's region has three items launched out of index order, the      *)
(* filter's two, on two workers; one call has a timeout and an input, the    *)
(* other can be cancelled and has neither.                                   *)
EXTENDS ThreadPool, BoundedAsync, ProcessExec, TLC

CONSTANTS f1, f2, b1, b2, w1, w2, client, search, filter, c1, c2

VARIABLE part

MCTask == {f1, f2, b1, b2}
MCBackgroundTask == {b1, b2}
MCWorker == {w1, w2}
MCClient == {client}

MCRegion == {search, filter}
MCBackgroundRegion == {filter}
MCLaunchOrder == search :> <<2, 1, 3>> @@ filter :> <<1, 2>>
MCMaxInFlight == search :> 2 @@ filter :> 0

MCCall == {c1, c2}
MCBounded == {c1}
MCWatched == {c2}
MCWithInput == {c1}

ASSUME RegionAssumption /\ CallAssumption

tasksVars == <<part, vars, asyncVars, execVars>>

InPool(A) == part = "pool" /\ A /\ UNCHANGED <<part, asyncVars, execVars>>
InRegions(A) == part = "regions" /\ A /\ UNCHANGED <<part, vars, execVars>>
InExec(A) == part = "exec" /\ A /\ UNCHANGED <<part, vars, asyncVars>>

TasksInit ==
    /\ part \in {"pool", "regions", "exec"}
    /\ Init /\ AsyncInit /\ ExecInit
    /\ part # "exec" => spawn_mutex = NoMutex

TasksNext == InPool(Next) \/ InRegions(AsyncNext) \/ InExec(ExecNext)

\* The fairness of the three parts.
TasksSpec ==
    /\ TasksInit /\ [][TasksNext]_tasksVars
    /\ \A w \in Worker :
         /\ WF_tasksVars(InPool(WorkerStep(w)))
         /\ WF_tasksVars(InRegions(TaskStep(w)))
    /\ \A c \in Client \cup Worker : WF_tasksVars(InPool(NotifyOne(c)))
    /\ WF_tasksVars(InPool(NotifyAll)) /\ WF_tasksVars(InPool(Joined))
    /\ \A r \in Region : WF_tasksVars(InRegions(CallerStep(r)))
    /\ \A c \in Call :
         /\ WF_tasksVars(InExec(CallStep(c)))
         /\ WF_tasksVars(InExec(ChildStep(c)))
         /\ WF_tasksVars(InExec(Expire(c)))

\* Every region ends, whichever queue it is on (BoundedAsync).
RegionsEnd == part = "regions" => EveryRegionEnds

\* No call waits on a tool past its deadline, nor on another call's tool
\* (ProcessExec).
ToolCallsReturn == part = "exec" => CallsReturn
=============================================================================
