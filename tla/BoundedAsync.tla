---------------------------- MODULE BoundedAsync ----------------------------
(***************************************************************************)
(* run_bounded_async of src/include/bounded_async.hpp: a caller launches   *)
(* its items on the pool, keeps at most max_in_flight of them launched and *)
(* not collected, collects results in the order they are ready, and never  *)
(* leaves, by return or by exception, before every task it launched has    *)
(* reported, since the tasks borrow the caller's data.                     *)
(*                                                                         *)
(* Several callers (the search on the Foreground queue, the streaming      *)
(* filter's coordinator on the Background queue) share the one pool, which *)
(* is the abstract TaskPool. A CompletionQueue's critical sections are     *)
(* actions, and its pop's wait is the guard of the step that pops.         *)
(***************************************************************************)
EXTENDS Integers, Sequences, FiniteSets, Functions

CONSTANTS
    Region,            \* calls of run_bounded_async
    BackgroundRegion,  \* those with TaskPriority::Background
    LaunchOrder,       \* each region's item indices in launch order
    MaxInFlight,       \* each region's max_in_flight argument
    PoolWorker,        \* the workers of the pool
    NoItem             \* what a worker that runs nothing runs

Item == UNION {{<<r, i>> : i \in Range(LaunchOrder[r])} : r \in Region}

BackgroundItem == {t \in Item : t[1] \in BackgroundRegion}

RegionAssumption ==
    /\ BackgroundRegion \subseteq Region
    /\ LaunchOrder \in [Region -> Seq(Nat)]
    /\ \A r \in Region : IsInjective(LaunchOrder[r])  \* assert_permutation
    /\ MaxInFlight \in [Region -> Nat]
    /\ PoolWorker # {}
    /\ NoItem \notin Item

VARIABLES
    foreground, background, running, async_finished,  \* the pool's
    caller,         \* where each caller is
    slot,           \* how many items it has launched
    m_outstanding,  \* its CompletionQueue: tasks that have not pushed yet
    m_done,         \*   and the entries pushed and not popped
    completed,      \* history: the items on_complete was called for, in order
    reported,       \* tasks that have pushed their entry and not yet returned
    failed          \* history: regions in which something has thrown

poolVars == <<foreground, background, running, async_finished>>
regionVars == <<caller, slot, m_outstanding, m_done, completed, failed>>
asyncVars == <<poolVars, regionVars, reported>>

AsyncPool == INSTANCE TaskPool WITH
    Task <- Item, BackgroundTask <- BackgroundItem, Worker <- PoolWorker, NoTask <- NoItem,
    finished <- async_finished

-----------------------------------------------------------------------------
\* "loop":    at the head of the launching loop
\* "collect": the window is full
\* "launch":  about to build the next task
\* "counted": the task is counted and about to be submitted
\* "finish":  everything is launched; collecting the rest
\* "unwind":  in DrainGuard's destructor with an exception in hand
CallerPC == {"loop", "collect", "launch", "counted", "finish", "unwind",
             "returned", "threw"}

N(r) == Len(LaunchOrder[r])

\* Mutant of Window: the argument as it comes.
WindowAsGiven(r) == MaxInFlight[r]

\* A window of 0 would never launch anything.
Window(r) == IF MaxInFlight[r] = 0 THEN 1 ELSE MaxInFlight[r]

in_flight(r) == m_outstanding[r] + Len(m_done[r])

NextTask(r) == <<r, LaunchOrder[r][slot[r] + 1]>>

Entry == [task : Item, ok : BOOLEAN]

AsyncInit ==
    /\ AsyncPool!Init
    /\ caller = [r \in Region |-> "loop"]
    /\ slot = [r \in Region |-> 0]
    /\ m_outstanding = [r \in Region |-> 0]
    /\ m_done = [r \in Region |-> <<>>]
    /\ completed = [r \in Region |-> <<>>]
    /\ reported = {}
    /\ failed = {}

\* Mutant of WindowFull: one launch too many.
WindowOverfull(r) == in_flight(r) > Window(r)

WindowFull(r) == in_flight(r) >= Window(r)

CallerGoto(r, place) == caller' = [caller EXCEPT ![r] = place]

\* Mutant of Throw: the exception leaves the region at once.
ThrowUnguarded(r) == CallerGoto(r, "threw") /\ failed' = failed \cup {r}

\* An exception leaves the loop and starts DrainGuard.
Throw(r) == CallerGoto(r, "unwind") /\ failed' = failed \cup {r}

LoopHead(r) ==
    /\ caller[r] = "loop"
    /\ CallerGoto(r, IF slot[r] = N(r) THEN "finish"
                     ELSE IF WindowFull(r) THEN "collect" ELSE "launch")
    /\ UNCHANGED <<poolVars, reported, slot, m_outstanding, m_done, completed, failed>>

\* Mutant of Delivered: an entry's error is not looked at.
DeliveredAlways(entry) == TRUE

\* An entry with a value, and not an error, in it.
Delivered(entry) == entry.ok

\* collect_one: an entry with an error is rethrown, any other handed to
\* on_complete, which may throw as well.
Collect(r) ==
    /\ caller[r] \in {"collect", "finish"}
    /\ m_done[r] # <<>>
    /\ m_done' = [m_done EXCEPT ![r] = Tail(@)]
    /\ \/ /\ Delivered(Head(m_done[r]))
          /\ completed' = [completed EXCEPT ![r] = Append(@, Head(m_done[r]).task)]
          /\ CallerGoto(r, IF caller[r] = "collect" THEN "launch" ELSE "finish")
          /\ UNCHANGED failed
       \/ Throw(r) /\ UNCHANGED completed
    /\ UNCHANGED <<poolVars, reported, slot, m_outstanding>>

\* Mutant of TakenBack: a failed submit is left counted.
TakenBackNot(n) == n

\* The counter with one task more, and with one less.
Counted(n) == n + 1
TakenBack(n) == n - 1

\* launch, up to the counter. make_task may throw; nothing is counted then.
Count(r) ==
    /\ caller[r] = "launch"
    /\ \/ /\ m_outstanding' = [m_outstanding EXCEPT ![r] = Counted(@)]
          /\ CallerGoto(r, "counted")
          /\ UNCHANGED failed
       \/ Throw(r) /\ UNCHANGED m_outstanding
    /\ UNCHANGED <<poolVars, reported, slot, m_done, completed>>

\* launch, the submit; a submit that throws takes the count back.
Launch(r) ==
    /\ caller[r] = "counted"
    /\ \/ /\ AsyncPool!Submit(NextTask(r))
          /\ slot' = [slot EXCEPT ![r] = @ + 1]
          /\ CallerGoto(r, "loop")
          /\ UNCHANGED <<m_outstanding, failed>>
       \/ /\ m_outstanding' = [m_outstanding EXCEPT ![r] = TakenBack(@)]
          /\ Throw(r)
          /\ UNCHANGED <<poolVars, slot>>
    /\ UNCHANGED <<reported, m_done, completed>>

Return(r) ==
    /\ caller[r] = "finish"
    /\ in_flight(r) = 0
    /\ CallerGoto(r, "returned")
    /\ UNCHANGED <<poolVars, reported, slot, m_outstanding, m_done, completed, failed>>

\* DrainGuard discards what the stragglers report and then lets the exception go.
Drain(r) ==
    /\ caller[r] = "unwind"
    /\ \/ /\ m_done[r] # <<>>
          /\ m_done' = [m_done EXCEPT ![r] = Tail(@)]
          /\ UNCHANGED caller
       \/ /\ in_flight(r) = 0
          /\ CallerGoto(r, "threw")
          /\ UNCHANGED m_done
    /\ UNCHANGED <<poolVars, reported, slot, m_outstanding, completed, failed>>

CallerStep(r) ==
    LoopHead(r) \/ Collect(r) \/ Count(r) \/ Launch(r) \/ Return(r) \/ Drain(r)

-----------------------------------------------------------------------------
Start(w) == AsyncPool!Start(w) /\ UNCHANGED <<regionVars, reported>>

\* A task ends, with a value or an exception, and pushes its entry.
Report(w, ok) ==
    /\ running[w] # NoItem
    /\ running[w] \notin reported
    /\ LET r == running[w][1]
       IN  /\ m_done' = [m_done EXCEPT ![r] =
                           Append(@, [task |-> running[w], ok |-> ok])]
           /\ m_outstanding' = [m_outstanding EXCEPT ![r] = @ - 1]
           /\ failed' = IF ok THEN failed ELSE failed \cup {r}
    /\ reported' = reported \cup {running[w]}
    /\ UNCHANGED <<poolVars, caller, slot, completed>>

\* The closure returns to the worker's loop.
TaskReturns(w) ==
    /\ running[w] \in reported
    /\ AsyncPool!Finish(w)
    /\ UNCHANGED <<regionVars, reported>>

TaskStep(w) == Start(w) \/ (\E ok \in BOOLEAN : Report(w, ok)) \/ TaskReturns(w)

AsyncNext ==
    \/ \E r \in Region : CallerStep(r)
    \/ \E w \in PoolWorker : TaskStep(w)

AsyncSpec == AsyncInit /\ [][AsyncNext]_asyncVars

\* Every caller and every worker is scheduled, and every task ends.
FairAsyncSpec ==
    /\ AsyncSpec
    /\ \A r \in Region : WF_asyncVars(CallerStep(r))
    /\ \A w \in PoolWorker : WF_asyncVars(TaskStep(w))

-----------------------------------------------------------------------------
(* Properties *)

\* Tasks of a region that may still read the data they borrowed.
Borrowing(r) ==
    {t \in Item : t[1] = r /\ t \in (AsyncPool!Queued \cup AsyncPool!Running) \ reported}

AsyncTypeOK ==
    /\ foreground \in Seq(Item) /\ background \in Seq(Item)
    /\ async_finished \subseteq Item
    /\ running \in [PoolWorker -> Item \cup {NoItem}]
    /\ caller \in [Region -> CallerPC]
    /\ slot \in [Region -> Nat]
    /\ m_outstanding \in [Region -> Nat]
    /\ m_done \in [Region -> Seq(Entry)]
    /\ completed \in [Region -> Seq(Item)]
    /\ reported \subseteq Item
    /\ failed \subseteq Region

\* "Tasks capture references to caller-owned data, so propagating earlier
\* would unwind past that data and free it while the remaining workers still
\* read it": once a region is over, returned or thrown, no worker runs one of
\* its tasks and none is queued, whatever threw and at whichever point.
NoTaskOutlivesItsRegion ==
    \A r \in Region :
        caller[r] \in {"returned", "threw"} => Borrowing(r) = {}

\* The counter is the number of tasks that will still push an entry, so that
\* the drain loop neither waits on a slot nobody can fill nor leaves early.
OutstandingIsExact ==
    \A r \in Region :
        m_outstanding[r] = Cardinality(Borrowing(r))
                             + IF caller[r] = "counted" THEN 1 ELSE 0

\* At no time are more than max_in_flight of a region's tasks launched and
\* not collected.
WindowIsKept == \A r \in Region : in_flight(r) <= Window(r)

\* A region that returns has handed every item to on_complete, each once, and
\* nothing in it has thrown; one in which anything threw ends by throwing.
ReturnsOnlyComplete ==
    \A r \in Region :
        /\ IsInjective(completed[r])
        /\ caller[r] = "returned" =>
             /\ {t \in Item : t[1] = r} = Range(completed[r])
             /\ r \notin failed

\* A caller has launched as much as the place it is at says, builds a task only
\* with room for it, and is gone only once nothing is in flight.
PlacesFit ==
    \A r \in Region :
        /\ slot[r] <= N(r)
        /\ caller[r] \in {"collect", "launch", "counted"} => slot[r] < N(r)
        /\ caller[r] \in {"finish", "returned"} => slot[r] = N(r)
        /\ caller[r] = "launch" => in_flight(r) < Window(r)
        /\ caller[r] \in {"returned", "threw"} => in_flight(r) = 0

Launched(r) == {<<r, LaunchOrder[r][k]>> : k \in 1..slot[r]}

Tasks(entries) == {entries[i].task : i \in DOMAIN entries}

Distinct(entries) == \A i, j \in DOMAIN entries : entries[i].task = entries[j].task => i = j

AllOk(entries) == \A i \in DOMAIN entries : entries[i].ok

\* An entry is of a task of the region that has run and was not handed over, and
\* no task has two.
EntriesFit ==
    /\ reported \subseteq AsyncPool!Running \cup async_finished
    /\ \A r \in Region :
         /\ Tasks(m_done[r]) \cup Range(completed[r]) \subseteq {t \in reported : t[1] = r}
         /\ Tasks(m_done[r]) \cap Range(completed[r]) = {}
         /\ Distinct(m_done[r])

\* Until something throws, a launched task is borrowing, waiting to be collected
\* or handed over; whatever threw is on its way to the caller or has reached it.
NothingIsDropped ==
    \A r \in Region :
        IF r \in failed
          THEN caller[r] \in {"unwind", "threw"} \/ ~AllOk(m_done[r])
          ELSE /\ caller[r] \notin {"unwind", "threw"}
               /\ Launched(r) = Borrowing(r) \cup Tasks(m_done[r]) \cup Range(completed[r])

\* The region's books: the counter, the window, the queue and what was handed
\* over agree after every step of caller, workers and exceptions.
RegionAccounts ==
    /\ AsyncTypeOK /\ PlacesFit /\ EntriesFit /\ NothingIsDropped
    /\ OutstandingIsExact /\ WindowIsKept /\ ReturnsOnlyComplete

RegionsAreSafe == NoTaskOutlivesItsRegion /\ RegionAccounts

\* Every region ends, the one on the Background queue too, and with a window
\* or a pool of one.
EveryRegionEnds ==
    \A r \in Region : <>(caller[r] \in {"returned", "threw"})
=============================================================================
