----------------------------- MODULE ThreadPool -----------------------------
(***************************************************************************)
(* The ThreadPool of src/include/thread_pool.hpp and                       *)
(* src/src/thread_pool.cpp: one mutex, one condition variable, two queues, *)
(* a fixed number of worker threads, and a destructor that joins them.     *)
(*                                                                         *)
(* Each critical section is one action, since nothing inside one blocks    *)
(* except m_cv.wait, which releases the mutex as it parks the caller.      *)
(* submit notifies after it has released the mutex, so its push and its    *)
(* notify_one are two actions and anything may happen between them; the    *)
(* same holds for the destructor's m_stop and its notify_all.              *)
(*                                                                         *)
(* A thread in m_cv.wait may return from it with no notification           *)
(* (SpuriousWakeup), as the standard allows.                               *)
(***************************************************************************)
EXTENDS Integers, Sequences, FiniteSets

CONSTANTS
    Task,           \* every task that may be submitted
    BackgroundTask, \* those submitted with TaskPriority::Background
    Worker,         \* the pool's threads
    Client,         \* threads outside the pool that submit to it
    NoTask

ASSUME ThreadPoolAssumption ==
    /\ BackgroundTask \subseteq Task
    /\ NoTask \notin Task
    /\ Worker # {}
    /\ IsFiniteSet(Worker)
    /\ Worker \cap Client = {}

VARIABLES
    m_tasks,       \* the Foreground queue
    m_background,  \* the Background queue
    m_waiting,     \* workers inside m_cv.wait
    m_stop,
    pc,            \* where each worker is in worker_loop
    task,          \* each worker's local variable of that name
    notifying,     \* threads between submit's push and its notify_one
    destructor,    \* how far ~ThreadPool has come
    finished,      \* history: tasks that have returned
    passedBy       \* history: <<worker, Background task>> pairs a queued
                   \* Foreground task has had to wait behind

vars == <<m_tasks, m_background, m_waiting, m_stop, pc, task, notifying,
          destructor, finished, passedBy>>

-----------------------------------------------------------------------------
\* "lock":   about to take m_mutex at the head of the loop
\* "parked": blocked in m_cv.wait
\* "woken":  out of the wait set, about to retake m_mutex
\* "run":    inside task()
\* "exited": returned from worker_loop
WorkerPC == {"lock", "parked", "woken", "run", "exited"}

ForegroundTask == Task \ BackgroundTask

InQueue(q, t) == \E i \in 1 .. Len(q) : q[i] = t

NoDuplicates(q) == \A i, j \in 1 .. Len(q) : q[i] = q[j] => i = j

Queued == {t \in Task : InQueue(m_tasks, t) \/ InQueue(m_background, t)}

Running == {t \in Task : \E w \in Worker : task[w] = t}

Submitted == Queued \cup Running \cup finished

QueueLength == Len(m_tasks) + Len(m_background)

WorkersAt(places) == {w \in Worker : pc[w] \in places}

\* ThreadPool::idle_workers.
idle_workers ==
    IF m_waiting > QueueLength THEN m_waiting - QueueLength ELSE 0

-----------------------------------------------------------------------------
Init ==
    /\ m_tasks = <<>>
    /\ m_background = <<>>
    /\ m_waiting = 0
    /\ m_stop = FALSE
    /\ pc = [w \in Worker |-> "lock"]
    /\ task = [w \in Worker |-> NoTask]
    /\ notifying = {}
    /\ destructor = "idle"
    /\ finished = {}
    /\ passedBy = [t \in ForegroundTask |-> {}]

\* A thread may call submit: a client while the pool has not begun to be
\* destroyed, and a worker from inside the task it is running, at any time.
MaySubmit(caller) ==
    /\ caller \notin notifying
    /\ \/ caller \in Client /\ destructor = "idle"
       \/ caller \in Worker /\ pc[caller] = "run"

\* The queue a task goes to.
IsBackground(t) == t \in BackgroundTask

\* submit, up to the end of its critical section.
Push(caller, t) ==
    /\ MaySubmit(caller)
    /\ t \notin Submitted
    /\ IF IsBackground(t)
         THEN /\ m_background' = Append(m_background, t)
              /\ UNCHANGED <<m_tasks, passedBy>>
         ELSE /\ m_tasks' = Append(m_tasks, t)
              /\ passedBy' = [passedBy EXCEPT ![t] =
                   {<<w, task[w]>> : w \in {v \in Worker : task[v] \in BackgroundTask}}]
              /\ UNCHANGED m_background
    /\ notifying' = notifying \cup {caller}
    /\ UNCHANGED <<m_waiting, m_stop, pc, task, destructor, finished>>

\* Mutant of NotifyOne: submit returns without a notification.
NotifyNobody(caller) ==
    /\ caller \in notifying
    /\ notifying' = notifying \ {caller}
    /\ UNCHANGED <<m_tasks, m_background, m_waiting, m_stop, pc, task,
                   destructor, finished, passedBy>>

\* submit's notify_one: wakes one parked worker if there is any.
NotifyOne(caller) ==
    /\ caller \in notifying
    /\ notifying' = notifying \ {caller}
    /\ \/ \E w \in WorkersAt({"parked"}) : pc' = [pc EXCEPT ![w] = "woken"]
       \/ WorkersAt({"parked"}) = {} /\ UNCHANGED pc
    /\ UNCHANGED <<m_tasks, m_background, m_waiting, m_stop, task, destructor,
                   finished, passedBy>>

\* Mutant of CountedWaiting: a worker that was woken for nothing counts again.
CountedAgain(w) == m_waiting + 1

\* m_waiting after the increment that precedes the wait.
CountedWaiting(w) == IF pc[w] = "lock" THEN m_waiting + 1 ELSE m_waiting

\* The wait's predicate is false: the worker joins the wait set, or, having
\* been woken for nothing, rejoins it.
Park(w) ==
    /\ pc[w] \in {"lock", "woken"}
    /\ ~m_stop /\ QueueLength = 0
    /\ m_waiting' = CountedWaiting(w)
    /\ pc' = [pc EXCEPT ![w] = "parked"]
    /\ UNCHANGED <<m_tasks, m_background, m_stop, task, notifying, destructor,
                   finished, passedBy>>

\* Mutants: Background work goes first; a task that is taken stays queued.
ServesBackgroundFirst == m_background # <<>>
PoppedNot(q) == q

\* Background work runs only when the Foreground queue is empty.
ServesBackground == m_tasks = <<>>

\* A queue without its front.
Popped(q) == Tail(q)

\* The predicate is true because a task is queued: the worker leaves the wait
\* and takes the front of m_tasks, or of m_background when m_tasks is empty.
Take(w) ==
    /\ pc[w] \in {"lock", "woken"}
    /\ QueueLength > 0
    /\ m_waiting' = CountedWaiting(w) - 1
    /\ pc' = [pc EXCEPT ![w] = "run"]
    /\ IF ServesBackground
         THEN /\ task' = [task EXCEPT ![w] = Head(m_background)]
              /\ m_background' = Popped(m_background)
              /\ UNCHANGED m_tasks
         ELSE /\ task' = [task EXCEPT ![w] = Head(m_tasks)]
              /\ m_tasks' = Popped(m_tasks)
              /\ UNCHANGED m_background
    /\ passedBy' = [t \in ForegroundTask |->
         IF InQueue(m_tasks, t) /\ task'[w] \in BackgroundTask
           THEN passedBy[t] \cup {<<w, task'[w]>>}
           ELSE passedBy[t]]
    /\ UNCHANGED <<m_stop, notifying, destructor, finished>>

\* Mutant of MayExit: the worker leaves with tasks queued.
MayExitAtStop == m_stop

\* When a worker leaves its loop.
MayExit == m_stop /\ QueueLength = 0

\* The predicate is true because of m_stop, and there is nothing left to take.
Exit(w) ==
    /\ pc[w] \in {"lock", "woken"}
    /\ MayExit
    /\ m_waiting' = CountedWaiting(w) - 1
    /\ pc' = [pc EXCEPT ![w] = "exited"]
    /\ UNCHANGED <<m_tasks, m_background, m_stop, task, notifying, destructor,
                   finished, passedBy>>

\* task() returns. A task that is inside a submit has to leave it first.
Finish(w) ==
    /\ pc[w] = "run"
    /\ w \notin notifying
    /\ finished' = finished \cup {task[w]}
    /\ task' = [task EXCEPT ![w] = NoTask]
    /\ pc' = [pc EXCEPT ![w] = "lock"]
    /\ UNCHANGED <<m_tasks, m_background, m_waiting, m_stop, notifying,
                   destructor, passedBy>>

SpuriousWakeup(w) ==
    /\ pc[w] = "parked"
    /\ pc' = [pc EXCEPT ![w] = "woken"]
    /\ UNCHANGED <<m_tasks, m_background, m_waiting, m_stop, task, notifying,
                   destructor, finished, passedBy>>

\* ~ThreadPool: m_stop under the mutex. The global pool is destroyed after
\* main has returned, so no client is inside submit by then.
Stop ==
    /\ destructor = "idle"
    /\ Client \cap notifying = {}
    /\ m_stop' = TRUE
    /\ destructor' = "stopped"
    /\ UNCHANGED <<m_tasks, m_background, m_waiting, pc, task, notifying,
                   finished, passedBy>>

\* Mutant of NotifyAll: one worker is woken.
NotifyAllOne ==
    /\ destructor = "stopped"
    /\ \/ \E w \in WorkersAt({"parked"}) : pc' = [pc EXCEPT ![w] = "woken"]
       \/ WorkersAt({"parked"}) = {} /\ UNCHANGED pc
    /\ destructor' = "joining"
    /\ UNCHANGED <<m_tasks, m_background, m_waiting, m_stop, task, notifying,
                   finished, passedBy>>

\* ~ThreadPool: notify_all.
NotifyAll ==
    /\ destructor = "stopped"
    /\ pc' = [w \in Worker |-> IF pc[w] = "parked" THEN "woken" ELSE pc[w]]
    /\ destructor' = "joining"
    /\ UNCHANGED <<m_tasks, m_background, m_waiting, m_stop, task, notifying,
                   finished, passedBy>>

\* ~ThreadPool: the last join returns.
Joined ==
    /\ destructor = "joining"
    /\ WorkersAt({"exited"}) = Worker
    /\ destructor' = "joined"
    /\ UNCHANGED <<m_tasks, m_background, m_waiting, m_stop, pc, task,
                   notifying, finished, passedBy>>

WorkerStep(w) == Park(w) \/ Take(w) \/ Exit(w) \/ Finish(w)

Next ==
    \/ \E c \in Client \cup Worker :
         \/ \E t \in Task : Push(c, t)
         \/ NotifyOne(c)
    \/ \E w \in Worker : WorkerStep(w) \/ SpuriousWakeup(w)
    \/ Stop \/ NotifyAll \/ Joined

Spec == Init /\ [][Next]_vars

\* The operating system schedules every thread, tasks return, and a thread
\* that has called submit or the destructor goes on with it. Nothing makes a
\* client submit or begin the destruction, and no wakeup is spurious for
\* ever or at all.
Fairness ==
    /\ \A w \in Worker : WF_vars(WorkerStep(w))
    /\ \A c \in Client \cup Worker : WF_vars(NotifyOne(c))
    /\ WF_vars(NotifyAll)
    /\ WF_vars(Joined)

FairSpec == Spec /\ Fairness

-----------------------------------------------------------------------------
(* Properties *)

TypeOK ==
    /\ m_tasks \in Seq(ForegroundTask)
    /\ m_background \in Seq(BackgroundTask)
    /\ m_waiting \in Int
    /\ m_stop \in BOOLEAN
    /\ pc \in [Worker -> WorkerPC]
    /\ task \in [Worker -> Task \cup {NoTask}]
    /\ notifying \subseteq Client \cup Worker
    /\ destructor \in {"idle", "stopped", "joining", "joined"}
    /\ finished \subseteq Task
    /\ passedBy \in [ForegroundTask -> SUBSET (Worker \X BackgroundTask)]

\* A task is in one place only: at one position of one queue, in the hands of
\* one worker, or finished. So no task is run twice, and none is dropped
\* between the queue and a worker, whatever the interleaving of submitters,
\* workers and the destructor.
EachTaskInOnePlace ==
    /\ NoDuplicates(m_tasks) /\ NoDuplicates(m_background)
    /\ \A v, w \in Worker : task[v] = task[w] /\ task[v] # NoTask => v = w
    /\ Queued \cap Running = {}
    /\ (Queued \cup Running) \cap finished = {}

\* No wakeup is lost although submit notifies after releasing the mutex: if a
\* worker is parked while tasks are queued, then as many threads as there are
\* queued tasks are on their way to take one or to wake someone who will.
WorkConserving ==
    WorkersAt({"parked"}) # {} =>
        QueueLength <= Cardinality(WorkersAt({"lock", "woken"}))
                         + Cardinality(notifying)

\* m_waiting counts the workers inside m_cv.wait and no others, so that
\* idle_workers() never offers one that does not exist, and the unsigned
\* counter never goes below zero, although the worker that is counted is not
\* the one that is running when a wakeup is delivered.
WaitingIsExact ==
    m_waiting = Cardinality(WorkersAt({"parked", "woken"}))

\* TaskPriority's documentation: "a Foreground task can wait behind at most
\* one Background task per worker". Counted over every Background task that
\* was running when the Foreground task was queued or started before it did.
WaitsBehindOneBackgroundPerWorker ==
    \A t \in ForegroundTask, w \in Worker :
        Cardinality({p \in passedBy[t] : p[1] = w}) <= 1

\* The destructor returns only when every task ever accepted, those that tasks
\* submitted while the pool was stopping included, has run to its end.
DrainedWhenJoined ==
    destructor = "joined" => Queued = {} /\ Running = {}

\* How the threads' places, the destructor and the flags belong together.
ControlOK ==
    /\ \A w \in Worker : pc[w] = "run" <=> task[w] # NoTask
    /\ notifying \cap Worker \subseteq WorkersAt({"run"})
    /\ IsFiniteSet(notifying)
    /\ m_stop <=> destructor # "idle"
    /\ WorkersAt({"exited"}) # {} => m_stop
    /\ WorkersAt({"exited"}) = Worker => QueueLength = 0
    /\ destructor = "joined" => WorkersAt({"exited"}) = Worker

\* No two Background tasks on one worker are both in passedBy[t].
PassedByOncePerWorker ==
    \A t \in ForegroundTask : \A p, q \in passedBy[t] : p[1] = q[1] => p = q

\* The inductive invariant: what every reachable state satisfies, and what
\* every step, taken from any state that satisfies it, keeps.
IndInv ==
    /\ TypeOK
    /\ ControlOK
    /\ WaitingIsExact
    /\ WorkConserving
    /\ EachTaskInOnePlace
    /\ PassedByOncePerWorker

\* Once m_stop is set, the destructor returns, no worker sleeping through it,
\* and only with everything drained.
DestructorReturns == []DrainedWhenJoined /\ (m_stop ~> destructor = "joined")

\* The pool seen by its users.
Pool == INSTANCE TaskPool WITH
    foreground <- m_tasks,
    background <- m_background,
    running <- task

\* The queue discipline, the priority rule and run-exactly-once, as the
\* abstract pool states them, with its liveness.
ImplementsTaskPool == Pool!FairSpec
=============================================================================
