------------------------------ MODULE TaskPool ------------------------------
(***************************************************************************)
(* What a ThreadPool promises the code that submits to it, with no mutex,  *)
(* condition variable or destructor in sight: two first-in first-out       *)
(* queues, a fixed set of workers each running one task at a time, the     *)
(* Background queue served only while the Foreground queue is empty, and   *)
(* every task that was submitted run exactly once.                         *)
(*                                                                         *)
(* ThreadPool.tla implements this specification; BoundedAsync.tla is built *)
(* on it.                                                                  *)
(***************************************************************************)
EXTENDS Naturals, Sequences, FiniteSets

CONSTANTS
    Task,           \* every task a run may submit
    BackgroundTask, \* those submitted with TaskPriority::Background
    Worker,         \* the worker threads
    NoTask          \* what a worker that runs nothing runs

VARIABLES
    foreground,  \* m_tasks
    background,  \* m_background
    running,     \* the task each worker is inside, or NoTask
    finished     \* the tasks that have returned

poolVars == <<foreground, background, running, finished>>

-----------------------------------------------------------------------------
InQueue(q, t) == \E i \in 1 .. Len(q) : q[i] = t

Queued == {t \in Task : InQueue(foreground, t) \/ InQueue(background, t)}

Running == {t \in Task : \E w \in Worker : running[w] = t}

Submitted == Queued \cup Running \cup finished

Init ==
    /\ foreground = <<>>
    /\ background = <<>>
    /\ running = [w \in Worker |-> NoTask]
    /\ finished = {}

Submit(t) ==
    /\ t \notin Submitted
    /\ IF t \in BackgroundTask
         THEN /\ background' = Append(background, t)
              /\ UNCHANGED foreground
         ELSE /\ foreground' = Append(foreground, t)
              /\ UNCHANGED background
    /\ UNCHANGED <<running, finished>>

\* A free worker takes the oldest Foreground task, or, when there is none,
\* the oldest Background one.
Start(w) ==
    /\ running[w] = NoTask
    /\ \/ /\ foreground # <<>>
          /\ running' = [running EXCEPT ![w] = Head(foreground)]
          /\ foreground' = Tail(foreground)
          /\ UNCHANGED background
       \/ /\ foreground = <<>>
          /\ background # <<>>
          /\ running' = [running EXCEPT ![w] = Head(background)]
          /\ background' = Tail(background)
          /\ UNCHANGED foreground
    /\ UNCHANGED finished

Finish(w) ==
    /\ running[w] # NoTask
    /\ finished' = finished \cup {running[w]}
    /\ running' = [running EXCEPT ![w] = NoTask]
    /\ UNCHANGED <<foreground, background>>

Next ==
    \/ \E t \in Task : Submit(t)
    \/ \E w \in Worker : Start(w) \/ Finish(w)

\* Workers neither refuse a task they could take nor run one forever.
Fairness == \A w \in Worker : WF_poolVars(Start(w)) /\ WF_poolVars(Finish(w))

Spec == Init /\ [][Next]_poolVars

FairSpec == Spec /\ Fairness
=============================================================================
