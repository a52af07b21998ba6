---------------------------- MODULE TasksProofs ----------------------------
(***************************************************************************)
(* What TLAPS proves of the tasks: of ThreadPool, for every set of tasks,  *)
(* clients and workers; of BoundedAsync, for any number of callers, workers*)
(* and items, any launch order and any window; and of ProcessExec, for     *)
(* every set of concurrent calls, with or without pipe2.                   *)
(*                                                                         *)
(* No task outlives the call of run_bounded_async that launched it: a      *)
(* caller knows its tasks by a counter and a queue alone, so the invariant,*)
(* RegionsAreSafe, ties the two to the pool. The counter is the number of  *)
(* tasks that may still read the caller's data, and every task that has    *)
(* reported is in the queue, handed over or, after a throw, discarded.     *)
(*                                                                         *)
(* A call of execute_and_capture that timed out or was cancelled leaves    *)
(* nothing of its tool running and never passes its output off as an       *)
(* answer, and no tool runs once PEREDUR is dead.                          *)
(***************************************************************************)
EXTENDS ThreadPool, BoundedAsync, ProcessExec, FiniteSetTheorems, TLAPS

-----------------------------------------------------------------------------
(* The thread pool *)

-----------------------------------------------------------------------------
(* Queues *)

\* Appending to a queue adds one task to it.
LEMMA AppendIsPush ==
    ASSUME NEW S, NEW q \in Seq(S), NEW x \in S
    PROVE  /\ Append(q, x) \in Seq(S)
           /\ Len(Append(q, x)) = Len(q) + 1
           /\ \A t : InQueue(Append(q, x), t) <=> InQueue(q, t) \/ t = x
           /\ NoDuplicates(q) /\ ~InQueue(q, x) => NoDuplicates(Append(q, x))
<1>1. Append(q, x) \in Seq(S) /\ Len(Append(q, x)) = Len(q) + 1
  OBVIOUS
<1>2. /\ \A i \in 1 .. Len(q) : Append(q, x)[i] = q[i]
      /\ Append(q, x)[Len(q) + 1] = x
      /\ Len(q) \in Nat
  OBVIOUS
<1>3. \A t : InQueue(Append(q, x), t) <=> InQueue(q, t) \/ t = x
  BY <1>1, <1>2 DEF InQueue
<1>4. NoDuplicates(q) /\ ~InQueue(q, x) => NoDuplicates(Append(q, x))
  BY <1>1, <1>2 DEF NoDuplicates, InQueue
<1> QED BY <1>1, <1>3, <1>4

\* Taking the front of a queue removes exactly that task from it.
LEMMA TailIsPop ==
    ASSUME NEW S, NEW q \in Seq(S), q # <<>>
    PROVE  /\ Head(q) \in S
           /\ Tail(q) \in Seq(S)
           /\ Len(q) > 0
           /\ Len(Tail(q)) = Len(q) - 1
           /\ \A t : InQueue(q, t) <=> InQueue(Tail(q), t) \/ t = Head(q)
           /\ NoDuplicates(q) => /\ NoDuplicates(Tail(q))
                                 /\ ~InQueue(Tail(q), Head(q))
<1>1. /\ Head(q) \in S
      /\ Tail(q) \in Seq(S)
      /\ Len(q) \in Nat /\ Len(q) > 0
      /\ Len(Tail(q)) = Len(q) - 1
  OBVIOUS
<1>2. /\ Head(q) = q[1]
      /\ \A i \in 1 .. Len(q) - 1 : Tail(q)[i] = q[i + 1]
  OBVIOUS
<1>3. ASSUME NEW t PROVE InQueue(q, t) <=> InQueue(Tail(q), t) \/ t = Head(q)
  <2>1. ASSUME NEW i \in 1 .. Len(q), q[i] = t
        PROVE  InQueue(Tail(q), t) \/ t = Head(q)
    <3>1. CASE i = 1
      BY <2>1, <3>1, <1>2
    <3>2. CASE i # 1
      <4>1. i - 1 \in 1 .. Len(Tail(q)) /\ Tail(q)[i - 1] = t
        BY <2>1, <3>2, <1>1, <1>2
      <4> QED BY <4>1 DEF InQueue
    <3> QED BY <3>1, <3>2
  <2>2. ASSUME NEW i \in 1 .. Len(Tail(q)), Tail(q)[i] = t PROVE InQueue(q, t)
    <3>1. i + 1 \in 1 .. Len(q) /\ q[i + 1] = t
      BY <2>2, <1>1, <1>2
    <3> QED BY <3>1 DEF InQueue
  <2>3. InQueue(q, Head(q))
    BY <1>1, <1>2 DEF InQueue
  <2> QED BY <2>1, <2>2, <2>3 DEF InQueue
<1>4. NoDuplicates(q) => NoDuplicates(Tail(q)) /\ ~InQueue(Tail(q), Head(q))
  BY <1>1, <1>2 DEF NoDuplicates, InQueue
<1> QED BY <1>1, <1>3, <1>4

-----------------------------------------------------------------------------
(* Steps *)

\* The worker that takes a task takes the front of the queue the priority rule
\* names.
LEMMA TakeEffect ==
    ASSUME TypeOK, NEW w \in Worker, Take(w)
    PROVE  \/ /\ m_tasks # <<>>
              /\ task' = [task EXCEPT ![w] = Head(m_tasks)]
              /\ Head(m_tasks) \in ForegroundTask
              /\ m_tasks' = Tail(m_tasks)
              /\ m_tasks' \in Seq(ForegroundTask)
              /\ m_background' = m_background
           \/ /\ m_tasks = <<>>
              /\ m_background # <<>>
              /\ task' = [task EXCEPT ![w] = Head(m_background)]
              /\ Head(m_background) \in BackgroundTask
              /\ m_background' = Tail(m_background)
              /\ m_background' \in Seq(BackgroundTask)
              /\ m_tasks' = m_tasks
<1>1. m_tasks \in Seq(ForegroundTask) /\ m_background \in Seq(BackgroundTask)
  BY DEF TypeOK
<1>2. CASE m_tasks # <<>>
  <2>1. Head(m_tasks) \in ForegroundTask /\ Tail(m_tasks) \in Seq(ForegroundTask)
    BY <1>1, <1>2, TailIsPop
  <2> QED BY <1>2, <2>1 DEF Take, ServesBackground, Popped
<1>3. CASE m_tasks = <<>>
  <2>1. m_background # <<>>
    BY <1>3 DEF Take, ServesBackground, Popped, QueueLength
  <2>2. /\ Head(m_background) \in BackgroundTask
        /\ Tail(m_background) \in Seq(BackgroundTask)
    BY <1>1, <2>1, TailIsPop
  <2> QED BY <1>3, <2>1, <2>2 DEF Take, ServesBackground, Popped
<1> QED BY <1>2, <1>3

-----------------------------------------------------------------------------
(* Types *)

LEMMA TypeInit == Init => TypeOK
<1> SUFFICES ASSUME Init PROVE TypeOK
  OBVIOUS
<1>1. m_tasks \in Seq(ForegroundTask) /\ m_background \in Seq(BackgroundTask)
  BY DEF Init
<1>2. passedBy \in [ForegroundTask -> SUBSET (Worker \X BackgroundTask)]
  BY DEF Init
<1>3. pc \in [Worker -> WorkerPC] /\ task \in [Worker -> Task \cup {NoTask}]
  BY DEF Init, WorkerPC
<1>4. m_stop \in BOOLEAN
  BY DEF Init
<1>5. /\ m_waiting \in Int
      /\ notifying \subseteq Client \cup Worker
      /\ destructor \in {"idle", "stopped", "joining", "joined"}
      /\ finished \subseteq Task
  BY DEF Init
<1> QED BY <1>1, <1>2, <1>3, <1>4, <1>5 DEF TypeOK

LEMMA TypeStep == TypeOK /\ ControlOK /\ [Next]_vars => TypeOK'
<1> SUFFICES ASSUME TypeOK, ControlOK, [Next]_vars PROVE TypeOK'
  OBVIOUS
<1> USE DEF TypeOK, WorkerPC
<1>1. ASSUME NEW c \in Client \cup Worker, NEW t \in Task, Push(c, t)
      PROVE  TypeOK'
  <2>1. CASE t \in BackgroundTask
    <3>1. m_background' = Append(m_background, t)
      BY <1>1, <2>1 DEF Push, IsBackground
    <3>2. m_background' \in Seq(BackgroundTask)
      BY <2>1, <3>1, AppendIsPush
    <3> QED BY <1>1, <2>1, <3>2 DEF Push, IsBackground
  <2>2. CASE t \notin BackgroundTask
    <3>0. m_tasks' = Append(m_tasks, t) /\ t \in ForegroundTask
      BY <1>1, <2>2 DEF Push, IsBackground, ForegroundTask
    <3>1. m_tasks' \in Seq(ForegroundTask)
      BY <3>0, AppendIsPush
    <3>2. {<<w, task[w]>> : w \in {v \in Worker : task[v] \in BackgroundTask}}
            \in SUBSET (Worker \X BackgroundTask)
      OBVIOUS
    <3>3. passedBy' \in [ForegroundTask -> SUBSET (Worker \X BackgroundTask)]
      BY <1>1, <2>2, <3>2 DEF Push, IsBackground
    <3> QED BY <1>1, <2>2, <3>1, <3>3 DEF Push, IsBackground
  <2> QED BY <2>1, <2>2
<1>2. ASSUME NEW c \in Client \cup Worker, NotifyOne(c) PROVE TypeOK'
  BY <1>2 DEF NotifyOne, WorkersAt
<1>3. ASSUME NEW w \in Worker, Park(w) PROVE TypeOK'
  BY <1>3 DEF Park, CountedWaiting
<1>4. ASSUME NEW w \in Worker, Take(w) PROVE TypeOK'
  <2>1. /\ m_tasks' \in Seq(ForegroundTask)
        /\ m_background' \in Seq(BackgroundTask)
        /\ task' \in [Worker -> Task \cup {NoTask}]
    BY <1>4, TakeEffect, ThreadPoolAssumption DEF ForegroundTask
  <2>2. passedBy' \in [ForegroundTask -> SUBSET (Worker \X BackgroundTask)]
    BY <1>4 DEF Take, ServesBackground, Popped
  <2>3. pc' \in [Worker -> WorkerPC] /\ m_waiting' \in Int
    BY <1>4 DEF Take, ServesBackground, Popped, CountedWaiting
  <2> QED BY <1>4, <2>1, <2>2, <2>3 DEF Take, ServesBackground, Popped
<1>5. ASSUME NEW w \in Worker, Exit(w) PROVE TypeOK'
  BY <1>5 DEF Exit, MayExit, CountedWaiting
<1>6. ASSUME NEW w \in Worker, Finish(w) PROVE TypeOK'
  <2>1. task[w] \in Task
    BY <1>6 DEF Finish, ControlOK
  <2> QED BY <1>6, <2>1 DEF Finish
<1>7. ASSUME NEW w \in Worker, SpuriousWakeup(w) PROVE TypeOK'
  BY <1>7 DEF SpuriousWakeup
<1>8. CASE Stop \/ NotifyAll \/ Joined
  BY <1>8 DEF Stop, NotifyAll, Joined
<1>9. CASE UNCHANGED vars
  BY <1>9 DEF vars
<1> QED BY <1>1, <1>2, <1>3, <1>4, <1>5, <1>6, <1>7, <1>8, <1>9
        DEF Next, WorkerStep
-----------------------------------------------------------------------------
(* Control *)

LEMMA ControlInit == Init => ControlOK
<1> SUFFICES ASSUME Init PROVE ControlOK
  OBVIOUS
<1>1. WorkersAt({"exited"}) = {}
  BY DEF Init, WorkersAt
<1>2. IsFiniteSet({})
  BY FS_EmptySet
<1> QED BY <1>1, <1>2, ThreadPoolAssumption DEF Init, ControlOK, QueueLength

LEMMA ControlStep == TypeOK /\ ControlOK /\ [Next]_vars => ControlOK'
<1> SUFFICES ASSUME TypeOK, ControlOK, [Next]_vars PROVE ControlOK'
  OBVIOUS
<1>0. /\ m_tasks \in Seq(ForegroundTask) /\ m_background \in Seq(BackgroundTask)
      /\ Len(m_tasks) \in Nat /\ Len(m_background) \in Nat
      /\ pc \in [Worker -> WorkerPC]
      /\ task \in [Worker -> Task \cup {NoTask}]
  BY DEF TypeOK
<1> USE <1>0 DEF ControlOK, WorkersAt
<1>1. ASSUME NEW c \in Client \cup Worker, NEW t \in Task, Push(c, t)
      PROVE  ControlOK'
  <2>1. IsFiniteSet(notifying')
    BY <1>1, FS_AddElement DEF Push, IsBackground
  <2>2. notifying' \cap Worker \subseteq {w \in Worker : pc'[w] \in {"run"}}
    BY <1>1, ThreadPoolAssumption DEF Push, IsBackground, MaySubmit
  <2>3. {w \in Worker : pc'[w] \in {"exited"}} # Worker
    BY <1>1, ThreadPoolAssumption DEF Push, IsBackground, MaySubmit
  <2> QED BY <1>1, <2>1, <2>2, <2>3 DEF Push, IsBackground
<1>2. ASSUME NEW c \in Client \cup Worker, NotifyOne(c) PROVE ControlOK'
  <2>1. IsFiniteSet(notifying')
    BY <1>2, FS_RemoveElement DEF NotifyOne
  <2>2. \A w \in Worker : pc'[w] = pc[w] \/ (pc[w] = "parked" /\ pc'[w] = "woken")
    BY <1>2 DEF NotifyOne
  <2> QED BY <1>2, <2>1, <2>2 DEF NotifyOne, QueueLength
<1>3. ASSUME NEW w \in Worker, Park(w) PROVE ControlOK'
  BY <1>3 DEF Park, QueueLength
<1>4. ASSUME NEW w \in Worker, Take(w) PROVE ControlOK'
  <2>1. /\ task'[w] # NoTask /\ pc'[w] = "run"
        /\ \A v \in Worker \ {w} : task'[v] = task[v] /\ pc'[v] = pc[v]
    <3>1. PICK t \in Task : task' = [task EXCEPT ![w] = t]
      BY <1>4, TakeEffect, ThreadPoolAssumption DEF ForegroundTask
    <3>2. pc' = [pc EXCEPT ![w] = "run"]
      BY <1>4 DEF Take, ServesBackground, Popped
    <3> QED BY <3>1, <3>2, ThreadPoolAssumption
  <2> QED BY <1>4, <2>1 DEF Take, ServesBackground, Popped
<1>5. ASSUME NEW w \in Worker, Exit(w) PROVE ControlOK'
  BY <1>5 DEF Exit, MayExit, QueueLength
<1>6. ASSUME NEW w \in Worker, Finish(w) PROVE ControlOK'
  BY <1>6 DEF Finish, QueueLength
<1>7. ASSUME NEW w \in Worker, SpuriousWakeup(w) PROVE ControlOK'
  BY <1>7 DEF SpuriousWakeup, QueueLength
<1>8. CASE Stop
  BY <1>8 DEF Stop, QueueLength
<1>9. CASE NotifyAll
  <2>1. \A w \in Worker : pc'[w] = pc[w] \/ (pc[w] = "parked" /\ pc'[w] = "woken")
    BY <1>9 DEF NotifyAll
  <2> QED BY <1>9, <2>1 DEF NotifyAll, QueueLength
<1>10. CASE Joined
  BY <1>10 DEF Joined, QueueLength
<1>11. CASE UNCHANGED vars
  BY <1>11 DEF vars, QueueLength
<1> QED BY <1>1, <1>2, <1>3, <1>4, <1>5, <1>6, <1>7, <1>8, <1>9, <1>10, <1>11
        DEF Next, WorkerStep

-----------------------------------------------------------------------------
(* Counting workers *)

\* The workers at a place are finitely many, and one worker that enters or
\* leaves the place changes their number by one.
LEMMA WorkersFinite ==
    ASSUME NEW places
    PROVE  /\ IsFiniteSet(WorkersAt(places))
           /\ Cardinality(WorkersAt(places)) \in Nat
<1>1. WorkersAt(places) \subseteq Worker
  BY DEF WorkersAt
<1> QED BY <1>1, ThreadPoolAssumption, FS_Subset, FS_CardinalityType

LEMMA WorkerEnters ==
    ASSUME NEW places, NEW w \in Worker,
           pc[w] \notin places, pc'[w] \in places,
           \A v \in Worker \ {w} : pc'[v] = pc[v]
    PROVE  Cardinality(WorkersAt(places)') = Cardinality(WorkersAt(places)) + 1
<1>1. /\ WorkersAt(places)' = WorkersAt(places) \cup {w}
      /\ w \notin WorkersAt(places)
  BY DEF WorkersAt
<1> QED BY <1>1, WorkersFinite, FS_AddElement

LEMMA WorkerLeaves ==
    ASSUME NEW places, NEW w \in Worker,
           pc[w] \in places, pc'[w] \notin places,
           \A v \in Worker \ {w} : pc'[v] = pc[v]
    PROVE  Cardinality(WorkersAt(places)') = Cardinality(WorkersAt(places)) - 1
<1>1. /\ WorkersAt(places)' = WorkersAt(places) \ {w}
      /\ w \in WorkersAt(places)
  BY DEF WorkersAt
<1> QED BY <1>1, WorkersFinite, FS_RemoveElement

LEMMA WorkersStay ==
    ASSUME NEW places, \A v \in Worker : pc'[v] \in places <=> pc[v] \in places
    PROVE  WorkersAt(places)' = WorkersAt(places)
BY DEF WorkersAt

-----------------------------------------------------------------------------
(* The counter and the wakeups *)

LEMMA WaitingStep ==
    TypeOK /\ ControlOK /\ WaitingIsExact /\ [Next]_vars => WaitingIsExact'
<1> SUFFICES ASSUME TypeOK, ControlOK, WaitingIsExact, [Next]_vars
             PROVE  WaitingIsExact'
  OBVIOUS
<1> DEFINE inWait == {"parked", "woken"}
<1>0. /\ pc \in [Worker -> WorkerPC]
      /\ m_waiting = Cardinality(WorkersAt(inWait))
      /\ m_waiting \in Nat
  BY WorkersFinite DEF TypeOK, WaitingIsExact
<1>a. ASSUME m_waiting' = m_waiting,
             \A v \in Worker : pc'[v] \in inWait <=> pc[v] \in inWait
      PROVE  WaitingIsExact'
  BY <1>0, <1>a, WorkersStay DEF WaitingIsExact
<1>1. ASSUME NEW c \in Client \cup Worker, NEW t \in Task, Push(c, t)
      PROVE  WaitingIsExact'
  BY <1>1, <1>a DEF Push, IsBackground
<1>2. ASSUME NEW c \in Client \cup Worker, NotifyOne(c) PROVE WaitingIsExact'
  <2>1. \A v \in Worker : pc'[v] = pc[v] \/ (pc[v] = "parked" /\ pc'[v] = "woken")
    BY <1>0, <1>2 DEF NotifyOne, WorkersAt
  <2> QED BY <1>2, <2>1, <1>a DEF NotifyOne
<1>3. ASSUME NEW w \in Worker, Park(w) PROVE WaitingIsExact'
  <2>1. pc' = [pc EXCEPT ![w] = "parked"]
    BY <1>3 DEF Park
  <2>2. CASE pc[w] = "lock"
    <3>1. m_waiting' = m_waiting + 1
      BY <1>3, <2>2 DEF Park, CountedWaiting
    <3>2. Cardinality(WorkersAt(inWait)') = Cardinality(WorkersAt(inWait)) + 1
      BY <1>0, <2>1, <2>2, WorkerEnters
    <3> QED BY <1>0, <3>1, <3>2 DEF WaitingIsExact
  <2>3. CASE pc[w] = "woken"
    BY <1>0, <1>3, <2>1, <2>3, <1>a DEF Park, CountedWaiting
  <2> QED BY <1>3, <2>2, <2>3 DEF Park
<1>4. ASSUME NEW w \in Worker, Take(w) \/ Exit(w) PROVE WaitingIsExact'
  <2>1. /\ pc[w] \in {"lock", "woken"}
        /\ pc'[w] \notin inWait
        /\ \A v \in Worker \ {w} : pc'[v] = pc[v]
        /\ m_waiting' = CountedWaiting(w) - 1
    BY <1>0, <1>4 DEF Take, ServesBackground, Popped, Exit, MayExit
  <2>2. CASE pc[w] = "lock"
    BY <1>0, <2>1, <2>2, <1>a DEF CountedWaiting
  <2>3. CASE pc[w] = "woken"
    <3>1. m_waiting' = m_waiting - 1
      BY <2>1, <2>3 DEF CountedWaiting
    <3>2. Cardinality(WorkersAt(inWait)') = Cardinality(WorkersAt(inWait)) - 1
      BY <2>1, <2>3, WorkerLeaves
    <3> QED BY <1>0, <3>1, <3>2 DEF WaitingIsExact
  <2> QED BY <2>1, <2>2, <2>3
<1>5. ASSUME NEW w \in Worker, Finish(w) \/ SpuriousWakeup(w)
      PROVE  WaitingIsExact'
  BY <1>0, <1>5, <1>a DEF Finish, SpuriousWakeup
<1>6. CASE Stop \/ Joined
  BY <1>6, <1>a DEF Stop, Joined
<1>7. CASE NotifyAll
  BY <1>0, <1>7, <1>a DEF NotifyAll
<1>8. CASE UNCHANGED vars
  BY <1>8, <1>a DEF vars
<1> QED BY <1>1, <1>2, <1>3, <1>4, <1>5, <1>6, <1>7, <1>8 DEF Next, WorkerStep

LEMMA WorkConservingStep ==
    TypeOK /\ ControlOK /\ WorkConserving /\ [Next]_vars => WorkConserving'
<1> SUFFICES ASSUME TypeOK, ControlOK, WorkConserving, [Next]_vars
             PROVE  WorkConserving'
  OBVIOUS
<1> DEFINE onTheWay == {"lock", "woken"}
           parked   == {"parked"}
<1>0. /\ m_tasks \in Seq(ForegroundTask) /\ m_background \in Seq(BackgroundTask)
      /\ Len(m_tasks) \in Nat /\ Len(m_background) \in Nat
      /\ QueueLength \in Nat
      /\ pc \in [Worker -> WorkerPC]
      /\ IsFiniteSet(notifying)
      /\ Cardinality(notifying) \in Nat
      /\ Cardinality(WorkersAt(onTheWay)) \in Nat
      /\ Cardinality(WorkersAt(onTheWay)') \in Nat
  <2>1. WorkersAt(onTheWay)' \subseteq Worker
    BY DEF WorkersAt
  <2>2. Cardinality(WorkersAt(onTheWay)') \in Nat
    BY <2>1, ThreadPoolAssumption, FS_Subset, FS_CardinalityType
  <2> QED BY <2>2, WorkersFinite, FS_CardinalityType DEF TypeOK, ControlOK, QueueLength
<1>1. ASSUME NEW c \in Client \cup Worker, NEW t \in Task, Push(c, t)
      PROVE  WorkConserving'
  <2>1. QueueLength' = QueueLength + 1
    <3>1. CASE t \in BackgroundTask
      BY <1>0, <1>1, <3>1, AppendIsPush DEF Push, IsBackground, QueueLength
    <3>2. CASE t \notin BackgroundTask
      BY <1>0, <1>1, <3>2, AppendIsPush DEF Push, IsBackground, QueueLength, ForegroundTask
    <3> QED BY <3>1, <3>2
  <2>2. Cardinality(notifying') = Cardinality(notifying) + 1
    BY <1>0, <1>1, FS_AddElement DEF Push, IsBackground, MaySubmit
  <2>3. /\ WorkersAt(onTheWay)' = WorkersAt(onTheWay)
        /\ WorkersAt(parked)' = WorkersAt(parked)
    BY <1>1 DEF Push, IsBackground, WorkersAt
  <2> QED BY <1>0, <2>1, <2>2, <2>3 DEF WorkConserving
<1>2. ASSUME NEW c \in Client \cup Worker, NotifyOne(c) PROVE WorkConserving'
  <2>1. /\ Cardinality(notifying') = Cardinality(notifying) - 1
        /\ QueueLength' = QueueLength
    BY <1>0, <1>2, FS_RemoveElement DEF NotifyOne, QueueLength
  <2>2. CASE WorkersAt(parked) = {} /\ UNCHANGED pc
    BY <2>2 DEF WorkConserving, WorkersAt
  <2>3. ASSUME NEW w \in WorkersAt(parked), pc' = [pc EXCEPT ![w] = "woken"]
        PROVE  WorkConserving'
    <3>1. Cardinality(WorkersAt(onTheWay)') = Cardinality(WorkersAt(onTheWay)) + 1
      BY <1>0, <2>3, WorkerEnters DEF WorkersAt
    <3>2. WorkersAt(parked) # {}
      BY <2>3
    <3> QED BY <1>0, <2>1, <3>1, <3>2 DEF WorkConserving
  <2> QED BY <1>2, <2>2, <2>3 DEF NotifyOne
<1>3. ASSUME NEW w \in Worker, Park(w) \/ Exit(w) PROVE WorkConserving'
  <2>1. QueueLength' = 0 /\ notifying' = notifying
    BY <1>3 DEF Park, Exit, MayExit, QueueLength
  <2> QED BY <1>0, <2>1 DEF WorkConserving
<1>4. ASSUME NEW w \in Worker, Take(w) PROVE WorkConserving'
  <2>1. /\ pc[w] \in onTheWay
        /\ pc' = [pc EXCEPT ![w] = "run"]
        /\ notifying' = notifying
    BY <1>4 DEF Take, ServesBackground, Popped
  <2>2. QueueLength' = QueueLength - 1
    <3>1. CASE m_tasks # <<>>
      <4>1. m_tasks' = Tail(m_tasks) /\ m_background' = m_background
        BY <1>4, <3>1, TakeEffect
      <4>2. Len(m_tasks') = Len(m_tasks) - 1
        BY <1>0, <3>1, <4>1, TailIsPop
      <4>3. Len(m_background') = Len(m_background)
        BY <4>1
      <4> QED BY <1>0, <4>2, <4>3 DEF QueueLength
    <3>2. CASE m_tasks = <<>>
      <4>1. /\ m_background # <<>>
            /\ m_background' = Tail(m_background) /\ m_tasks' = m_tasks
        BY <1>4, <3>2, TakeEffect
      <4>2. Len(m_background') = Len(m_background) - 1
        BY <1>0, <4>1, TailIsPop
      <4>3. Len(m_tasks') = Len(m_tasks)
        BY <4>1
      <4> QED BY <1>0, <4>2, <4>3 DEF QueueLength
    <3> QED BY <3>1, <3>2
  <2>3. Cardinality(WorkersAt(onTheWay)') = Cardinality(WorkersAt(onTheWay)) - 1
    BY <1>0, <2>1, WorkerLeaves
  <2>4. WorkersAt(parked)' = WorkersAt(parked)
    BY <1>0, <2>1 DEF WorkersAt
  <2> QED BY <1>0, <2>1, <2>2, <2>3, <2>4 DEF WorkConserving
<1>5. ASSUME NEW w \in Worker, Finish(w) \/ SpuriousWakeup(w)
      PROVE  WorkConserving'
  <2>1. /\ pc[w] \in {"run", "parked"} /\ pc'[w] \in onTheWay
        /\ \A v \in Worker \ {w} : pc'[v] = pc[v]
        /\ notifying' = notifying /\ QueueLength' = QueueLength
    BY <1>0, <1>5 DEF Finish, SpuriousWakeup, QueueLength
  <2>2. Cardinality(WorkersAt(onTheWay)') = Cardinality(WorkersAt(onTheWay)) + 1
    BY <2>1, WorkerEnters
  <2>3. WorkersAt(parked)' \subseteq WorkersAt(parked)
    BY <2>1 DEF WorkersAt
  <2> QED BY <1>0, <2>1, <2>2, <2>3 DEF WorkConserving
<1>6. CASE NotifyAll
  <2>1. WorkersAt(parked)' = {}
    BY <1>0, <1>6 DEF NotifyAll, WorkersAt
  <2> QED BY <2>1 DEF WorkConserving
<1>7. CASE Stop \/ Joined \/ UNCHANGED vars
  BY <1>7 DEF Stop, Joined, vars, WorkConserving, WorkersAt, QueueLength
<1> QED BY <1>1, <1>2, <1>3, <1>4, <1>5, <1>6, <1>7 DEF Next, WorkerStep

-----------------------------------------------------------------------------
(* Where the tasks are *)

LEMMA PlacesStep ==
    TypeOK /\ ControlOK /\ EachTaskInOnePlace /\ [Next]_vars => EachTaskInOnePlace'
<1> SUFFICES ASSUME TypeOK, ControlOK, EachTaskInOnePlace, [Next]_vars
             PROVE  EachTaskInOnePlace'
  OBVIOUS
<1>0. /\ m_tasks \in Seq(ForegroundTask) /\ m_background \in Seq(BackgroundTask)
      /\ task \in [Worker -> Task \cup {NoTask}]
      /\ ForegroundTask \subseteq Task /\ BackgroundTask \subseteq Task
      /\ NoTask \notin Task
  BY ThreadPoolAssumption DEF TypeOK, ForegroundTask
<1>a. ASSUME UNCHANGED <<m_tasks, m_background, task, finished>>
      PROVE  EachTaskInOnePlace'
  BY <1>a DEF EachTaskInOnePlace, Queued, Running
<1>1. ASSUME NEW c \in Client \cup Worker, NEW t \in Task, Push(c, t)
      PROVE  EachTaskInOnePlace'
  <2>1. /\ task' = task /\ finished' = finished
        /\ t \notin Queued /\ t \notin Running /\ t \notin finished
    BY <1>1 DEF Push, IsBackground, Submitted
  <2>2. /\ \A u \in Task : u \in Queued' <=> u \in Queued \/ u = t
        /\ NoDuplicates(m_tasks') /\ NoDuplicates(m_background')
    <3>1. ~InQueue(m_tasks, t) /\ ~InQueue(m_background, t)
      BY <2>1 DEF Queued
    <3>2. CASE t \in BackgroundTask
      <4>1. m_background' = Append(m_background, t) /\ m_tasks' = m_tasks
        BY <1>1, <3>2 DEF Push, IsBackground
      <4> QED BY <1>0, <3>1, <3>2, <4>1, AppendIsPush
              DEF Queued, EachTaskInOnePlace
    <3>3. CASE t \notin BackgroundTask
      <4>1. m_tasks' = Append(m_tasks, t) /\ m_background' = m_background
        BY <1>1, <3>3 DEF Push, IsBackground
      <4> QED BY <1>0, <3>1, <3>3, <4>1, AppendIsPush
              DEF Queued, EachTaskInOnePlace, ForegroundTask
    <3> QED BY <3>2, <3>3
  <2>3. Running' = Running /\ Queued' \subseteq Task
    BY <2>1 DEF Running, Queued
  <2> QED BY <2>1, <2>2, <2>3 DEF EachTaskInOnePlace
<1>2. ASSUME NEW w \in Worker, Take(w) PROVE EachTaskInOnePlace'
  <2>1. PICK t \in Task :
          /\ task' = [task EXCEPT ![w] = t]
          /\ t \in Queued
          /\ \A u \in Task : u \in Queued <=> u \in Queued' \/ u = t
          /\ t \notin Queued'
          /\ NoDuplicates(m_tasks') /\ NoDuplicates(m_background')
    <3>1. NoDuplicates(m_tasks) /\ NoDuplicates(m_background)
      BY DEF EachTaskInOnePlace
    <3>2. CASE m_tasks # <<>>
      <4> DEFINE t == Head(m_tasks)
      <4>1. /\ task' = [task EXCEPT ![w] = t]
            /\ t \in ForegroundTask
            /\ m_tasks' = Tail(m_tasks)
            /\ m_background' = m_background
        BY <1>2, <3>2, TakeEffect
      <4>2. /\ \A u : InQueue(m_tasks, u) <=> InQueue(m_tasks', u) \/ u = t
            /\ NoDuplicates(m_tasks') /\ ~InQueue(m_tasks', t)
        BY <1>0, <3>1, <3>2, <4>1, TailIsPop
      <4>3. ~InQueue(m_background, t)
        BY <1>0, <4>1 DEF InQueue, ForegroundTask
      <4> QED BY <1>0, <3>1, <4>1, <4>2, <4>3 DEF Queued
    <3>3. CASE m_tasks = <<>>
      <4> DEFINE t == Head(m_background)
      <4>1. /\ m_background # <<>>
            /\ task' = [task EXCEPT ![w] = t]
            /\ t \in BackgroundTask
            /\ m_background' = Tail(m_background)
            /\ m_tasks' = m_tasks
        BY <1>2, <3>3, TakeEffect
      <4>2. /\ \A u : InQueue(m_background, u) <=> InQueue(m_background', u) \/ u = t
            /\ NoDuplicates(m_background') /\ ~InQueue(m_background', t)
        BY <1>0, <3>1, <4>1, TailIsPop
      <4>3. ~InQueue(m_tasks, t)
        BY <1>0, <4>1 DEF InQueue, ForegroundTask
      <4> QED BY <1>0, <3>1, <4>1, <4>2, <4>3 DEF Queued
    <3> QED BY <3>2, <3>3
  <2>2. task[w] = NoTask /\ finished' = finished
    BY <1>2 DEF Take, ServesBackground, Popped, ControlOK
  <2>3. \A u \in Task : u \in Running' <=> u \in Running \/ u = t
    BY <1>0, <2>1, <2>2 DEF Running
  <2>4. t \notin Running /\ t \notin finished
    BY <2>1 DEF EachTaskInOnePlace
  <2>5. \A v, x \in Worker : task'[v] = task'[x] /\ task'[v] # NoTask => v = x
    BY <1>0, <2>1, <2>4 DEF EachTaskInOnePlace, Running
  <2>6. Queued' \subseteq Task /\ Running' \subseteq Task
    BY DEF Queued, Running
  <2> QED BY <2>1, <2>2, <2>3, <2>4, <2>5, <2>6 DEF EachTaskInOnePlace
<1>3. ASSUME NEW w \in Worker, Finish(w) PROVE EachTaskInOnePlace'
  <2>1. /\ Queued' = Queued
        /\ m_tasks' = m_tasks /\ m_background' = m_background
        /\ finished' = finished \cup {task[w]}
        /\ task' = [task EXCEPT ![w] = NoTask]
        /\ task[w] \in Running
    BY <1>0, <1>3 DEF Finish, Queued, Running, ControlOK
  <2>2. Running' = Running \ {task[w]}
    BY <1>0, <2>1 DEF Running, EachTaskInOnePlace
  <2>3. \A v, x \in Worker : task'[v] = task'[x] /\ task'[v] # NoTask => v = x
    BY <1>0, <2>1 DEF EachTaskInOnePlace
  <2> QED BY <2>1, <2>2, <2>3 DEF EachTaskInOnePlace
<1>4. ASSUME NEW c \in Client \cup Worker, NotifyOne(c) PROVE EachTaskInOnePlace'
  BY <1>4, <1>a DEF NotifyOne
<1>5. ASSUME NEW w \in Worker, Park(w) \/ Exit(w) \/ SpuriousWakeup(w)
      PROVE  EachTaskInOnePlace'
  BY <1>5, <1>a DEF Park, Exit, MayExit, SpuriousWakeup
<1>6. CASE Stop \/ NotifyAll \/ Joined \/ UNCHANGED vars
  BY <1>6, <1>a DEF Stop, NotifyAll, Joined, vars
<1> QED BY <1>1, <1>2, <1>3, <1>4, <1>5, <1>6 DEF Next, WorkerStep

-----------------------------------------------------------------------------
(* Waiting behind Background tasks *)

LEMMA PassedByStep ==
    TypeOK /\ PassedByOncePerWorker /\ [Next]_vars => PassedByOncePerWorker'
<1> SUFFICES ASSUME TypeOK, PassedByOncePerWorker, [Next]_vars
             PROVE  PassedByOncePerWorker'
  OBVIOUS
<1>0. /\ passedBy \in [ForegroundTask -> SUBSET (Worker \X BackgroundTask)]
      /\ task \in [Worker -> Task \cup {NoTask}]
  BY DEF TypeOK
<1>a. passedBy' = passedBy => PassedByOncePerWorker'
  BY DEF PassedByOncePerWorker
<1>1. ASSUME NEW c \in Client \cup Worker, NEW t \in Task, Push(c, t)
      PROVE  PassedByOncePerWorker'
  <2>1. CASE t \in BackgroundTask
    BY <1>1, <2>1, <1>a DEF Push, IsBackground
  <2>2. CASE t \notin BackgroundTask
    <3> DEFINE now == {<<w, task[w]>> : w \in {v \in Worker : task[v] \in BackgroundTask}}
    <3>1. passedBy' = [passedBy EXCEPT ![t] = now]
      BY <1>1, <2>2 DEF Push, IsBackground
    <3>2. \A p, q \in now : p[1] = q[1] => p = q
      OBVIOUS
    <3> QED BY <1>0, <3>1, <3>2 DEF PassedByOncePerWorker
  <2> QED BY <2>1, <2>2
<1>2. ASSUME NEW w \in Worker, Take(w) PROVE PassedByOncePerWorker'
  <2>1. passedBy' = [t \in ForegroundTask |->
           IF InQueue(m_tasks, t) /\ task'[w] \in BackgroundTask
             THEN passedBy[t] \cup {<<w, task'[w]>>}
             ELSE passedBy[t]]
    BY <1>2 DEF Take, ServesBackground, Popped
  <2>2. CASE m_tasks # <<>>
    <3>1. task'[w] \notin BackgroundTask
      BY <1>0, <1>2, <2>2, TakeEffect DEF ForegroundTask
    <3> QED BY <1>0, <2>1, <3>1 DEF PassedByOncePerWorker
  <2>3. CASE m_tasks = <<>>
    <3>1. \A t : ~InQueue(m_tasks, t)
      BY <2>3 DEF InQueue
    <3> QED BY <1>0, <2>1, <3>1 DEF PassedByOncePerWorker
  <2> QED BY <2>2, <2>3
<1>3. ASSUME NEW c \in Client \cup Worker, NotifyOne(c)
      PROVE  PassedByOncePerWorker'
  BY <1>3, <1>a DEF NotifyOne
<1>4. ASSUME NEW w \in Worker,
             Park(w) \/ Exit(w) \/ Finish(w) \/ SpuriousWakeup(w)
      PROVE  PassedByOncePerWorker'
  BY <1>4, <1>a DEF Park, Exit, MayExit, Finish, SpuriousWakeup
<1>5. CASE Stop \/ NotifyAll \/ Joined \/ UNCHANGED vars
  BY <1>5, <1>a DEF Stop, NotifyAll, Joined, vars
<1> QED BY <1>1, <1>2, <1>3, <1>4, <1>5 DEF Next, WorkerStep

-----------------------------------------------------------------------------
(* Theorems *)

\* The inductive invariant holds in every reachable state of the pool.
THEOREM InductiveInvariant == Spec => []IndInv
<1>1. Init => IndInv
  <2> SUFFICES ASSUME Init PROVE IndInv
    OBVIOUS
  <2>1. WaitingIsExact
    <3>1. WorkersAt({"parked", "woken"}) = {}
      BY DEF Init, WorkersAt
    <3> QED BY <3>1, FS_EmptySet DEF Init, WaitingIsExact
  <2>2. WorkConserving
    BY DEF Init, WorkConserving, WorkersAt
  <2>3. EachTaskInOnePlace
    BY ThreadPoolAssumption
       DEF Init, EachTaskInOnePlace, NoDuplicates, Queued, Running, InQueue
  <2>4. PassedByOncePerWorker
    BY DEF Init, PassedByOncePerWorker
  <2> QED BY <2>1, <2>2, <2>3, <2>4, TypeInit, ControlInit DEF IndInv
<1>2. IndInv /\ [Next]_vars => IndInv'
  BY TypeStep, ControlStep, WaitingStep, WorkConservingStep, PlacesStep,
     PassedByStep DEF IndInv
<1> QED BY <1>1, <1>2, PTL DEF Spec

\* The type invariant, for every instance of the pool.
THEOREM TypeCorrect == Spec => []TypeOK
BY InductiveInvariant, PTL DEF IndInv

\* No task is lost or run twice.
THEOREM NoTaskLostOrRepeated == Spec => []EachTaskInOnePlace
BY InductiveInvariant, PTL DEF IndInv

\* No wakeup is lost between submit's push and its notify_one.
THEOREM NoLostWakeup == Spec => []WorkConserving
BY InductiveInvariant, PTL DEF IndInv

\* idle_workers() counts workers that are there.
THEOREM WaitingCounted == Spec => []WaitingIsExact
BY InductiveInvariant, PTL DEF IndInv

\* When the destructor returns, every accepted task has run.
THEOREM DestructorDrains == Spec => []DrainedWhenJoined
<1>1. IndInv => DrainedWhenJoined
  <2> SUFFICES ASSUME IndInv, destructor = "joined"
               PROVE  Queued = {} /\ Running = {}
    BY DEF DrainedWhenJoined
  <2>1. QueueLength = 0 /\ \A w \in Worker : task[w] = NoTask
    BY DEF IndInv, ControlOK, WorkersAt
  <2>2. Len(m_tasks) = 0 /\ Len(m_background) = 0
    BY <2>1 DEF IndInv, TypeOK, QueueLength
  <2> QED BY <2>1, <2>2, ThreadPoolAssumption DEF Queued, Running, InQueue
<1> QED BY <1>1, InductiveInvariant, PTL

\* A Foreground task waits behind at most one Background task per worker.
THEOREM ForegroundWaitsBehindOne == Spec => []WaitsBehindOneBackgroundPerWorker
<1>1. IndInv => WaitsBehindOneBackgroundPerWorker
  <2> SUFFICES ASSUME IndInv, NEW t \in ForegroundTask, NEW w \in Worker
               PROVE  Cardinality({p \in passedBy[t] : p[1] = w}) <= 1
    BY DEF WaitsBehindOneBackgroundPerWorker
  <2> DEFINE P == {p \in passedBy[t] : p[1] = w}
  <2>1. \A p, q \in P : p = q
    BY DEF IndInv, PassedByOncePerWorker
  <2>2. CASE P = {}
    BY <2>2, FS_EmptySet
  <2>3. CASE P # {}
    <3>1. PICK p \in P : P = {p}
      BY <2>1, <2>3
    <3> QED BY <3>1, FS_Singleton
  <2> QED BY <2>2, <2>3
<1> QED BY <1>1, InductiveInvariant, PTL

\* The pool with its mutex, condition variable and destructor implements the
\* abstract pool: every step of a thread is a submission, a start, an end of a
\* task, or invisible to the pool's users.
THEOREM Refinement == Spec => Pool!Spec
<1>1. Init => Pool!Init
  BY DEF Init, Pool!Init
<1>2. IndInv /\ [Next]_vars => [Pool!Next]_(Pool!poolVars)
  <2> SUFFICES ASSUME IndInv, [Next]_vars PROVE [Pool!Next]_(Pool!poolVars)
    OBVIOUS
  <2>1. ASSUME NEW c \in Client \cup Worker, NEW t \in Task, Push(c, t)
        PROVE  Pool!Submit(t)
    BY <2>1 DEF Push, IsBackground, Pool!Submit, Pool!Submitted, Pool!Queued, Pool!Running,
                Pool!InQueue, Submitted, Queued, Running, InQueue
  <2>2. ASSUME NEW w \in Worker, Take(w) PROVE Pool!Start(w)
    <3>1. task[w] = NoTask
      BY <2>2 DEF Take, ServesBackground, Popped, IndInv, ControlOK
    <3> QED BY <2>2, <3>1, TakeEffect DEF Pool!Start, IndInv, Take, ServesBackground, Popped
  <2>3. ASSUME NEW w \in Worker, Finish(w) PROVE Pool!Finish(w)
    BY <2>3 DEF Finish, Pool!Finish, IndInv, ControlOK
  <2>4. ASSUME NEW c \in Client \cup Worker, NotifyOne(c)
        PROVE  UNCHANGED Pool!poolVars
    BY <2>4 DEF NotifyOne, Pool!poolVars
  <2>5. ASSUME NEW w \in Worker, Park(w) \/ Exit(w) \/ SpuriousWakeup(w)
        PROVE  UNCHANGED Pool!poolVars
    BY <2>5 DEF Park, Exit, MayExit, SpuriousWakeup, Pool!poolVars
  <2>6. CASE Stop \/ NotifyAll \/ Joined \/ UNCHANGED vars
    BY <2>6 DEF Stop, NotifyAll, Joined, vars, Pool!poolVars
  <2> QED BY <2>1, <2>2, <2>3, <2>4, <2>5, <2>6 DEF Next, WorkerStep, Pool!Next
<1> QED BY <1>1, <1>2, InductiveInvariant, PTL DEF Spec, Pool!Spec

-----------------------------------------------------------------------------
(* Bounded-async dispatch *)

-----------------------------------------------------------------------------
(* Items *)

\* The tasks that may still read what their caller lent them.
Live == (AsyncPool!Queued \cup AsyncPool!Running) \ reported

LEMMA ItemType ==
    ASSUME RegionAssumption, NEW t \in Item
    PROVE  /\ t[1] \in Region /\ t = <<t[1], t[2]>>
           /\ \E k \in 1..N(t[1]) : t[2] = LaunchOrder[t[1]][k]
<1>0. PICK r \in Region : \E i \in Range(LaunchOrder[r]) : t = <<r, i>>
  BY DEF Item
<1>1. PICK i \in Range(LaunchOrder[r]) : t = <<r, i>>
  BY <1>0
<1>2. LaunchOrder[r] \in Seq(Nat)
  BY DEF RegionAssumption
<1>3. \E k \in 1..N(r) : i = LaunchOrder[r][k]
  BY <1>2 DEF Range, N
<1> QED
  BY <1>1, <1>3

LEMMA LaunchedItems ==
    ASSUME RegionAssumption, NEW r \in Region, NEW k \in 1..N(r)
    PROVE  <<r, LaunchOrder[r][k]>> \in Item
<1>1. LaunchOrder[r] \in Seq(Nat) /\ k \in DOMAIN LaunchOrder[r]
  BY DEF RegionAssumption, N
<1>2. LaunchOrder[r][k] \in Range(LaunchOrder[r])
  BY <1>1 DEF Range
<1> QED
  BY <1>2 DEF Item

LEMMA BorrowingIsLive ==
    \A r : Borrowing(r) = {t \in Item : t[1] = r /\ t \in Live}
BY DEF Borrowing, Live

LEMMA BorrowingIsFinite ==
    ASSUME RegionAssumption, NEW r \in Region
    PROVE  IsFiniteSet(Borrowing(r)) /\ Cardinality(Borrowing(r)) \in Nat
<1> DEFINE item == [k \in 1..N(r) |-> <<r, LaunchOrder[r][k]>>]
           items == {item[k] : k \in 1..N(r)}
<1>1. N(r) \in Nat
  BY DEF N, RegionAssumption
<1>2. IsFiniteSet(1..N(r))
  BY <1>1, FS_Interval
<1>3. item \in Surjection(1..N(r), items)
  BY DEF Surjection
<1>4. IsFiniteSet(items)
  <2> HIDE DEF item, items
  <2> QED
    BY <1>2, <1>3, FS_Surjection
<1>5. Borrowing(r) \subseteq items
  BY ItemType DEF Borrowing
<1> QED
  BY <1>4, <1>5, FS_Subset, FS_CardinalityType

\* One task more, or one less, among a region's.
LEMMA BorrowingGrows ==
    ASSUME RegionAssumption, NEW r \in Region, NEW t, t \notin Borrowing(r),
           Borrowing(r)' = Borrowing(r) \cup {t}
    PROVE  Cardinality(Borrowing(r))' = Cardinality(Borrowing(r)) + 1
BY BorrowingIsFinite, FS_AddElement

LEMMA BorrowingShrinks ==
    ASSUME RegionAssumption, NEW r \in Region, NEW t \in Borrowing(r),
           Borrowing(r)' = Borrowing(r) \ {t}
    PROVE  Cardinality(Borrowing(r))' = Cardinality(Borrowing(r)) - 1
BY BorrowingIsFinite, FS_RemoveElement

LEMMA NoneBorrowing ==
    ASSUME RegionAssumption, NEW r \in Region, Cardinality(Borrowing(r)) = 0
    PROVE  Borrowing(r) = {}
BY BorrowingIsFinite, FS_EmptySet

-----------------------------------------------------------------------------
(* What the pool's steps do to the live tasks *)

LEMMA QueueGrows ==
    ASSUME NEW q \in Seq(Item), NEW t \in Item
    PROVE  /\ Append(q, t) \in Seq(Item)
           /\ \A u : AsyncPool!InQueue(Append(q, t), u) <=> AsyncPool!InQueue(q, u) \/ u = t
<1>1. /\ Append(q, t) \in Seq(Item) /\ Len(Append(q, t)) = Len(q) + 1
      /\ \A i \in 1..Len(q) : Append(q, t)[i] = q[i]
      /\ Append(q, t)[Len(q) + 1] = t
  OBVIOUS
<1>2. 1..Len(q) + 1 = 1..Len(q) \cup {Len(q) + 1}
  OBVIOUS
<1> QED
  BY <1>1, <1>2 DEF AsyncPool!InQueue

LEMMA QueueShrinks ==
    ASSUME NEW q \in Seq(Item), q # <<>>
    PROVE  /\ Tail(q) \in Seq(Item) /\ Head(q) \in Item
           /\ \A u : AsyncPool!InQueue(q, u) <=> AsyncPool!InQueue(Tail(q), u) \/ u = Head(q)
<1>1. /\ Tail(q) \in Seq(Item) /\ Head(q) \in Item /\ Len(q) \in Nat \ {0}
      /\ Len(Tail(q)) = Len(q) - 1 /\ Head(q) = q[1]
      /\ \A i \in 1..Len(q) - 1 : Tail(q)[i] = q[i + 1]
  OBVIOUS
<1>2. \A i \in 1..Len(q) : i = 1 \/ i - 1 \in 1..Len(q) - 1
  BY <1>1
<1>3. \A i \in 1..Len(q) - 1 : i + 1 \in 1..Len(q)
  BY <1>1
<1>4. \A i \in 1..Len(q) : i = 1 \/ q[i] = Tail(q)[i - 1]
  BY <1>1, <1>2
<1>5. ASSUME NEW u, AsyncPool!InQueue(q, u)
      PROVE  AsyncPool!InQueue(Tail(q), u) \/ u = Head(q)
  BY <1>1, <1>2, <1>4, <1>5 DEF AsyncPool!InQueue
<1>6. ASSUME NEW u, AsyncPool!InQueue(Tail(q), u) \/ u = Head(q)
      PROVE  AsyncPool!InQueue(q, u)
  BY <1>1, <1>3, <1>6 DEF AsyncPool!InQueue
<1> QED
  BY <1>1, <1>5, <1>6

LEMMA SubmitAddsOne ==
    ASSUME AsyncTypeOK, EntriesFit, NEW t \in Item, AsyncPool!Submit(t), reported' = reported
    PROVE  /\ Live' = Live \cup {t} /\ t \notin Live
           /\ t \notin reported
           /\ foreground' \in Seq(Item) /\ background' \in Seq(Item)
           /\ running' = running /\ async_finished' = async_finished
<1>1. t \notin AsyncPool!Queued \cup AsyncPool!Running \cup async_finished
  BY DEF AsyncPool!Submit, AsyncPool!Submitted
<1>2. t \notin reported
  BY <1>1 DEF EntriesFit
<1>3. foreground \in Seq(Item) /\ background \in Seq(Item)
  BY DEF AsyncTypeOK
<1>4. /\ AsyncPool!Queued' = AsyncPool!Queued \cup {t}
      /\ foreground' \in Seq(Item) /\ background' \in Seq(Item)
  <2>1. CASE background' = Append(background, t) /\ foreground' = foreground
    BY <1>3, <2>1, QueueGrows DEF AsyncPool!Queued
  <2>2. CASE foreground' = Append(foreground, t) /\ background' = background
    BY <1>3, <2>2, QueueGrows DEF AsyncPool!Queued
  <2> QED
    BY <2>1, <2>2 DEF AsyncPool!Submit
<1>5. running' = running /\ async_finished' = async_finished /\ AsyncPool!Running' = AsyncPool!Running
  BY DEF AsyncPool!Submit, AsyncPool!Running
<1> QED
  BY <1>1, <1>2, <1>4, <1>5 DEF Live

LEMMA StartMovesOne ==
    ASSUME RegionAssumption, AsyncTypeOK, EntriesFit, NEW w \in PoolWorker, AsyncPool!Start(w),
           reported' = reported
    PROVE  /\ Live' = Live
           /\ foreground' \in Seq(Item) /\ background' \in Seq(Item)
           /\ running' \in [PoolWorker -> Item \cup {NoItem}] /\ async_finished' = async_finished
           /\ AsyncPool!Running \subseteq AsyncPool!Running'
<1>1. /\ foreground \in Seq(Item) /\ background \in Seq(Item)
      /\ running \in [PoolWorker -> Item \cup {NoItem}] /\ NoItem \notin Item
  BY DEF AsyncTypeOK, RegionAssumption
<1>2. PICK t \in Item :
        /\ running[w] = NoItem /\ running' = [running EXCEPT ![w] = t]
        /\ foreground' \in Seq(Item) /\ background' \in Seq(Item) /\ async_finished' = async_finished
        /\ \A u : AsyncPool!InQueue(foreground, u) \/ AsyncPool!InQueue(background, u)
                   <=> AsyncPool!InQueue(foreground', u) \/ AsyncPool!InQueue(background', u) \/ u = t
  <2>1. CASE /\ foreground # <<>> /\ foreground' = Tail(foreground)
             /\ running' = [running EXCEPT ![w] = Head(foreground)] /\ background' = background
    <3>1. /\ Tail(foreground) \in Seq(Item) /\ Head(foreground) \in Item
          /\ \A u : AsyncPool!InQueue(foreground, u) <=> AsyncPool!InQueue(Tail(foreground), u) \/ u = Head(foreground)
      BY <1>1, <2>1, QueueShrinks
    <3>2. running[w] = NoItem /\ async_finished' = async_finished
      BY DEF AsyncPool!Start
    <3> QED BY <1>1, <2>1, <3>1, <3>2
  <2>2. CASE /\ background # <<>> /\ background' = Tail(background)
             /\ running' = [running EXCEPT ![w] = Head(background)] /\ foreground' = foreground
    <3>1. /\ Tail(background) \in Seq(Item) /\ Head(background) \in Item
          /\ \A u : AsyncPool!InQueue(background, u) <=> AsyncPool!InQueue(Tail(background), u) \/ u = Head(background)
      BY <1>1, <2>2, QueueShrinks
    <3>2. running[w] = NoItem /\ async_finished' = async_finished
      BY DEF AsyncPool!Start
    <3> QED BY <1>1, <2>2, <3>1, <3>2
  <2> QED
    BY <2>1, <2>2 DEF AsyncPool!Start
<1>3. AsyncPool!Running' = AsyncPool!Running \cup {t}
  BY <1>1, <1>2 DEF AsyncPool!Running
<1>4. AsyncPool!Queued = AsyncPool!Queued' \cup {t}
  BY <1>2 DEF AsyncPool!Queued
<1> QED
  BY <1>1, <1>2, <1>3, <1>4 DEF Live

LEMMA FinishKeepsLive ==
    ASSUME RegionAssumption, AsyncTypeOK, EntriesFit, NEW w \in PoolWorker, AsyncPool!Finish(w),
           running[w] \in reported, reported' = reported
    PROVE  /\ Live' = Live
           /\ running' \in [PoolWorker -> Item \cup {NoItem}] /\ async_finished' \subseteq Item
           /\ AsyncPool!Running \cup async_finished \subseteq AsyncPool!Running' \cup async_finished'
<1>1. /\ running \in [PoolWorker -> Item \cup {NoItem}] /\ running[w] \in Item
      /\ async_finished \subseteq Item
  BY DEF AsyncTypeOK, AsyncPool!Finish
<1>2. \A t \in AsyncPool!Running : t = running[w] \/ t \in AsyncPool!Running'
  BY <1>1 DEF AsyncPool!Finish, AsyncPool!Running
<1>3. AsyncPool!Running' \subseteq AsyncPool!Running
  BY <1>1 DEF AsyncPool!Finish, AsyncPool!Running, RegionAssumption
<1>4. AsyncPool!Queued' = AsyncPool!Queued
  BY DEF AsyncPool!Finish, AsyncPool!Queued
<1> QED
  BY <1>1, <1>2, <1>3, <1>4 DEF Live, AsyncPool!Finish

-----------------------------------------------------------------------------
(* The completion queue and what is handed over *)

LEMMA EntryPopped ==
    ASSUME NEW q \in Seq(Entry), q # <<>>, Distinct(q)
    PROVE  /\ Tail(q) \in Seq(Entry) /\ Len(Tail(q)) = Len(q) - 1
           /\ Head(q) \in Entry /\ Len(q) \in Nat \ {0}
           /\ Tasks(q) = Tasks(Tail(q)) \cup {Head(q).task}
           /\ Head(q).task \notin Tasks(Tail(q))
           /\ Distinct(Tail(q))
           /\ Head(q).ok /\ AllOk(Tail(q)) => AllOk(q)
<1>1. /\ Tail(q) \in Seq(Entry) /\ Head(q) \in Entry /\ Len(q) \in Nat \ {0}
      /\ DOMAIN q = 1..Len(q) /\ DOMAIN Tail(q) = 1..Len(q) - 1
      /\ Len(Tail(q)) = Len(q) - 1 /\ Head(q) = q[1]
      /\ \A i \in 1..Len(q) - 1 : Tail(q)[i] = q[i + 1]
  OBVIOUS
<1> DEFINE tail == Tail(q)
           head == Head(q)
<1> HIDE DEF tail, head
<1>2. /\ DOMAIN q = 1..Len(q) /\ DOMAIN tail = 1..Len(q) - 1 /\ head = q[1]
      /\ \A i \in 1..Len(q) - 1 : tail[i] = q[i + 1] /\ i + 1 \in 1..Len(q)
      /\ \A i \in 1..Len(q) : i # 1 => i - 1 \in 1..Len(q) - 1 /\ q[i] = tail[i - 1]
      /\ 1 \in 1..Len(q)
  BY <1>1 DEF tail, head
<1>3. Tasks(q) = Tasks(tail) \cup {head.task}
  <2>1. \A i \in DOMAIN q : q[i].task \in Tasks(tail) \cup {head.task}
    BY <1>2 DEF Tasks
  <2>2. \A i \in DOMAIN tail : tail[i].task \in Tasks(q)
    BY <1>2 DEF Tasks
  <2>3. head.task \in Tasks(q)
    BY <1>2 DEF Tasks
  <2> QED
    BY <2>1, <2>2, <2>3 DEF Tasks
<1>4. \A i \in 1..Len(q) - 1 : tail[i].task # head.task
  <2> TAKE i \in 1..Len(q) - 1
  <2>1. i + 1 # 1 /\ i + 1 \in DOMAIN q /\ 1 \in DOMAIN q
    BY <1>1, <1>2
  <2> QED
    BY <1>2, <2>1 DEF Distinct
<1>5. Distinct(tail)
  <2> SUFFICES ASSUME NEW i \in DOMAIN tail, NEW j \in DOMAIN tail, tail[i].task = tail[j].task
               PROVE  i = j
    BY DEF Distinct
  <2>1. i + 1 = j + 1
    BY <1>2 DEF Distinct
  <2> QED
    BY <1>1, <2>1
<1>6. head.ok /\ AllOk(tail) => AllOk(q)
  BY <1>2 DEF AllOk
<1> QED
  BY <1>1, <1>3, <1>4, <1>5, <1>6 DEF tail, head, Tasks

LEMMA EntryPushed ==
    ASSUME NEW q \in Seq(Entry), NEW e \in Entry, Distinct(q), e.task \notin Tasks(q)
    PROVE  /\ Append(q, e) \in Seq(Entry) /\ Len(Append(q, e)) = Len(q) + 1
           /\ Tasks(Append(q, e)) = Tasks(q) \cup {e.task}
           /\ Distinct(Append(q, e))
           /\ AllOk(Append(q, e)) <=> AllOk(q) /\ e.ok
<1> DEFINE longer == Append(q, e)
<1>1. /\ longer \in Seq(Entry) /\ Len(longer) = Len(q) + 1 /\ Len(q) \in Nat
      /\ DOMAIN q = 1..Len(q) /\ DOMAIN longer = 1..Len(q) + 1
      /\ \A i \in 1..Len(q) : longer[i] = q[i]
      /\ longer[Len(q) + 1] = e
  OBVIOUS
<1> HIDE DEF longer
<1>2. /\ \A i \in DOMAIN longer : i # Len(q) + 1 => i \in DOMAIN q /\ longer[i] = q[i]
      /\ \A i \in DOMAIN q : i \in DOMAIN longer /\ i # Len(q) + 1
      /\ Len(q) + 1 \in DOMAIN longer
  BY <1>1
<1>3. Tasks(longer) = Tasks(q) \cup {e.task}
  <2>1. \A i \in DOMAIN longer : longer[i].task \in Tasks(q) \cup {e.task}
    BY <1>1 DEF Tasks
  <2>2. \A i \in DOMAIN q : q[i].task \in Tasks(longer)
    BY <1>1 DEF Tasks
  <2>3. e.task \in Tasks(longer)
    BY <1>1 DEF Tasks
  <2> QED
    BY <2>1, <2>2, <2>3 DEF Tasks
<1>4. Distinct(longer)
  BY <1>1 DEF Distinct, Tasks
<1>5. AllOk(longer) <=> AllOk(q) /\ e.ok
  BY <1>1 DEF AllOk
<1> QED
  BY <1>1, <1>3, <1>4, <1>5 DEF longer

LEMMA HandedOver ==
    ASSUME NEW s \in Seq(Item), NEW t \in Item, t \notin Range(s), IsInjective(s)
    PROVE  /\ Append(s, t) \in Seq(Item)
           /\ Range(Append(s, t)) = Range(s) \cup {t}
           /\ IsInjective(Append(s, t))
<1> DEFINE longer == Append(s, t)
<1>1. /\ longer \in Seq(Item) /\ Len(s) \in Nat
      /\ DOMAIN s = 1..Len(s) /\ DOMAIN longer = 1..Len(s) + 1
      /\ \A i \in 1..Len(s) : longer[i] = s[i]
      /\ longer[Len(s) + 1] = t
  OBVIOUS
<1> HIDE DEF longer
<1>2. /\ \A i \in DOMAIN longer : i # Len(s) + 1 => i \in DOMAIN s /\ longer[i] = s[i]
      /\ \A i \in DOMAIN s : i \in DOMAIN longer /\ i # Len(s) + 1
      /\ Len(s) + 1 \in DOMAIN longer
  BY <1>1
<1>3. Range(longer) = Range(s) \cup {t}
  <2>1. \A i \in DOMAIN longer : longer[i] \in Range(s) \cup {t}
    BY <1>1 DEF Range
  <2>2. \A i \in DOMAIN s : s[i] \in Range(longer)
    BY <1>1 DEF Range
  <2>3. t \in Range(longer)
    BY <1>1 DEF Range
  <2> QED
    BY <2>1, <2>2, <2>3 DEF Range
<1>4. IsInjective(longer)
  BY <1>1 DEF IsInjective, Range
<1> QED
  BY <1>1, <1>3, <1>4 DEF longer

-----------------------------------------------------------------------------
(* One region's part of the invariant *)

RegionSafe(r) ==
    /\ slot[r] <= N(r)
    /\ caller[r] \in {"collect", "launch", "counted"} => slot[r] < N(r)
    /\ caller[r] \in {"finish", "returned"} => slot[r] = N(r)
    /\ caller[r] = "launch" => in_flight(r) < Window(r)
    /\ caller[r] \in {"returned", "threw"} => in_flight(r) = 0
    /\ Tasks(m_done[r]) \cup Range(completed[r]) \subseteq {t \in reported : t[1] = r}
    /\ Tasks(m_done[r]) \cap Range(completed[r]) = {}
    /\ Distinct(m_done[r])
    /\ r \in failed => caller[r] \in {"unwind", "threw"} \/ ~AllOk(m_done[r])
    /\ r \notin failed =>
         /\ caller[r] \notin {"unwind", "threw"}
         /\ Launched(r) = Borrowing(r) \cup Tasks(m_done[r]) \cup Range(completed[r])
    /\ m_outstanding[r] = Cardinality(Borrowing(r)) + (IF caller[r] = "counted" THEN 1 ELSE 0)
    /\ in_flight(r) <= Window(r)
    /\ IsInjective(completed[r])

RegionType(r) ==
    /\ caller[r] \in CallerPC /\ slot[r] \in Nat /\ m_outstanding[r] \in Nat
    /\ m_done[r] \in Seq(Entry) /\ completed[r] \in Seq(Item)

\* A region that is over has nothing in flight, so nothing borrowing; one that
\* returned launched every item, and so handed every item over.
LEMMA OverIsComplete ==
    ASSUME RegionAssumption, NEW r \in Region, RegionType(r), RegionSafe(r)
    PROVE  /\ caller[r] \in {"returned", "threw"} => Borrowing(r) = {} /\ m_done[r] = <<>>
           /\ caller[r] = "returned" => /\ r \notin failed
                                        /\ {t \in Item : t[1] = r} = Range(completed[r])
<1>1. CASE caller[r] \in {"returned", "threw"}
  <2>1. m_outstanding[r] = 0 /\ Len(m_done[r]) = 0
    BY <1>1 DEF RegionSafe, RegionType, in_flight
  <2>2. m_done[r] = <<>>
    BY <2>1 DEF RegionType
  <2>3. Borrowing(r) = {}
    BY <1>1, <2>1, BorrowingIsFinite, NoneBorrowing DEF RegionSafe
  <2>4. Tasks(m_done[r]) = {} /\ AllOk(m_done[r])
    BY <2>2 DEF Tasks, AllOk
  <2>5. ASSUME caller[r] = "returned"
        PROVE  r \notin failed /\ {t \in Item : t[1] = r} = Range(completed[r])
    <3>1. r \notin failed /\ Launched(r) = Range(completed[r])
      BY <2>3, <2>4, <2>5 DEF RegionSafe
    <3>2. slot[r] = N(r)
      BY <2>5 DEF RegionSafe
    <3>3. \A t \in Item : t[1] = r => t \in Launched(r)
      BY <3>2, ItemType DEF Launched
    <3>4. \A t \in Launched(r) : t \in Item /\ t[1] = r
      BY <3>2, LaunchedItems DEF Launched
    <3> QED
      BY <3>1, <3>3, <3>4
  <2> QED
    BY <2>2, <2>3, <2>5
<1> QED
  BY <1>1

LEMMA RegionWise ==
    ASSUME RegionAssumption
    PROVE  RegionsAreSafe <=> /\ AsyncTypeOK /\ reported \subseteq AsyncPool!Running \cup async_finished
                              /\ \A r \in Region : RegionSafe(r)
<1>1. ASSUME RegionsAreSafe, NEW r \in Region
      PROVE  RegionSafe(r)
  BY <1>1 DEF RegionsAreSafe, RegionAccounts, PlacesFit, EntriesFit, NothingIsDropped,
              OutstandingIsExact, WindowIsKept, ReturnsOnlyComplete, RegionSafe
<1>2. ASSUME AsyncTypeOK, reported \subseteq AsyncPool!Running \cup async_finished,
             \A r \in Region : RegionSafe(r)
      PROVE  RegionsAreSafe
  <2>1. \A r \in Region : RegionType(r)
    BY <1>2 DEF AsyncTypeOK, RegionType
  <2>2. NoTaskOutlivesItsRegion /\ ReturnsOnlyComplete
    BY <1>2, <2>1, OverIsComplete
       DEF NoTaskOutlivesItsRegion, ReturnsOnlyComplete, RegionSafe
  <2>3. PlacesFit /\ EntriesFit /\ NothingIsDropped
    BY <1>2 DEF PlacesFit, EntriesFit, NothingIsDropped, RegionSafe
  <2>4. OutstandingIsExact /\ WindowIsKept
    BY <1>2 DEF OutstandingIsExact, WindowIsKept, RegionSafe
  <2> QED
    BY <1>2, <2>2, <2>3, <2>4 DEF RegionsAreSafe, RegionAccounts
<1> QED
  BY <1>1, <1>2 DEF RegionsAreSafe, RegionAccounts, EntriesFit

\* A step that leaves a region's books and its borrowing tasks alone.
LEMMA RegionKeeps ==
    ASSUME NEW r \in Region, RegionSafe(r),
           caller'[r] = caller[r], slot'[r] = slot[r], m_outstanding'[r] = m_outstanding[r],
           m_done'[r] = m_done[r], completed'[r] = completed[r],
           r \in failed' <=> r \in failed, reported \subseteq reported',
           Borrowing(r)' = Borrowing(r)
    PROVE  RegionSafe(r)'
BY DEF RegionSafe, in_flight, Window, N, Launched, Tasks, Distinct, AllOk

LEMMA RegionWisePrimed ==
    ASSUME RegionAssumption, AsyncTypeOK', (reported \subseteq AsyncPool!Running \cup async_finished)',
           \A r \in Region : RegionSafe(r)'
    PROVE  RegionsAreSafe'
<1>1. (\A r \in Region : RegionSafe(r))'
  OBVIOUS
<1> QED
  BY <1>1, RegionWise, PTL

-----------------------------------------------------------------------------
(* The steps *)

\* A step of a caller that leaves the pool alone leaves the borrowing tasks so.
LEMMA CallerKeepsLive ==
    ASSUME UNCHANGED <<poolVars, reported>>
    PROVE  /\ \A r : Borrowing(r)' = Borrowing(r)
           /\ AsyncPool!Running' = AsyncPool!Running
BY DEF poolVars, Borrowing, AsyncPool!Queued, AsyncPool!Running, AsyncPool!InQueue

LEMMA WindowType ==
    ASSUME RegionAssumption, NEW r \in Region
    PROVE  Window(r) \in Nat \ {0} /\ N(r) \in Nat
BY DEF RegionAssumption, Window, N

LEMMA LoopHeadStep ==
    ASSUME RegionAssumption, AsyncTypeOK, NEW r \in Region, RegionSafe(r), LoopHead(r)
    PROVE  RegionSafe(r)' /\ AsyncTypeOK'
<1>1. /\ Borrowing(r)' = Borrowing(r)
      /\ caller[r] = "loop" /\ slot' = slot /\ m_outstanding' = m_outstanding
      /\ m_done' = m_done /\ completed' = completed /\ failed' = failed /\ reported' = reported
  BY CallerKeepsLive DEF LoopHead
<1>2. /\ caller'[r] = IF slot[r] = N(r) THEN "finish"
                      ELSE IF WindowFull(r) THEN "collect" ELSE "launch"
      /\ AsyncTypeOK'
  BY DEF LoopHead, CallerGoto, CallerPC, AsyncTypeOK, poolVars
<1>3. /\ slot[r] \in Nat /\ N(r) \in Nat /\ slot[r] <= N(r)
      /\ in_flight(r) \in Int /\ Window(r) \in Int
  BY WindowType DEF AsyncTypeOK, RegionSafe, in_flight
<1>4. caller'[r] = "launch" => in_flight(r) < Window(r)
  BY <1>2, <1>3 DEF WindowFull
<1>5. caller'[r] \in {"collect", "launch"} => slot[r] < N(r)
  BY <1>2, <1>3
<1>6. in_flight(r)' = in_flight(r) /\ Launched(r)' = Launched(r)
  BY <1>1 DEF in_flight, Launched
<1> QED
  BY <1>1, <1>2, <1>4, <1>5, <1>6 DEF RegionSafe, Window, N, Tasks, Distinct, AllOk

LEMMA CollectStep ==
    ASSUME RegionAssumption, AsyncTypeOK, NEW r \in Region, RegionSafe(r), Collect(r)
    PROVE  RegionSafe(r)' /\ AsyncTypeOK'
<1> DEFINE q == m_done[r]
           h == Head(q)
<1>1. /\ Borrowing(r)' = Borrowing(r)
      /\ slot' = slot /\ m_outstanding' = m_outstanding
      /\ UNCHANGED poolVars /\ reported' = reported
      /\ m_done' = [m_done EXCEPT ![r] = Tail(q)] /\ caller[r] \in {"collect", "finish"}
  BY CallerKeepsLive DEF Collect
<1>2. /\ q \in Seq(Entry) /\ q # <<>> /\ Distinct(q) /\ m_done'[r] = Tail(q)
      /\ completed[r] \in Seq(Item) /\ IsInjective(completed[r])
  BY <1>1 DEF Collect, AsyncTypeOK, RegionSafe
<1>3. /\ Tail(q) \in Seq(Entry) /\ Len(Tail(q)) = Len(q) - 1 /\ h \in Entry /\ Len(q) \in Nat \ {0}
      /\ Tasks(q) = Tasks(Tail(q)) \cup {h.task} /\ h.task \notin Tasks(Tail(q))
      /\ Distinct(Tail(q)) /\ (h.ok /\ AllOk(Tail(q)) => AllOk(q))
  BY <1>2, EntryPopped
<1>4. h.task \in Item /\ h.task \notin Range(completed[r])
  BY <1>3 DEF RegionSafe, Entry
<1>5. /\ in_flight(r)' = in_flight(r) - 1 /\ in_flight(r) \in Int
      /\ Window(r) \in Int /\ in_flight(r) <= Window(r)
  BY <1>1, <1>3, WindowType DEF in_flight, AsyncTypeOK, RegionSafe
<1>6. Launched(r)' = Launched(r) /\ Cardinality(Borrowing(r))' = Cardinality(Borrowing(r))
  BY <1>1 DEF Launched
<1>7. CASE /\ h.ok /\ completed' = [completed EXCEPT ![r] = Append(@, h.task)] /\ failed' = failed
           /\ caller' = [caller EXCEPT ![r] = IF caller[r] = "collect" THEN "launch" ELSE "finish"]
  <2>1. /\ completed'[r] = Append(completed[r], h.task)
        /\ caller'[r] = IF caller[r] = "collect" THEN "launch" ELSE "finish"
    BY <1>7 DEF AsyncTypeOK
  <2>2. /\ completed'[r] \in Seq(Item) /\ IsInjective(completed'[r])
        /\ Range(completed'[r]) = Range(completed[r]) \cup {h.task}
    BY <1>2, <1>4, <2>1, HandedOver
  <2>3. AsyncTypeOK'
    BY <1>1, <1>3, <1>7, <2>1, <2>2 DEF AsyncTypeOK, CallerPC, poolVars
  <2>4. r \in failed => ~AllOk(Tail(q))
    BY <1>1, <1>3, <1>7 DEF RegionSafe
  <2>5. caller'[r] = "launch" => in_flight(r)' < Window(r)
    BY <1>5
  <2>6. /\ Tasks(Tail(q)) \cup Range(completed'[r]) = Tasks(q) \cup Range(completed[r])
        /\ Tasks(Tail(q)) \cap Range(completed'[r]) = {}
    BY <1>3, <2>2 DEF RegionSafe
  <2>7. r \notin failed => Launched(r)' = Borrowing(r)' \cup Tasks(Tail(q)) \cup Range(completed'[r])
    BY <1>1, <1>6, <2>6 DEF RegionSafe
  <2>8. m_outstanding'[r] = Cardinality(Borrowing(r)') + (IF caller'[r] = "counted" THEN 1 ELSE 0)
    BY <1>1, <1>6, <2>1 DEF RegionSafe
  <2> QED
    BY <1>1, <1>2, <1>3, <1>5, <1>7, <2>1, <2>2, <2>3, <2>4, <2>5, <2>6, <2>7, <2>8
       DEF RegionSafe, Window, N
<1>8. CASE Throw(r) /\ completed' = completed
  <2>1. caller'[r] = "unwind" /\ r \in failed'
    BY <1>8 DEF Throw, CallerGoto, AsyncTypeOK
  <2>2. AsyncTypeOK'
    BY <1>1, <1>3, <1>8 DEF Throw, CallerGoto, AsyncTypeOK, CallerPC, poolVars
  <2>3. m_outstanding'[r] = Cardinality(Borrowing(r)') + (IF caller'[r] = "counted" THEN 1 ELSE 0)
    BY <1>1, <1>6, <2>1 DEF RegionSafe
  <2> QED
    BY <1>1, <1>3, <1>5, <1>8, <2>1, <2>2, <2>3 DEF RegionSafe, Window, N
<1> QED
  BY <1>7, <1>8 DEF Collect, Delivered, CallerGoto

LEMMA CountStep ==
    ASSUME RegionAssumption, AsyncTypeOK, NEW r \in Region, RegionSafe(r), Count(r)
    PROVE  RegionSafe(r)' /\ AsyncTypeOK'
<1>1. /\ Borrowing(r)' = Borrowing(r) /\ caller[r] = "launch" /\ slot' = slot
      /\ UNCHANGED poolVars /\ m_done' = m_done /\ completed' = completed /\ reported' = reported
  BY CallerKeepsLive DEF Count
<1>2. /\ m_outstanding[r] \in Nat /\ Len(m_done[r]) \in Nat /\ Window(r) \in Nat
      /\ in_flight(r) < Window(r) /\ Cardinality(Borrowing(r)) \in Nat
      /\ m_outstanding[r] = Cardinality(Borrowing(r))
  BY <1>1, WindowType, BorrowingIsFinite DEF AsyncTypeOK, RegionSafe
<1>3. Launched(r)' = Launched(r) /\ Cardinality(Borrowing(r))' = Cardinality(Borrowing(r))
  BY <1>1 DEF Launched
<1>4. CASE /\ m_outstanding' = [m_outstanding EXCEPT ![r] = Counted(@)]
           /\ CallerGoto(r, "counted") /\ failed' = failed
  <2>1. caller'[r] = "counted" /\ m_outstanding'[r] = m_outstanding[r] + 1
    BY <1>4 DEF CallerGoto, Counted, AsyncTypeOK
  <2>2. AsyncTypeOK'
    BY <1>1, <1>4, <2>1 DEF CallerGoto, AsyncTypeOK, CallerPC, poolVars
  <2>3. in_flight(r)' <= Window(r)
    BY <1>1, <1>2, <2>1 DEF in_flight
  <2> QED
    BY <1>1, <1>2, <1>3, <1>4, <2>1, <2>2, <2>3 DEF RegionSafe, Window, N
<1>5. CASE Throw(r) /\ m_outstanding' = m_outstanding
  <2>1. caller'[r] = "unwind" /\ r \in failed' /\ AsyncTypeOK'
    BY <1>1, <1>5 DEF Throw, CallerGoto, AsyncTypeOK, CallerPC, poolVars
  <2>2. in_flight(r)' <= Window(r)
    BY <1>1, <1>2, <1>5 DEF in_flight
  <2> QED
    BY <1>1, <1>3, <1>5, <2>1, <2>2 DEF RegionSafe, Window, N
<1> QED
  BY <1>4, <1>5 DEF Count

LEMMA ReturnStep ==
    ASSUME RegionAssumption, AsyncTypeOK, NEW r \in Region, RegionSafe(r), Return(r)
    PROVE  RegionSafe(r)' /\ AsyncTypeOK'
<1>1. /\ Borrowing(r)' = Borrowing(r) /\ caller[r] = "finish" /\ caller'[r] = "returned"
      /\ in_flight(r) = 0 /\ slot' = slot /\ m_outstanding' = m_outstanding
      /\ m_done' = m_done /\ completed' = completed /\ failed' = failed /\ reported' = reported
  BY CallerKeepsLive DEF Return, CallerGoto, AsyncTypeOK
<1>2. AsyncTypeOK'
  BY DEF Return, CallerGoto, AsyncTypeOK, CallerPC, poolVars
<1>3. /\ in_flight(r)' = in_flight(r) /\ Launched(r)' = Launched(r)
      /\ Cardinality(Borrowing(r))' = Cardinality(Borrowing(r))
  BY <1>1 DEF in_flight, Launched
<1> QED
  BY <1>1, <1>2, <1>3 DEF RegionSafe, Window, N

LEMMA DrainStep ==
    ASSUME RegionAssumption, AsyncTypeOK, NEW r \in Region, RegionSafe(r), Drain(r)
    PROVE  RegionSafe(r)' /\ AsyncTypeOK'
<1> DEFINE q == m_done[r]
<1>1. /\ Borrowing(r)' = Borrowing(r) /\ caller[r] = "unwind" /\ slot' = slot
      /\ UNCHANGED poolVars /\ m_outstanding' = m_outstanding /\ completed' = completed
      /\ failed' = failed /\ reported' = reported /\ r \in failed
  BY CallerKeepsLive DEF Drain, RegionSafe
<1>2. Cardinality(Borrowing(r))' = Cardinality(Borrowing(r))
  BY <1>1
<1>3. CASE q # <<>> /\ m_done' = [m_done EXCEPT ![r] = Tail(q)] /\ caller' = caller
  <2>1. q \in Seq(Entry) /\ Distinct(q) /\ m_done'[r] = Tail(q)
    BY <1>3 DEF AsyncTypeOK, RegionSafe
  <2>2. /\ Tail(q) \in Seq(Entry) /\ Len(Tail(q)) = Len(q) - 1 /\ Len(q) \in Nat \ {0}
        /\ Tasks(Tail(q)) \subseteq Tasks(q) /\ Distinct(Tail(q))
    BY <1>3, <2>1, EntryPopped
  <2>3. in_flight(r)' <= Window(r)
    BY <1>1, <2>1, <2>2, WindowType DEF in_flight, AsyncTypeOK, RegionSafe
  <2>4. AsyncTypeOK'
    BY <1>1, <1>3, <2>2 DEF AsyncTypeOK, poolVars
  <2> QED
    BY <1>1, <1>3, <2>1, <2>2, <2>3, <2>4 DEF RegionSafe, Window, N
<1>4. CASE in_flight(r) = 0 /\ CallerGoto(r, "threw") /\ m_done' = m_done
  <2>1. caller'[r] = "threw" /\ AsyncTypeOK'
    BY <1>1, <1>4 DEF CallerGoto, AsyncTypeOK, CallerPC, poolVars
  <2>2. in_flight(r)' = in_flight(r)
    BY <1>1, <1>4 DEF in_flight
  <2> QED
    BY <1>1, <1>4, <2>1, <2>2 DEF RegionSafe, Window, N
<1> QED
  BY <1>3, <1>4 DEF Drain

LEMMA LaunchStep ==
    ASSUME RegionAssumption, AsyncTypeOK, EntriesFit, NEW r \in Region, RegionSafe(r), Launch(r)
    PROVE  /\ RegionSafe(r)' /\ AsyncTypeOK'
           /\ (reported \subseteq AsyncPool!Running \cup async_finished)'
           /\ \A s \in Region : s # r => Borrowing(s)' = Borrowing(s)
<1> DEFINE t == NextTask(r)
<1>1. /\ caller[r] = "counted" /\ reported' = reported /\ m_done' = m_done
      /\ completed' = completed
  BY DEF Launch
<1>2. /\ slot[r] \in Nat /\ N(r) \in Nat /\ slot[r] + 1 \in 1..N(r)
      /\ m_outstanding[r] \in Nat /\ Len(m_done[r]) \in Nat /\ Window(r) \in Nat
      /\ Cardinality(Borrowing(r)) \in Nat /\ in_flight(r) <= Window(r)
      /\ m_outstanding[r] = Cardinality(Borrowing(r)) + 1
  BY <1>1, WindowType, BorrowingIsFinite DEF AsyncTypeOK, RegionSafe
<1>3. t \in Item /\ t[1] = r
  BY <1>2, LaunchedItems DEF NextTask
<1>4. CASE /\ AsyncPool!Submit(t) /\ slot' = [slot EXCEPT ![r] = @ + 1] /\ CallerGoto(r, "loop")
           /\ m_outstanding' = m_outstanding /\ failed' = failed
  <2> HIDE DEF t
  <2>1. /\ Live' = Live \cup {t} /\ t \notin Live
        /\ foreground' \in Seq(Item) /\ background' \in Seq(Item)
        /\ running' = running /\ async_finished' = async_finished
    BY <1>1, <1>3, <1>4, SubmitAddsOne
  <2>2. /\ Borrowing(r)' = Borrowing(r) \cup {t} /\ t \notin Borrowing(r)
        /\ \A s \in Region : s # r => Borrowing(s)' = Borrowing(s)
    BY <1>3, <2>1 DEF Borrowing, Live
  <2>3. Cardinality(Borrowing(r))' = Cardinality(Borrowing(r)) + 1
    BY <2>2, BorrowingGrows
  <2>4. caller'[r] = "loop" /\ slot'[r] = slot[r] + 1 /\ AsyncTypeOK'
    BY <1>1, <1>4, <2>1 DEF CallerGoto, AsyncTypeOK, CallerPC
  <2>5. Launched(r)' = Launched(r) \cup {t}
    <3>1. 1..slot'[r] = 1..slot[r] \cup {slot[r] + 1}
      BY <1>2, <2>4
    <3> QED
      BY <3>1 DEF Launched, NextTask, t
  <2>6. in_flight(r)' = in_flight(r)
    BY <1>1, <1>4 DEF in_flight
  <2>7. AsyncPool!Running' = AsyncPool!Running
    BY <2>1 DEF AsyncPool!Running
  <2>8. m_outstanding'[r] = Cardinality(Borrowing(r)') + (IF caller'[r] = "counted" THEN 1 ELSE 0)
    BY <1>2, <1>4, <2>3, <2>4
  <2>9. r \notin failed =>
          Launched(r)' = Borrowing(r)' \cup Tasks(m_done'[r]) \cup Range(completed'[r])
    BY <1>1, <2>2, <2>5 DEF RegionSafe
  <2>10. RegionSafe(r)'
    BY <1>1, <1>2, <1>4, <2>4, <2>6, <2>8, <2>9 DEF RegionSafe, Window, N
  <2> QED
    BY <1>1, <2>1, <2>2, <2>4, <2>7, <2>10 DEF EntriesFit
<1>5. CASE /\ m_outstanding' = [m_outstanding EXCEPT ![r] = TakenBack(@)] /\ Throw(r)
           /\ UNCHANGED <<poolVars, slot>>
  <2>1. /\ caller'[r] = "unwind" /\ r \in failed' /\ m_outstanding'[r] = m_outstanding[r] - 1
        /\ AsyncTypeOK'
    BY <1>1, <1>2, <1>5 DEF Throw, CallerGoto, TakenBack, AsyncTypeOK, CallerPC, poolVars
  <2>2. (\A s : Borrowing(s)' = Borrowing(s)) /\ AsyncPool!Running' = AsyncPool!Running
    BY <1>1, <1>5, CallerKeepsLive
  <2>3. in_flight(r)' <= Window(r)
    BY <1>1, <1>2, <2>1 DEF in_flight
  <2>4. m_outstanding'[r] = Cardinality(Borrowing(r)') + (IF caller'[r] = "counted" THEN 1 ELSE 0)
    BY <1>2, <2>1, <2>2
  <2>5. RegionSafe(r)'
    BY <1>1, <1>5, <2>1, <2>3, <2>4 DEF RegionSafe, Window, N
  <2> QED
    BY <1>1, <1>5, <2>1, <2>2, <2>5 DEF EntriesFit, poolVars
<1> QED
  BY <1>4, <1>5 DEF Launch

LEMMA ReportStep ==
    ASSUME RegionAssumption, AsyncTypeOK, EntriesFit, \A r \in Region : RegionSafe(r),
           NEW w \in PoolWorker, NEW ok \in BOOLEAN, Report(w, ok)
    PROVE  /\ \A r \in Region : RegionSafe(r)'
           /\ AsyncTypeOK' /\ (reported \subseteq AsyncPool!Running \cup async_finished)'
<1>1. PICK t \in Item : t = running[w] /\ t \notin reported
  BY DEF Report, AsyncTypeOK
<1> DEFINE e == [task |-> t, ok |-> ok]
           r == t[1]
<1>2. /\ r \in Region /\ e \in Entry /\ t \in AsyncPool!Running
      /\ UNCHANGED poolVars /\ caller' = caller /\ slot' = slot /\ completed' = completed
      /\ reported' = reported \cup {t}
      /\ m_done' = [m_done EXCEPT ![r] = Append(@, e)]
      /\ m_outstanding' = [m_outstanding EXCEPT ![r] = @ - 1]
      /\ failed' = IF ok THEN failed ELSE failed \cup {r}
  BY <1>1, <1>2, ItemType DEF Report, Entry, AsyncPool!Running
<1>3. AsyncPool!Running' = AsyncPool!Running /\ AsyncPool!Queued' = AsyncPool!Queued
  BY <1>1, <1>2 DEF poolVars, AsyncPool!Running, AsyncPool!Queued, AsyncPool!InQueue
<1> HIDE DEF e, r
<1>4. /\ t \in Borrowing(r) /\ Borrowing(r)' = Borrowing(r) \ {t}
      /\ \A s \in Region : s # r => Borrowing(s)' = Borrowing(s)
  BY <1>1, <1>2, <1>3 DEF Borrowing, r
<1>5. Cardinality(Borrowing(r))' = Cardinality(Borrowing(r)) - 1
  BY <1>2, <1>4, BorrowingShrinks
<1>6. /\ m_outstanding[r] \in Nat /\ m_done[r] \in Seq(Entry) /\ RegionSafe(r)
      /\ Cardinality(Borrowing(r)) \in Nat /\ Cardinality(Borrowing(r)) # 0
  BY <1>2, <1>4, BorrowingIsFinite, NoneBorrowing DEF AsyncTypeOK
<1>7. m_outstanding[r] >= 1 /\ m_outstanding'[r] = m_outstanding[r] - 1
  BY <1>1, <1>2, <1>6 DEF RegionSafe, AsyncTypeOK
<1>8. Distinct(m_done[r]) /\ e.task = t /\ t \notin Tasks(m_done[r]) \cup Range(completed[r])
  BY <1>1, <1>2, <1>6 DEF RegionSafe, e
<1>9. /\ m_done'[r] \in Seq(Entry) /\ Len(m_done'[r]) = Len(m_done[r]) + 1
      /\ Tasks(m_done'[r]) = Tasks(m_done[r]) \cup {t} /\ Distinct(m_done'[r])
      /\ AllOk(m_done'[r]) <=> AllOk(m_done[r]) /\ e.ok
      /\ m_done' = [m_done EXCEPT ![r] = m_done'[r]]
  BY <1>1, <1>2, <1>6, <1>8, EntryPushed DEF AsyncTypeOK
<1>10. AsyncTypeOK'
  <2>1. m_done' \in [Region -> Seq(Entry)]
    BY <1>1, <1>2, <1>6, <1>9 DEF AsyncTypeOK
  <2>2. m_outstanding' \in [Region -> Nat]
    BY <1>1, <1>2, <1>6, <1>7 DEF AsyncTypeOK
  <2> QED
    BY <1>1, <1>2, <2>1, <2>2 DEF AsyncTypeOK, poolVars
<1>11. (reported \subseteq AsyncPool!Running \cup async_finished)'
  BY <1>1, <1>2, <1>3 DEF EntriesFit, poolVars
<1>12. RegionSafe(r)'
  <2>1. in_flight(r)' = in_flight(r)
    <3>1. Len(m_done[r]) \in Nat /\ Len(m_done'[r]) = Len(m_done[r]) + 1
      BY <1>6, <1>9
    <3> QED
      BY <1>6, <1>7, <3>1 DEF in_flight
  <2>2. m_outstanding'[r] = Cardinality(Borrowing(r)') + (IF caller'[r] = "counted" THEN 1 ELSE 0)
    BY <1>1, <1>2, <1>5, <1>6, <1>7 DEF RegionSafe
  <2>3. r \in failed' => caller'[r] \in {"unwind", "threw"} \/ ~AllOk(m_done'[r])
    <3>1. e.ok = ok
      BY DEF e
    <3> QED
      BY <1>1, <1>2, <1>6, <1>9, <3>1 DEF RegionSafe
  <2>4. r \notin failed' =>
          /\ caller'[r] \notin {"unwind", "threw"}
          /\ Launched(r)' = Borrowing(r)' \cup Tasks(m_done'[r]) \cup Range(completed'[r])
    BY <1>1, <1>2, <1>4, <1>6, <1>9 DEF RegionSafe, Launched
  <2>5. Tasks(m_done'[r]) \cup Range(completed'[r]) \subseteq {u \in reported' : u[1] = r}
    BY <1>1, <1>2, <1>6, <1>9 DEF RegionSafe, r
  <2> QED
    BY <1>1, <1>2, <1>6, <1>8, <1>9, <2>1, <2>2, <2>3, <2>4, <2>5 DEF RegionSafe, Window, N
<1>13. ASSUME NEW s \in Region, s # r
       PROVE  RegionSafe(s)'
  <2>1. s \in failed' <=> s \in failed
    BY <1>1, <1>2, <1>13
  <2>2. m_outstanding'[s] = m_outstanding[s] /\ m_done'[s] = m_done[s]
    BY <1>1, <1>2, <1>13 DEF AsyncTypeOK
  <2> QED
    BY <1>1, <1>2, <1>4, <1>13, <2>1, <2>2, RegionKeeps
<1> QED
  BY <1>10, <1>11, <1>12, <1>13

-----------------------------------------------------------------------------
(* The theorem *)

\* Tasks capture references to the caller's data: no call of run_bounded_async is
\* over, by return or by exception, while one of its tasks is queued or running,
\* and its counter, window, queue and results agree throughout.
THEOREM RegionsAreAlwaysSafe ==
    ASSUME RegionAssumption
    PROVE  AsyncSpec => []RegionsAreSafe
<1>1. AsyncInit => RegionsAreSafe
  <2> SUFFICES ASSUME AsyncInit PROVE RegionsAreSafe
    OBVIOUS
  <2>1. AsyncTypeOK
    BY DEF AsyncInit, AsyncPool!Init, AsyncTypeOK, CallerPC
  <2>2. reported \subseteq AsyncPool!Running \cup async_finished
    BY DEF AsyncInit
  <2>3. AsyncPool!Queued = {} /\ AsyncPool!Running = {}
    BY DEF AsyncInit, AsyncPool!Init, AsyncPool!Queued, AsyncPool!InQueue, AsyncPool!Running, RegionAssumption
  <2>4. ASSUME NEW r \in Region
        PROVE  RegionSafe(r)
    <3>1. Borrowing(r) = {} /\ Cardinality(Borrowing(r)) = 0
      BY <2>3, FS_EmptySet DEF Borrowing
    <3>2. /\ slot[r] = 0 /\ caller[r] = "loop" /\ m_outstanding[r] = 0 /\ m_done[r] = <<>>
          /\ completed[r] = <<>> /\ failed = {}
      BY DEF AsyncInit
    <3>3. Tasks(m_done[r]) = {} /\ Range(completed[r]) = {} /\ Launched(r) = {}
      BY <3>2 DEF Tasks, Range, Launched
    <3>4. Distinct(m_done[r]) /\ IsInjective(completed[r])
      BY <3>2 DEF Distinct, IsInjective
    <3>5. in_flight(r) = 0 /\ Window(r) \in Nat \ {0} /\ N(r) \in Nat
      BY <3>2, WindowType DEF in_flight
    <3> QED
      BY <3>1, <3>2, <3>3, <3>4, <3>5 DEF RegionSafe
  <2> QED
    BY <2>1, <2>2, <2>4, RegionWise
<1>2. RegionsAreSafe /\ [AsyncNext]_asyncVars => RegionsAreSafe'
  <2> SUFFICES ASSUME RegionsAreSafe, [AsyncNext]_asyncVars
               PROVE  RegionsAreSafe'
    OBVIOUS
  <2>1. AsyncTypeOK /\ EntriesFit /\ \A r \in Region : RegionSafe(r)
    BY RegionWise DEF RegionsAreSafe, RegionAccounts
  <2>2. ASSUME NEW r \in Region, CallerStep(r)
        PROVE  RegionsAreSafe'
    <3>1. RegionSafe(r)' /\ AsyncTypeOK'
      BY <2>1, <2>2, LoopHeadStep, CollectStep, CountStep, LaunchStep, ReturnStep, DrainStep
         DEF CallerStep
    <3>2. /\ (reported \subseteq AsyncPool!Running \cup async_finished)'
          /\ \A s \in Region : s # r => Borrowing(s)' = Borrowing(s)
      <4>1. CASE UNCHANGED <<poolVars, reported>>
        BY <2>1, <4>1, CallerKeepsLive DEF EntriesFit, poolVars
      <4>2. CASE Launch(r)
        BY <2>1, <4>2, LaunchStep
      <4> QED
        BY <2>2, <4>1, <4>2 DEF CallerStep, LoopHead, Collect, Count, Return, Drain
    <3>3. ASSUME NEW s \in Region, s # r
          PROVE  RegionSafe(s)'
      <4>1. /\ caller'[s] = caller[s] /\ slot'[s] = slot[s] /\ m_done'[s] = m_done[s]
            /\ m_outstanding'[s] = m_outstanding[s] /\ completed'[s] = completed[s]
            /\ reported' = reported
            /\ s \in failed' <=> s \in failed
        BY <2>1, <2>2, <3>3
           DEF CallerStep, LoopHead, Collect, Count, Launch, Return, Drain, CallerGoto, Throw, AsyncTypeOK
      <4> QED
        BY <2>1, <3>2, <3>3, <4>1, RegionKeeps
    <3> QED
      BY <3>1, <3>2, <3>3, RegionWisePrimed
  <2>3. ASSUME NEW w \in PoolWorker, Start(w) \/ TaskReturns(w)
        PROVE  RegionsAreSafe'
    <3>1. UNCHANGED <<regionVars, reported>>
      BY <2>3 DEF Start, TaskReturns
    <3>2. Live' = Live /\ AsyncTypeOK' /\ (reported \subseteq AsyncPool!Running \cup async_finished)'
      <4>1. CASE AsyncPool!Start(w)
        BY <2>1, <3>1, <4>1, StartMovesOne DEF AsyncTypeOK, EntriesFit, regionVars
      <4>2. CASE AsyncPool!Finish(w) /\ running[w] \in reported
        <5>1. foreground' = foreground /\ background' = background
          BY <4>2 DEF AsyncPool!Finish
        <5> QED
          BY <2>1, <3>1, <4>2, <5>1, FinishKeepsLive DEF AsyncTypeOK, EntriesFit, regionVars
      <4> QED
        BY <2>3, <4>1, <4>2 DEF Start, TaskReturns
    <3>3. \A r \in Region : Borrowing(r)' = Borrowing(r)
      BY <3>2 DEF Borrowing, Live
    <3>4. \A r \in Region : RegionSafe(r)'
      BY <2>1, <3>1, <3>3, RegionKeeps DEF regionVars
    <3> QED
      BY <3>2, <3>4, RegionWisePrimed
  <2>4. ASSUME NEW w \in PoolWorker, NEW ok \in BOOLEAN, Report(w, ok)
        PROVE  RegionsAreSafe'
    BY <2>1, <2>4, ReportStep, RegionWisePrimed
  <2>5. CASE UNCHANGED asyncVars
    <3>1. UNCHANGED <<poolVars, regionVars, reported>>
      BY <2>5 DEF asyncVars
    <3>2. (\A r : Borrowing(r)' = Borrowing(r)) /\ AsyncPool!Running' = AsyncPool!Running
      BY <3>1, CallerKeepsLive
    <3>3. AsyncTypeOK' /\ (reported \subseteq AsyncPool!Running \cup async_finished)'
      BY <2>1, <3>1, <3>2 DEF AsyncTypeOK, EntriesFit, poolVars, regionVars
    <3>4. \A r \in Region : RegionSafe(r)'
      BY <2>1, <3>1, <3>2, RegionKeeps DEF regionVars
    <3> QED
      BY <3>3, <3>4, RegionWisePrimed
  <2> QED
    BY <2>2, <2>3, <2>4, <2>5 DEF AsyncNext, TaskStep
<1> QED
  BY <1>1, <1>2, PTL DEF AsyncSpec

-----------------------------------------------------------------------------
(* The process runner *)

\* The actions of one call, its child and its tool, all but PEREDUR's death.
Acts(c) == CallStep(c) \/ ChildStep(c) \/ ToolStep(c) \/ Expire(c) \/ Cancel(c)

LEMMA InitKeeps == ExecInit => KillsAreFinal
BY DEF ExecInit, KillsAreFinal, ExecTypeOK, CallsArePlaced, NoOrphanIsArmed, NoGroupOutlivesAKill,
       KilledToolsGiveNoAnswer, ToolDiesWithPeredur, CallPC, ChildState, Over

-----------------------------------------------------------------------------
(* Types *)

LEMMA EndsAre ==
    ASSUME CallAssumption, NEW p \in Process, NEW q \in Call, NEW flag \in BOOLEAN
    PROVE  End(p, q, flag) \in [holder : Process, pipe : Call, cloexec : BOOLEAN]
BY DEF End

LEMMA ProcessesAre ==
    ASSUME NEW c \in Call
    PROVE  Peredur \in Process /\ Tool(c) \in Process /\ Helper(c) \in Process
BY DEF Process

\* The write ends after any step are ends of the calls' pipes.
EndsOK == ends \subseteq [holder : Process, pipe : Call, cloexec : BOOLEAN]

LEMMA EndsStay ==
    ASSUME CallAssumption, ExecTypeOK, [ExecNext]_execVars
    PROVE  EndsOK'
<1> DEFINE E == [holder : Process, pipe : Call, cloexec : BOOLEAN]
<1>1. ends \subseteq E
  BY DEF ExecTypeOK
<1>2. ASSUME NEW c \in Call, MakePipe(c) PROVE ends' \subseteq E
  <2>1. FlagAtOnce \in BOOLEAN
    BY DEF FlagAtOnce, HasPipe2
  <2> QED BY <1>1, <1>2, <2>1, EndsAre, ProcessesAre DEF MakePipe
<1>3. ASSUME NEW c \in Call, MarkCloexec(c) PROVE ends' \subseteq E
  BY <1>1, <1>3, EndsAre, ProcessesAre DEF MarkCloexec
<1>4. ASSUME NEW c \in Call, Fork(c) PROVE ends' \subseteq E
  <2>1. ASSUME NEW e \in ends PROVE End(Tool(c), e.pipe, e.pipe # c /\ e.cloexec) \in E
    <3>1. e.pipe \in Call /\ (e.pipe # c /\ e.cloexec) \in BOOLEAN
      BY <1>1
    <3> QED BY <3>1, EndsAre, ProcessesAre
  <2> QED BY <1>1, <1>4, <2>1 DEF Fork
<1>5. ASSUME NEW c \in Call, ToolForks(c) PROVE ends' \subseteq E
  <2>1. ASSUME NEW e \in ends PROVE End(Helper(c), e.pipe, e.cloexec) \in E
    <3>1. e.pipe \in Call /\ e.cloexec \in BOOLEAN
      BY <1>1
    <3> QED BY <3>1, EndsAre, ProcessesAre
  <2> QED BY <1>1, <1>5, <2>1 DEF ToolForks
<1>6. ASSUME ends' \subseteq ends PROVE ends' \subseteq E
  BY <1>1, <1>6
<1>7. ASSUME NEW c \in Call, Acts(c) PROVE ends' \subseteq E
  <2>1. CASE Enter(c) \/ TakeGuard(c) \/ ReadEof(c) \/ Reap(c) \/ PollChild(c)
    BY <1>6, <2>1 DEF Enter, TakeGuard, ReadEof, Reap, PollChild, procVars
  <2>2. CASE Adopt(c) \/ ReadStops(c) \/ Nap(c)
    BY <1>6, <2>2 DEF Adopt, ReadStops, Nap, kill_process_tree, Without, procVars
  <2>3. CASE ChildStep(c)
    BY <1>6, <2>3 DEF ChildStep, SetPgid, Arm, CheckParent, Exec, Exits, Without
  <2>4. CASE ToolCloses(c) \/ ToolExits(c) \/ HelperExits(c)
    BY <1>6, <2>4 DEF ToolCloses, ToolExits, HelperExits, Exits, Without
  <2>5. CASE Expire(c) \/ Cancel(c)
    BY <1>6, <2>5 DEF Expire, Cancel, procVars
  <2> QED BY <1>2, <1>3, <1>4, <1>5, <1>7, <2>1, <2>2, <2>3, <2>4, <2>5
          DEF Acts, CallStep, ToolStep
<1>8. ASSUME PeredurDies PROVE ends' \subseteq E
  BY <1>6, <1>8 DEF PeredurDies, Without
<1>9. ASSUME UNCHANGED execVars PROVE ends' \subseteq E
  BY <1>6, <1>9 DEF execVars, procVars
<1> QED BY <1>7, <1>8, <1>9 DEF ExecNext, Acts, EndsOK
-----------------------------------------------------------------------------
(* The steps *)

\* The invariant for one call: what a step of another call leaves alone.
CallOK(c) ==
    /\ exec_pc[c] \in CallPC /\ child[c] \in ChildState /\ helper[c] \in {"none", "runs", "dead"}
    /\ c \in cancelled => c \in cancel
    /\ exec_pc[c] \in {"entry", "spawn", "pipe", "mark", "fork"} => child[c] = "none"
    /\ exec_pc[c] \in {"adopt", "read", "reap", "nap"} => child[c] \notin {"none", "reaped"}
    /\ exec_pc[c] = "returned" => child[c] = "reaped" /\ c \notin cancelled
    /\ exec_pc[c] = "threw" => child[c] \in {"none", "reaped"}
    /\ c \in timed_out => child[c] \in {"dead", "reaped"} /\ helper[c] # "runs"
    /\ c \in killed \cup cancelled => c \in timed_out
    /\ ~alive => child[c] \notin {"checked", "tool"}

\* The rest of it.
SharedOK ==
    /\ DOMAIN exec_pc = Call /\ DOMAIN child = Call /\ DOMAIN helper = Call
    /\ exec_pc = [c \in Call |-> exec_pc[c]] /\ child = [c \in Call |-> child[c]]
    /\ helper = [c \in Call |-> helper[c]]
    /\ spawn_mutex \in Call \cup {NoCall, NoMutex}
    /\ cancel \subseteq Watched /\ cancelled \subseteq Call
    /\ expired \subseteq Bounded /\ timed_out \subseteq Call
    /\ killed \subseteq Call /\ alive \in BOOLEAN

LEMMA CallByCall ==
    ASSUME CallAssumption, KillsAreFinal
    PROVE  EndsOK /\ SharedOK /\ \A c \in Call : CallOK(c)
<1>1. EndsOK
  BY DEF KillsAreFinal, ExecTypeOK, EndsOK
<1>2. SharedOK
  BY DEF KillsAreFinal, ExecTypeOK, SharedOK, CallAssumption
<1>3. ASSUME NEW c \in Call PROVE CallOK(c)
  BY DEF KillsAreFinal, ExecTypeOK, CallsArePlaced, NoOrphanIsArmed, NoGroupOutlivesAKill,
         KilledToolsGiveNoAnswer, ToolDiesWithPeredur, CallOK, Over
<1> QED BY <1>1, <1>2, <1>3

LEMMA AllTogether ==
    ASSUME EndsOK', SharedOK', \A c \in Call : CallOK(c)'
    PROVE  KillsAreFinal'
<1>1. ExecTypeOK'
  BY DEF EndsOK, SharedOK, CallOK, ExecTypeOK
<1>2. CallsArePlaced'
  BY DEF CallOK, CallsArePlaced
<1>3. NoGroupOutlivesAKill' /\ KilledToolsGiveNoAnswer'
  BY DEF CallOK, NoGroupOutlivesAKill, KilledToolsGiveNoAnswer, Over
<1>4. NoOrphanIsArmed' /\ ToolDiesWithPeredur'
  BY DEF CallOK, NoOrphanIsArmed, ToolDiesWithPeredur
<1> QED BY <1>1, <1>2, <1>3, <1>4 DEF KillsAreFinal

\* A step of one call changes nothing of another's.
LEMMA OthersStay ==
    ASSUME CallAssumption, SharedOK, NEW c \in Call, NEW d \in Call, d # c, CallOK(d), Acts(c)
    PROVE  CallOK(d)'
<1> USE DEF CallOK, SharedOK, callVars, procVars, processOnly, Goto, ReleaseGuard
<1>1. CASE Enter(c) \/ TakeGuard(c) \/ MakePipe(c) \/ MarkCloexec(c) \/ Fork(c) \/ Adopt(c)
  <2>1. CASE Enter(c) \/ TakeGuard(c)
    BY <2>1 DEF Enter, TakeGuard
  <2>2. CASE MakePipe(c) \/ MarkCloexec(c)
    BY <2>2 DEF MakePipe, MarkCloexec
  <2>3. CASE Fork(c) \/ Adopt(c)
    BY <2>3 DEF Fork, Adopt
  <2> QED BY <1>1, <2>1, <2>2, <2>3
<1>2. CASE ReadEof(c) \/ ReadStops(c) \/ Reap(c) \/ PollChild(c) \/ Nap(c)
  BY <1>2 DEF ReadEof, ReadStops, Reap, PollChild, Nap, kill_process_tree, MarksTimeOut
<1>3. CASE ChildStep(c)
  BY <1>3 DEF ChildStep, SetPgid, Arm, CheckParent, Exec, Exits, ChildBecomes
<1>4. CASE ToolStep(c) \/ Expire(c) \/ Cancel(c)
  BY <1>4 DEF ToolStep, ToolCloses, ToolExits, ToolForks, HelperExits, Exits, Expire, Cancel
<1> QED BY <1>1, <1>2, <1>3, <1>4 DEF Acts, CallStep

\* Nor does it break its own.
LEMMA OwnStays ==
    ASSUME CallAssumption, SharedOK, NEW c \in Call, CallOK(c), Acts(c)
    PROVE  CallOK(c)'
<1> USE DEF CallOK, SharedOK, callVars, procVars, processOnly, Goto, ReleaseGuard, CallPC, ChildState
<1>1. CASE alive /\ (Enter(c) \/ TakeGuard(c))
  BY <1>1 DEF Enter, TakeGuard
<1>2. CASE alive /\ (MakePipe(c) \/ MarkCloexec(c))
  BY <1>2 DEF MakePipe, MarkCloexec
<1>3. CASE alive /\ (Fork(c) \/ Adopt(c))
  BY <1>3 DEF Fork, Adopt
<1>4. CASE alive /\ (ReadEof(c) \/ PollChild(c))
  BY <1>4 DEF ReadEof, PollChild
<1>5. CASE alive /\ ReadStops(c)
  BY <1>5 DEF ReadStops, kill_process_tree, MarksTimeOut, KilledBy, exec_cancelled
<1>6. CASE alive /\ Nap(c)
  BY <1>6 DEF Nap, kill_process_tree, MarksTimeOut, KilledBy
<1>7. CASE alive /\ Reap(c)
  BY <1>7 DEF Reap, Outcome
<1>8. CASE SetPgid(c) \/ Arm(c)
  BY <1>8 DEF SetPgid, Arm, ChildBecomes
<1>9. CASE CheckParent(c)
  BY <1>9 DEF CheckParent, ParentGone, Exits, ChildBecomes
<1>10. CASE Exec(c)
  BY <1>10 DEF Exec, Exits, ChildBecomes
<1>11. CASE ToolStep(c)
  BY <1>11 DEF ToolStep, ToolCloses, ToolExits, ToolForks, HelperExits, Exits
<1>12. CASE Expire(c) \/ Cancel(c)
  BY <1>12 DEF Expire, Cancel
<1> QED BY <1>1, <1>2, <1>3, <1>4, <1>5, <1>6, <1>7, <1>8, <1>9, <1>10, <1>11, <1>12
        DEF Acts, CallStep, ChildStep

LEMMA SharedStays ==
    ASSUME CallAssumption, SharedOK, NEW c \in Call, Acts(c)
    PROVE  SharedOK'
<1> USE DEF SharedOK, callVars, procVars, processOnly, Goto, ReleaseGuard, CallAssumption
<1>1. CASE Enter(c) \/ TakeGuard(c) \/ MakePipe(c) \/ MarkCloexec(c) \/ Fork(c) \/ Adopt(c)
  <2>1. CASE Enter(c)
    BY <2>1 DEF Enter
  <2>2. CASE TakeGuard(c)
    BY <2>2 DEF TakeGuard
  <2>3. CASE MakePipe(c) \/ MarkCloexec(c)
    BY <2>3 DEF MakePipe, MarkCloexec
  <2>4. CASE Fork(c)
    BY <2>4 DEF Fork
  <2>5. CASE Adopt(c)
    BY <2>5 DEF Adopt
  <2> QED BY <1>1, <2>1, <2>2, <2>3, <2>4, <2>5
<1>2. CASE ReadEof(c) \/ ReadStops(c) \/ Reap(c) \/ PollChild(c) \/ Nap(c)
  BY <1>2 DEF ReadEof, ReadStops, Reap, PollChild, Nap, kill_process_tree, MarksTimeOut
<1>3. CASE ChildStep(c)
  BY <1>3 DEF ChildStep, SetPgid, Arm, CheckParent, Exec, Exits, ChildBecomes
<1>4. CASE ToolStep(c) \/ Expire(c) \/ Cancel(c)
  BY <1>4 DEF ToolStep, ToolCloses, ToolExits, ToolForks, HelperExits, Exits, Expire, Cancel
<1> QED BY <1>1, <1>2, <1>3, <1>4 DEF Acts, CallStep

LEMMA DeathKeeps ==
    ASSUME CallAssumption, SharedOK, \A c \in Call : CallOK(c), PeredurDies
    PROVE  SharedOK' /\ \A c \in Call : CallOK(c)'
<1>1. SharedOK'
  BY DEF PeredurDies, SharedOK, callVars
<1>2. ASSUME NEW c \in Call PROVE CallOK(c)'
  BY DEF PeredurDies, CallOK, SharedOK, callVars, ChildState
<1> QED BY <1>1, <1>2

LEMMA StepKeeps ==
    ASSUME CallAssumption, KillsAreFinal, [ExecNext]_execVars
    PROVE  KillsAreFinal'
<1>1. EndsOK /\ SharedOK /\ \A c \in Call : CallOK(c)
  BY CallByCall
<1>2. EndsOK'
  BY EndsStay DEF KillsAreFinal
<1>3. SharedOK' /\ \A c \in Call : CallOK(c)'
  <2>1. ASSUME NEW c \in Call, Acts(c) PROVE SharedOK' /\ \A d \in Call : CallOK(d)'
    BY <1>1, <2>1, OthersStay, OwnStays, SharedStays
  <2>2. CASE PeredurDies
    BY <1>1, <2>2, DeathKeeps
  <2>3. CASE UNCHANGED execVars
    BY <1>1, <2>3 DEF execVars, callVars, procVars, SharedOK, CallOK
  <2> QED BY <2>1, <2>2, <2>3 DEF ExecNext, Acts
<1> QED BY <1>2, <1>3, AllTogether

\* Whatever the calls, the tools and the kernel's scheduler do, and whether or
\* not PEREDUR is killed in the middle of it.
THEOREM KillsAreAlwaysFinal ==
    ASSUME CallAssumption
    PROVE  ExecSpec => []KillsAreFinal
<1>1. KillsAreFinal /\ [ExecNext]_execVars => KillsAreFinal'
  BY StepKeeps
<1> QED BY <1>1, InitKeeps, PTL DEF ExecSpec
=============================================================================
