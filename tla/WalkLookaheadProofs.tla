------------------------- MODULE WalkLookaheadProofs -------------------------
(***************************************************************************)
(* What TLAPS proves of the walk with its lookahead, for any parts and     *)
(* admission order, any oracle, any depth and any number of workers: the   *)
(* promises of LookaheadIsSound, and that every step of the walk, with     *)
(* queries asked ahead, killed or failed, is one of the serial walk or     *)
(* none of its.                                                            *)
(***************************************************************************)
EXTENDS WalkLookahead, WellFoundedInduction, TLAPS

-----------------------------------------------------------------------------
(* The admission order *)

LEMMA Order ==
    /\ Len(m_order) \in Nat
    /\ DOMAIN m_order = 1 .. Len(m_order)
    /\ \A k \in 1 .. Len(m_order) : m_order[k] \in Part
    /\ \A p \in Part : \E k \in 1 .. Len(m_order) : p = m_order[k]
    /\ \A j, k \in 1 .. Len(m_order) : m_order[j] = m_order[k] => j = k
<1>1. m_order \in Seq(Part) /\ IsInjective(m_order)
  BY LookaheadAssumption
<1>2. Len(m_order) \in Nat /\ DOMAIN m_order = 1 .. Len(m_order)
  BY <1>1
<1>3. \A p \in Part : \E k \in 1 .. Len(m_order) : p = m_order[k]
  BY <1>2 DEF Part, Range
<1>4. \A k \in 1 .. Len(m_order) : m_order[k] \in Part
  BY <1>2 DEF Part, Range
<1>5. \A j, k \in 1 .. Len(m_order) : m_order[j] = m_order[k] => j = k
  BY <1>1, <1>2 DEF IsInjective
<1> QED BY <1>2, <1>3, <1>4, <1>5

LEMMA Numbers == m_depth \in Nat \ {0} /\ PoolSize \in Nat
BY LookaheadAssumption

\* A nonempty set of positions has a last one.
LEMMA LastPosition ==
    ASSUME NEW n \in Nat, NEW T \in SUBSET (1 .. n), T # {}
    PROVE  \E x \in T : \A y \in T : y <= x
<1> DEFINE U == {n - x : x \in T}
<1>1. U \in SUBSET Nat /\ U # {}
  <2>1. \A x \in T : n - x \in Nat
    OBVIOUS
  <2> QED BY <2>1
<1>2. PICK u \in U : \A v \in U : ~ (<<v, u>> \in OpToRel(<, Nat))
  BY <1>1, NatLessThanWellFounded, WFMin
<1>3. PICK x \in T : u = n - x
  BY <1>2
<1>4. ASSUME NEW y \in T, x < y PROVE FALSE
  <2>1. n - y \in U /\ n - y \in Nat /\ u \in Nat /\ n - y < u
    BY <1>1, <1>3, <1>4
  <2>2. <<n - y, u>> \in OpToRel(<, Nat)
    BY <2>1 DEF OpToRel
  <2> QED BY <1>2, <2>1, <2>2
<1> QED BY <1>3, <1>4

-----------------------------------------------------------------------------
(* What the walk may still ask *)

\* reachable, with the bound on the steps ahead and one step's sets named.
Limit ==
    IF step + 1 + m_depth <= Len(m_order) THEN m_depth ELSE Len(m_order) - step - 1
Ahead(a) ==
    {kept \cup Q \cup {m_order[step + 1 + a]} : Q \in SUBSET {m_order[k] : k \in step + 1 .. step + a}}

LEMMA ReachableAhead == reachable = UNION {Ahead(a) : a \in 1 .. Limit}
BY DEF reachable, Before, Ahead, Limit

LEMMA LimitIsNear ==
    ASSUME step \in Nat, step < Len(m_order)
    PROVE  Limit \in Nat /\ Limit <= m_depth /\ step + 1 + Limit <= Len(m_order)
<1>1. Len(m_order) \in Nat /\ m_depth \in Nat
  BY Order, Numbers
<1>2. CASE step + 1 + m_depth <= Len(m_order)
  BY <1>1, <1>2 DEF Limit
<1>3. CASE ~(step + 1 + m_depth <= Len(m_order))
  BY <1>1, <1>3 DEF Limit
<1> QED BY <1>2, <1>3

\* Where the walk handles a query, the sets it foresees are those with the kept
\* parts, any of the parts from the query's on, and one beyond it, no further
\* than the depth.
LEMMA ReachableIsNotGone ==
    ASSUME step \in Nat, step < Len(m_order), kept \subseteq Settled,
           NEW n \in reachable
    PROVE  /\ n \in Set /\ ~Gone(n)
           /\ \A k \in step + 2 + m_depth .. Len(m_order) : m_order[k] \notin n
<1> DEFINE L == Len(m_order)
<1>1. Limit \in Nat /\ Limit <= m_depth /\ step + 1 + Limit <= L
  BY LimitIsNear
<1>2. PICK ahead \in 1 .. Limit : n \in Ahead(ahead)
  BY ReachableAhead
<1>3. PICK Q \in SUBSET {m_order[k] : k \in step + 1 .. step + ahead} :
        n = kept \cup Q \cup {m_order[step + 1 + ahead]}
  BY <1>2 DEF Ahead
<1>4. \A p \in Q : \E k \in step + 1 .. step + ahead : p = m_order[k]
  BY <1>3
<1>5. \A p \in kept : \E k \in 1 .. step : p = m_order[k]
  BY DEF Settled
<1>6. \A p \in n : p \in kept \/ \E k \in step + 1 .. step + 1 + ahead : p = m_order[k]
  BY <1>1, <1>3, <1>4
<1>7. n \in Set
  <2>1. n \subseteq Part
    BY <1>1, <1>5, <1>6, Order
  <2>2. n # {}
    BY <1>3
  <2> QED BY <2>1, <2>2 DEF Set
<1>8. n \cap Settled = kept
  <2>1. ASSUME NEW p \in n, p \in Settled PROVE p \in kept
    <3>1. PICK j \in 1 .. step : p = m_order[j]
      BY <2>1 DEF Settled
    <3> QED BY <1>1, <1>6, <3>1, Order
  <2> QED BY <1>3, <2>1
<1>9. step + 1 + ahead \in step + 2 .. L /\ m_order[step + 1 + ahead] \in n
  BY <1>1, <1>3, Order
<1>10. ASSUME NEW k \in step + 2 + m_depth .. L, m_order[k] \in n PROVE FALSE
  <2>1. \E j \in 1 .. step + 1 + ahead : m_order[k] = m_order[j]
    BY <1>1, <1>5, <1>6, <1>10
  <2> QED BY <1>1, <2>1, Order, Numbers
<1> QED BY <1>7, <1>8, <1>9, <1>10 DEF Gone

\* And a node near enough is among them, or gone: refresh lets go of nothing
\* the walk may ask.
LEMMA OutOfReachIsGone ==
    ASSUME step \in Nat, step < Len(m_order), kept \subseteq Settled,
           NEW n \in Set, n \notin reachable,
           \A k \in step + 2 + m_depth .. Len(m_order) : m_order[k] \notin n
    PROVE  Gone(n)
<1> SUFFICES ASSUME n \cap Settled = kept,
                    NEW k0 \in step + 2 .. Len(m_order), m_order[k0] \in n
             PROVE  FALSE
  BY DEF Gone
<1> DEFINE L == Len(m_order)
           T == {k \in 1 .. L : m_order[k] \in n}
<1>1. k0 \in T
  BY Order
<1>2. PICK last \in T : \A k \in T : k <= last
  <2>1. T \in SUBSET (1 .. L) /\ T # {} /\ L \in Nat
    BY <1>1, Order
  <2> HIDE DEF T, L
  <2> QED BY <2>1, LastPosition
<1> DEFINE ahead == last - step - 1
           Q == {p \in n : p \notin Settled /\ p # m_order[last]}
<1>3. last \in step + 2 .. L /\ last < step + 2 + m_depth /\ m_order[last] \in n
  BY <1>1, <1>2, Order, Numbers
<1>4. ahead \in 1 .. Limit
  BY <1>3, Order, Numbers DEF Limit
<1>5. step + 1 + ahead = last /\ step + ahead = last - 1
  BY <1>3, Order
<1>6. Q \subseteq {m_order[k] : k \in step + 1 .. last - 1}
  <2> SUFFICES ASSUME NEW p \in Q PROVE \E k \in step + 1 .. last - 1 : p = m_order[k]
    OBVIOUS
  <2>1. PICK k \in 1 .. L : p = m_order[k]
    BY Order DEF Set
  <2>2. k \in T
    BY <2>1
  <2>3. k <= last /\ k # last /\ k \notin 1 .. step
    BY <1>2, <2>1, <2>2 DEF Settled
  <2> QED BY <1>3, <2>1, <2>3, Order
<1>7. n = kept \cup Q \cup {m_order[last]}
  BY <1>3
<1>8. n \in Ahead(ahead)
  <2> HIDE DEF ahead, Q, T
  <2> QED BY <1>5, <1>6, <1>7 DEF Ahead
<1> QED BY <1>4, <1>8, ReachableAhead

\* The query's own set is past asking ahead.
LEMMA QueryIsGone ==
    ASSUME step \in Nat, step < Len(m_order), kept \subseteq Settled
    PROVE  Gone(Query)
<1>1. \A k \in step + 2 .. Len(m_order) : m_order[k] \notin Query
  BY Order DEF Query, Settled
<1> QED BY <1>1 DEF Gone

\* The query after this one, whichever way this one goes, is foreseen.
LEMMA NextQueryIsReachable ==
    ASSUME step \in Nat, step + 1 < Len(m_order),
           NEW k, k \in {kept, kept \cup {m_order[step + 1]}}
    PROVE  k \cup {m_order[step + 2]} \in reachable
<1> DEFINE Q == k \ kept
<1>1. 1 \in 1 .. Limit
  BY Order, Numbers DEF Limit
<1>2. {m_order[j] : j \in step + 1 .. step + 1} = {m_order[step + 1]}
  OBVIOUS
<1>3. step + 1 + 1 = step + 2
  OBVIOUS
<1>4. Q \in SUBSET {m_order[j] : j \in step + 1 .. step + 1} /\ k = kept \cup Q
  BY <1>2
<1>5. k \cup {m_order[step + 2]} \in Ahead(1)
  <2> HIDE DEF Q
  <2> QED BY <1>3, <1>4 DEF Ahead
<1> QED BY <1>1, <1>5, ReachableAhead

-----------------------------------------------------------------------------
(* The invariant *)

\* LookaheadIsSound but for what follows from the rest of it.
Core ==
    /\ TypeOK /\ NoTaskOutlivesTheWalk /\ AwaitedIsNotKilled /\ NextQueryWasForeseen
    /\ MemoIsTruthful /\ WalkIsPlaced /\ NodesAreBooked /\ OwnIsTheQuerys

LEMMA CoreIsEnough == Core <=> LookaheadIsSound
<1>1. Core => DroppedStaysOutOfReach
  <2> SUFFICES ASSUME Core, NEW n \in Set, m_state[n] # "none", n \notin m_nodes,
                      pc \in {"drop", "launch"}, n \in reachable
               PROVE  FALSE
    BY DEF DroppedStaysOutOfReach
  <2>1. step \in Nat /\ step < Len(m_order) /\ kept \subseteq Settled
    BY Order DEF Core, TypeOK, WalkIsPlaced, Querying
  <2>2. Gone(n)
    BY DEF Core, NodesAreBooked, IsBooked
  <2> QED BY <2>1, <2>2, ReachableIsNotGone
<1> QED BY <1>1 DEF Core, LookaheadIsSound

\* What is memoised of a true memo's answer is true.
LEMMA MemoiseIsTruthful ==
    ASSUME MemoIsTruthful, NEW n, verdict' = verdict, memo' = Memoise(n, Answer(n))
    PROVE  MemoIsTruthful'
<1>1. CASE n \in DOMAIN memo
  BY <1>1 DEF MemoIsTruthful, Memoise
<1>2. CASE n \notin DOMAIN memo
  <2>1. memo' = [s \in DOMAIN memo \cup {n} |-> IF s = n THEN verdict[n] ELSE memo[s]]
    BY <1>2 DEF Memoise, Answer
  <2> QED BY <2>1 DEF MemoIsTruthful
<1> QED BY <1>1, <1>2

\* While no part is settled, nothing comes into reach or goes out of it.
LEMMA Unsettled ==
    ASSUME UNCHANGED <<step, kept>>
    PROVE  /\ reachable' = reachable /\ Settled' = Settled /\ Query' = Query
           /\ \A n : Gone(n)' <=> Gone(n)
<1>1. step' = step /\ kept' = kept
  OBVIOUS
<1>2. reachable' = reachable /\ Settled' = Settled /\ Query' = Query
  BY <1>1 DEF reachable, Before, Settled, Query
<1>3. \A n : Gone(n)' <=> Gone(n)
  BY <1>1, <1>2 DEF Gone
<1> QED BY <1>2, <1>3

LEMMA InitCore == Init => Core
<1> SUFFICES ASSUME Init PROVE Core
  OBVIOUS
<1>1. Settled = {}
  BY DEF Init, Settled
<1>2. DOMAIN memo = {}
  BY DEF Init
<1>3. TypeOK
  BY <1>2, Order, Numbers DEF Init, TypeOK, WalkPC, NoNode
<1>4. WalkIsPlaced /\ OwnIsTheQuerys /\ AwaitedIsNotKilled /\ NoTaskOutlivesTheWalk
  BY <1>1 DEF Init, WalkIsPlaced, OwnIsTheQuerys, AwaitedIsNotKilled, NoTaskOutlivesTheWalk,
              Querying
<1>5. NodesAreBooked
  BY DEF Init, NodesAreBooked, IsBooked
<1>6. NextQueryWasForeseen /\ MemoIsTruthful
  BY <1>2 DEF Init, NextQueryWasForeseen, MemoIsTruthful
<1> QED BY <1>3, <1>4, <1>5, <1>6 DEF Core

\* The query's node leaves m_nodes, and is waited for if it has started.
LEMMA BeforeQueryKeeps ==
    ASSUME Core, BeforeQuery
    PROVE  Core'
<1> USE DEF Core
<1>1. UNCHANGED <<verdict, step, kept>>
  BY DEF BeforeQuery, walkVars
<1>2. /\ reachable' = reachable /\ Settled' = Settled /\ Query' = Query
      /\ \A m : Gone(m)' <=> Gone(m)
  BY <1>1, Unsettled
<1>3. TypeOK'
  BY Order, Numbers DEF TypeOK, BeforeQuery, walkVars, nodeVars, WalkPC, OtherNodes, OwnCancelled, Cancel
<1>4. WalkIsPlaced'
  BY <1>2 DEF WalkIsPlaced, Querying, BeforeQuery, walkVars, nodeVars
<1>5. NodesAreBooked'
  <2> SUFFICES ASSUME NEW m \in Set PROVE IsBooked(m)'
    BY DEF NodesAreBooked
  <2>1. IsBooked(m) /\ (Gone(m)' <=> Gone(m))
    BY <1>2 DEF NodesAreBooked
  <2>2. /\ m_nodes' = m_nodes \ {Query} /\ UNCHANGED <<fault, m_abandon, m_abandoned>>
        /\ pc = "query" /\ pc' = "drop" /\ step < Len(m_order)
        /\ own' = IF Query \in m_nodes /\ m_state'[Query] # "cancelled" THEN Query ELSE NoNode
    BY DEF BeforeQuery, OtherNodes, walkVars
  <2>3. m_state'[m] = IF m \in m_nodes \cap {Query} /\ m_state[m] \in {"pending", "unqueued"}
                        THEN "cancelled" ELSE m_state[m]
    BY DEF BeforeQuery, OwnCancelled, Cancel
  <2>4. m \in m_nodes /\ m \notin m_nodes' => Gone(m)
    <3>1. step \in Nat /\ step < Len(m_order) /\ kept \subseteq Settled
      BY <2>2, Order DEF TypeOK, WalkIsPlaced
    <3> QED BY <2>2, <3>1, QueryIsGone
  <2>5. own = NoNode
    BY <2>2 DEF OwnIsTheQuerys, Querying
  <2>6. m \in Set /\ m # NoNode
    BY DEF Set, NoNode
  <2>7. \A k \in step + 2 + m_depth .. Len(m_order) : m_state[m] # "none" => m_order[k] \notin m
    BY <2>1 DEF IsBooked
  <2> QED BY <1>1, <2>1, <2>2, <2>3, <2>4, <2>5, <2>6, <2>7 DEF IsBooked
<1>6. OwnIsTheQuerys' /\ AwaitedIsNotKilled' /\ NoTaskOutlivesTheWalk'
  BY <1>2 DEF OwnIsTheQuerys, AwaitedIsNotKilled, NoTaskOutlivesTheWalk, Querying, NodesAreBooked,
              IsBooked, BeforeQuery, walkVars, nodeVars, TypeOK, OtherNodes, OwnCancelled, Cancel
<1>7. NextQueryWasForeseen'
  BY <1>1, <1>2 DEF NextQueryWasForeseen, BeforeQuery, walkVars, nodeVars
<1>8. MemoIsTruthful'
  BY <1>1 DEF MemoIsTruthful, BeforeQuery, walkVars, nodeVars
<1> QED BY <1>3, <1>4, <1>5, <1>6, <1>7, <1>8

\* A node out of reach is gone, so letting go of it loses nothing.
LEMMA DropKeeps ==
    ASSUME Core, NEW n \in Set, Drop(n)
    PROVE  Core'
<1> USE DEF Core
<1>1. UNCHANGED <<verdict, step, kept>>
  BY DEF Drop, walkVars
<1>2. /\ reachable' = reachable /\ Settled' = Settled /\ Query' = Query
      /\ \A m : Gone(m)' <=> Gone(m)
  BY <1>1, Unsettled
<1>3. TypeOK'
  BY Order, Numbers DEF TypeOK, Drop, walkVars, nodeVars, WalkPC, Cancel
<1>4. WalkIsPlaced'
  BY <1>2 DEF WalkIsPlaced, Querying, Drop, walkVars, nodeVars
<1>5. NodesAreBooked'
  <2> SUFFICES ASSUME NEW m \in Set PROVE IsBooked(m)'
    BY DEF NodesAreBooked
  <2>1. IsBooked(m) /\ (Gone(m)' <=> Gone(m))
    BY <1>2 DEF NodesAreBooked
  <2>2. /\ m_nodes' = m_nodes \ {n} /\ UNCHANGED <<fault, own, pc>> /\ pc = "drop"
        /\ n \in m_nodes \ reachable
        /\ m_state[n] = "running" => /\ m_abandon' = m_abandon \cup {n}
                                     /\ m_abandoned' = m_abandoned \cup {n}
        /\ m_state[n] # "running" => UNCHANGED <<m_abandon, m_abandoned>>
    BY DEF Drop, OutOfReach, walkVars
  <2>3. m_state'[m] = IF m = n /\ m_state[m] \in {"pending", "unqueued"}
                        THEN "cancelled" ELSE m_state[m]
    BY DEF Drop, Cancel
  <2>4. Gone(n)
    <3>1. step \in Nat /\ step < Len(m_order) /\ kept \subseteq Settled
      BY <2>2, Order DEF TypeOK, WalkIsPlaced, Querying
    <3>2. \A k \in step + 2 + m_depth .. Len(m_order) : m_order[k] \notin n
      BY <2>2 DEF NodesAreBooked, IsBooked
    <3> QED BY <2>2, <3>1, <3>2, OutOfReachIsGone
  <2>5. CASE m_state[n] = "running"
    BY <1>1, <2>1, <2>2, <2>3, <2>4, <2>5 DEF IsBooked
  <2>6. CASE m_state[n] # "running"
    BY <1>1, <2>1, <2>2, <2>3, <2>4, <2>6 DEF IsBooked
  <2> QED BY <2>5, <2>6
<1>6. OwnIsTheQuerys' /\ AwaitedIsNotKilled' /\ NoTaskOutlivesTheWalk'
  BY <1>2 DEF OwnIsTheQuerys, AwaitedIsNotKilled, NoTaskOutlivesTheWalk, Querying, NodesAreBooked,
              IsBooked, Drop, walkVars, nodeVars, TypeOK, Cancel, OutOfReach
<1>7. NextQueryWasForeseen'
  BY <1>1, <1>2 DEF NextQueryWasForeseen, Drop, walkVars, nodeVars
<1>8. MemoIsTruthful'
  BY <1>1 DEF MemoIsTruthful, Drop, walkVars, nodeVars
<1> QED BY <1>3, <1>4, <1>5, <1>6, <1>7, <1>8

\* Only nodes that are done are forgotten.
LEMMA CountIdleKeeps ==
    ASSUME Core, CountIdle
    PROVE  Core'
<1> USE DEF Core
<1>1. UNCHANGED <<verdict, step, kept>>
  BY DEF CountIdle, walkVars
<1>2. /\ reachable' = reachable /\ Settled' = Settled /\ Query' = Query
      /\ \A m : Gone(m)' <=> Gone(m)
  BY <1>1, Unsettled
<1>3. TypeOK'
  BY Order, Numbers DEF TypeOK, CountIdle, walkVars, nodeVars, WalkPC
<1>4. WalkIsPlaced'
  BY <1>2 DEF WalkIsPlaced, Querying, CountIdle, walkVars, nodeVars
<1>5. NodesAreBooked'
  <2> SUFFICES ASSUME NEW m \in Set PROVE IsBooked(m)'
    BY DEF NodesAreBooked
  <2>1. IsBooked(m) /\ (Gone(m)' <=> Gone(m))
    BY <1>2 DEF NodesAreBooked
  <2> QED BY <1>1, <2>1 DEF IsBooked, CountIdle, walkVars, nodeVars, TypeOK
<1>6. OwnIsTheQuerys' /\ AwaitedIsNotKilled' /\ NoTaskOutlivesTheWalk'
  BY <1>2 DEF OwnIsTheQuerys, AwaitedIsNotKilled, NoTaskOutlivesTheWalk, Querying, NodesAreBooked,
              IsBooked, CountIdle, walkVars, nodeVars, TypeOK
<1>7. NextQueryWasForeseen'
  BY <1>1, <1>2 DEF NextQueryWasForeseen, CountIdle, walkVars, nodeVars
<1>8. MemoIsTruthful'
  BY <1>1 DEF MemoIsTruthful, CountIdle, walkVars, nodeVars
<1> QED BY <1>3, <1>4, <1>5, <1>6, <1>7, <1>8

\* A node is launched in reach, so it was never dropped before.
LEMMA LaunchKeeps ==
    ASSUME Core, NEW n \in Set, Launch(n)
    PROVE  Core'
<1> USE DEF Core
<1>1. UNCHANGED <<verdict, step, kept>>
  BY DEF Launch, walkVars
<1>2. /\ reachable' = reachable /\ Settled' = Settled /\ Query' = Query
      /\ \A m : Gone(m)' <=> Gone(m)
  BY <1>1, Unsettled
<1>3. TypeOK'
  BY Order, Numbers DEF TypeOK, Launch, walkVars, nodeVars, WalkPC, MayLaunch
<1>4. WalkIsPlaced'
  BY <1>2 DEF WalkIsPlaced, Querying, Launch, walkVars, nodeVars
<1>5. NodesAreBooked'
  <2> SUFFICES ASSUME NEW m \in Set PROVE IsBooked(m)'
    BY DEF NodesAreBooked
  <2>1. IsBooked(m) /\ (Gone(m)' <=> Gone(m))
    BY <1>2 DEF NodesAreBooked
  <2>2. /\ m_nodes' = m_nodes \cup {n} /\ UNCHANGED <<fault, m_abandon, m_abandoned>>
        /\ m_state' = [m_state EXCEPT ![n] = "pending"]
        /\ n \in reachable \ m_nodes /\ pc = "launch"
        /\ UNCHANGED <<pc, own>>
    BY DEF Launch, Wanted, walkVars
  <2>3. m_state'[m] = IF m = n THEN "pending" ELSE m_state[m]
    BY <2>2 DEF TypeOK
  <2>4. /\ ~Gone(n)
        /\ \A k \in step + 2 + m_depth .. Len(m_order) : m_order[k] \notin n
    <3>1. step \in Nat /\ step < Len(m_order) /\ kept \subseteq Settled
      BY <2>2, Order DEF TypeOK, WalkIsPlaced, Querying
    <3> QED BY <2>2, <3>1, ReachableIsNotGone
  <2>5. n \notin m_abandon
    BY <2>2, <2>4 DEF NodesAreBooked, IsBooked
  <2>6. CASE m = n
    BY <1>1, <2>2, <2>3, <2>4, <2>5, <2>6 DEF IsBooked
  <2>7. CASE m # n
    BY <1>1, <2>1, <2>2, <2>3, <2>7 DEF IsBooked
  <2> QED BY <2>6, <2>7
<1>6. OwnIsTheQuerys' /\ AwaitedIsNotKilled' /\ NoTaskOutlivesTheWalk'
  <2>1. step \in Nat /\ step < Len(m_order) /\ kept \subseteq Settled
    BY Order DEF Launch, TypeOK, WalkIsPlaced, Querying
  <2>2. own # NoNode => own # n
    BY <2>1, QueryIsGone, ReachableIsNotGone DEF Launch, Wanted, OwnIsTheQuerys
  <2> QED BY <1>2, <2>2 DEF OwnIsTheQuerys, AwaitedIsNotKilled, NoTaskOutlivesTheWalk, Querying,
             Launch, walkVars, nodeVars
<1>7. NextQueryWasForeseen'
  BY <1>1, <1>2 DEF NextQueryWasForeseen, Launch, walkVars, nodeVars
<1>8. MemoIsTruthful'
  BY <1>1 DEF MemoIsTruthful, Launch, walkVars, nodeVars
<1> QED BY <1>3, <1>4, <1>5, <1>6, <1>7, <1>8

\* A submission that throws leaves a node no task runs.
LEMMA LaunchThrowsKeeps ==
    ASSUME Core, NEW n \in Set, LaunchThrows(n)
    PROVE  Core'
<1> USE DEF Core
<1>1. UNCHANGED <<verdict, step, kept>>
  BY DEF LaunchThrows, walkVars
<1>2. /\ reachable' = reachable /\ Settled' = Settled /\ Query' = Query
      /\ \A m : Gone(m)' <=> Gone(m)
  BY <1>1, Unsettled
<1>3. TypeOK'
  BY Order, Numbers DEF TypeOK, LaunchThrows, walkVars, nodeVars, WalkPC, NoNode
<1>4. WalkIsPlaced'
  BY <1>2 DEF WalkIsPlaced, Querying, LaunchThrows, walkVars, nodeVars
<1>5. NodesAreBooked'
  <2> SUFFICES ASSUME NEW m \in Set PROVE IsBooked(m)'
    BY DEF NodesAreBooked
  <2>1. IsBooked(m) /\ (Gone(m)' <=> Gone(m))
    BY <1>2 DEF NodesAreBooked
  <2>2. /\ m_nodes' = m_nodes \cup {n} /\ UNCHANGED <<fault, m_abandon, m_abandoned>>
        /\ m_state' = [m_state EXCEPT ![n] = "unqueued"]
        /\ n \in reachable \ m_nodes /\ pc = "launch"
        /\ fault = "submit" /\ pc' = "unwind"
    BY DEF LaunchThrows, Wanted, walkVars
  <2>3. m_state'[m] = IF m = n THEN "unqueued" ELSE m_state[m]
    BY <2>2 DEF TypeOK
  <2>4. /\ ~Gone(n)
        /\ \A k \in step + 2 + m_depth .. Len(m_order) : m_order[k] \notin n
    <3>1. step \in Nat /\ step < Len(m_order) /\ kept \subseteq Settled
      BY <2>2, Order DEF TypeOK, WalkIsPlaced, Querying
    <3> QED BY <2>2, <3>1, ReachableIsNotGone
  <2>5. n \notin m_abandon
    BY <2>2, <2>4 DEF NodesAreBooked, IsBooked
  <2>6. CASE m = n
    BY <1>1, <2>2, <2>3, <2>4, <2>5, <2>6 DEF IsBooked
  <2>7. CASE m # n
    BY <1>1, <2>1, <2>2, <2>3, <2>7 DEF IsBooked
  <2> QED BY <2>6, <2>7
<1>6. OwnIsTheQuerys' /\ AwaitedIsNotKilled' /\ NoTaskOutlivesTheWalk'
  BY <1>2 DEF OwnIsTheQuerys, AwaitedIsNotKilled, NoTaskOutlivesTheWalk, Querying, NodesAreBooked,
              IsBooked, LaunchThrows, walkVars, nodeVars, TypeOK, Wanted
<1>7. NextQueryWasForeseen'
  BY <1>1, <1>2 DEF NextQueryWasForeseen, LaunchThrows, walkVars, nodeVars
<1>8. MemoIsTruthful'
  BY <1>1 DEF MemoIsTruthful, LaunchThrows, walkVars, nodeVars
<1> QED BY <1>3, <1>4, <1>5, <1>6, <1>7, <1>8

\* The walk waits for its node, or asks.
LEMMA RefreshEndsKeeps ==
    ASSUME Core, RefreshEnds
    PROVE  Core'
<1> USE DEF Core
<1>1. UNCHANGED <<verdict, step, kept>>
  BY DEF RefreshEnds, walkVars
<1>2. /\ reachable' = reachable /\ Settled' = Settled /\ Query' = Query
      /\ \A m : Gone(m)' <=> Gone(m)
  BY <1>1, Unsettled
<1>3. TypeOK'
  BY Order, Numbers DEF TypeOK, RefreshEnds, walkVars, nodeVars, WalkPC
<1>4. WalkIsPlaced'
  BY <1>2 DEF WalkIsPlaced, Querying, RefreshEnds, walkVars, nodeVars
<1>5. NodesAreBooked'
  <2> SUFFICES ASSUME NEW m \in Set PROVE IsBooked(m)'
    BY DEF NodesAreBooked
  <2>1. IsBooked(m) /\ (Gone(m)' <=> Gone(m))
    BY <1>2 DEF NodesAreBooked
  <2> QED BY <1>1, <2>1 DEF IsBooked, RefreshEnds, walkVars, nodeVars, TypeOK
<1>6. OwnIsTheQuerys' /\ AwaitedIsNotKilled' /\ NoTaskOutlivesTheWalk'
  BY <1>2 DEF OwnIsTheQuerys, AwaitedIsNotKilled, NoTaskOutlivesTheWalk, Querying, NodesAreBooked,
              IsBooked, RefreshEnds, walkVars, nodeVars, TypeOK
<1>7. NextQueryWasForeseen'
  BY <1>1, <1>2 DEF NextQueryWasForeseen, RefreshEnds, walkVars, nodeVars
<1>8. MemoIsTruthful'
  BY <1>1 DEF MemoIsTruthful, RefreshEnds, walkVars, nodeVars
<1> QED BY <1>3, <1>4, <1>5, <1>6, <1>7, <1>8

\* What it waited for is over.
LEMMA AwaitKeeps ==
    ASSUME Core, Await
    PROVE  Core'
<1> USE DEF Core
<1>1. UNCHANGED <<verdict, step, kept>>
  BY DEF Await, walkVars
<1>2. /\ reachable' = reachable /\ Settled' = Settled /\ Query' = Query
      /\ \A m : Gone(m)' <=> Gone(m)
  BY <1>1, Unsettled
<1>3. TypeOK'
  BY Order, Numbers DEF TypeOK, Await, walkVars, nodeVars, WalkPC
<1>4. WalkIsPlaced'
  BY <1>2 DEF WalkIsPlaced, Querying, Await, walkVars, nodeVars
<1>5. NodesAreBooked'
  <2> SUFFICES ASSUME NEW m \in Set PROVE IsBooked(m)'
    BY DEF NodesAreBooked
  <2>1. IsBooked(m) /\ (Gone(m)' <=> Gone(m))
    BY <1>2 DEF NodesAreBooked
  <2> QED BY <1>1, <2>1 DEF IsBooked, Await, walkVars, nodeVars, TypeOK
<1>6. OwnIsTheQuerys' /\ AwaitedIsNotKilled' /\ NoTaskOutlivesTheWalk'
  BY <1>2 DEF OwnIsTheQuerys, AwaitedIsNotKilled, NoTaskOutlivesTheWalk, Querying, NodesAreBooked,
              IsBooked, Await, walkVars, nodeVars, TypeOK
<1>7. NextQueryWasForeseen'
  BY <1>1, <1>2 DEF NextQueryWasForeseen, Await, walkVars, nodeVars
<1>8. MemoIsTruthful'
  BY <1>1 DEF MemoIsTruthful, Await, walkVars, nodeVars
<1> QED BY <1>3, <1>4, <1>5, <1>6, <1>7, <1>8

\* A query that throws leaves behind a node that is over.
LEMMA AskThrowsKeeps ==
    ASSUME Core, AskThrows
    PROVE  Core'
<1> USE DEF Core
<1>1. UNCHANGED <<verdict, step, kept>>
  BY DEF AskThrows, walkVars
<1>2. /\ reachable' = reachable /\ Settled' = Settled /\ Query' = Query
      /\ \A m : Gone(m)' <=> Gone(m)
  BY <1>1, Unsettled
<1>3. TypeOK'
  BY Order, Numbers DEF TypeOK, AskThrows, walkVars, nodeVars, WalkPC, NoNode
<1>4. WalkIsPlaced'
  BY <1>2 DEF WalkIsPlaced, Querying, AskThrows, walkVars, nodeVars
<1>5. NodesAreBooked'
  <2> SUFFICES ASSUME NEW m \in Set PROVE IsBooked(m)'
    BY DEF NodesAreBooked
  <2>1. IsBooked(m) /\ (Gone(m)' <=> Gone(m))
    BY <1>2 DEF NodesAreBooked
  <2>2. m # NoNode /\ (m = own => m_state[m] # "running")
    BY DEF AskThrows, OwnIsTheQuerys, Set, NoNode
  <2> QED BY <1>1, <2>1, <2>2 DEF IsBooked, AskThrows, walkVars, nodeVars, TypeOK
<1>6. OwnIsTheQuerys' /\ AwaitedIsNotKilled' /\ NoTaskOutlivesTheWalk'
  BY <1>2 DEF OwnIsTheQuerys, AwaitedIsNotKilled, NoTaskOutlivesTheWalk, Querying, NodesAreBooked,
              IsBooked, AskThrows, walkVars, nodeVars, TypeOK
<1>7. NextQueryWasForeseen'
  BY <1>1, <1>2 DEF NextQueryWasForeseen, AskThrows, walkVars, nodeVars
<1>8. MemoIsTruthful'
  BY <1>1 DEF MemoIsTruthful, AskThrows, walkVars, nodeVars
<1> QED BY <1>3, <1>4, <1>5, <1>6, <1>7, <1>8

\* The destructor leaves nothing that could still start.
LEMMA KillAllKeeps ==
    ASSUME Core, KillAll
    PROVE  Core'
<1> USE DEF Core
<1>1. UNCHANGED <<verdict, step, kept>>
  BY DEF KillAll, walkVars
<1>2. /\ reachable' = reachable /\ Settled' = Settled /\ Query' = Query
      /\ \A m : Gone(m)' <=> Gone(m)
  BY <1>1, Unsettled
<1>3. TypeOK'
  BY Order, Numbers DEF TypeOK, KillAll, walkVars, nodeVars, WalkPC, Cancel
<1>4. WalkIsPlaced'
  BY <1>2 DEF WalkIsPlaced, Querying, KillAll, walkVars, nodeVars
<1>5. NodesAreBooked'
  <2> SUFFICES ASSUME NEW m \in Set PROVE IsBooked(m)'
    BY DEF NodesAreBooked
  <2>1. IsBooked(m) /\ (Gone(m)' <=> Gone(m))
    BY <1>2 DEF NodesAreBooked
  <2> QED BY <1>1, <2>1 DEF IsBooked, KillAll, walkVars, nodeVars, TypeOK, Cancel
<1>6. OwnIsTheQuerys' /\ AwaitedIsNotKilled' /\ NoTaskOutlivesTheWalk'
  BY <1>2 DEF OwnIsTheQuerys, AwaitedIsNotKilled, NoTaskOutlivesTheWalk, Querying, NodesAreBooked,
              IsBooked, KillAll, walkVars, nodeVars, TypeOK, Cancel, Leaving
<1>7. NextQueryWasForeseen'
  BY <1>1, <1>2 DEF NextQueryWasForeseen, KillAll, walkVars, nodeVars
<1>8. MemoIsTruthful'
  BY <1>1 DEF MemoIsTruthful, KillAll, walkVars, nodeVars
<1> QED BY <1>3, <1>4, <1>5, <1>6, <1>7, <1>8

\* It waits for whatever still runs.
LEMMA JoinKeeps ==
    ASSUME Core, Join
    PROVE  Core'
<1>1. UNCHANGED <<verdict, step, kept>>
  BY DEF Join, walkVars
<1>2. /\ reachable' = reachable /\ Settled' = Settled /\ Query' = Query
      /\ \A m : Gone(m)' <=> Gone(m)
  BY <1>1, Unsettled DEF Core
<1> USE DEF Core
<1>3. TypeOK'
  BY Order, Numbers DEF TypeOK, Join, walkVars, nodeVars, WalkPC
<1>4. WalkIsPlaced'
  BY <1>2 DEF WalkIsPlaced, Querying, Join, walkVars, nodeVars
<1>5. NodesAreBooked'
  <2> SUFFICES ASSUME NEW m \in Set PROVE IsBooked(m)'
    BY DEF NodesAreBooked
  <2>1. IsBooked(m) /\ (Gone(m)' <=> Gone(m))
    BY <1>2 DEF NodesAreBooked
  <2> QED BY <1>1, <2>1 DEF IsBooked, Join, walkVars, nodeVars, TypeOK
<1>6. OwnIsTheQuerys' /\ AwaitedIsNotKilled'
  BY <1>2 DEF OwnIsTheQuerys, AwaitedIsNotKilled, Querying, Join, walkVars, nodeVars
<1>9. NoTaskOutlivesTheWalk'
  <2> SUFFICES ASSUME NEW m \in Set, fault # "submit"
               PROVE  m_state[m] \notin {"pending", "running"}
    BY DEF NoTaskOutlivesTheWalk, Join, walkVars, nodeVars
  <2>1. own = NoNode /\ m # NoNode /\ pc = "join"
    BY DEF Join, OwnIsTheQuerys, Querying, Set, NoNode
  <2>2. \A o \in m_nodes \cup m_abandoned : m_state[o] \in {"done", "cancelled"}
    BY DEF Join, Outlasted
  <2> QED BY <2>1, <2>2 DEF NodesAreBooked, IsBooked
<1>7. NextQueryWasForeseen'
  BY <1>1, <1>2 DEF NextQueryWasForeseen, Join, walkVars, nodeVars
<1>8. MemoIsTruthful'
  BY <1>1 DEF MemoIsTruthful, Join, walkVars, nodeVars
<1> QED BY <1>3, <1>4, <1>5, <1>6, <1>7, <1>8, <1>9

\* A pending task has its node in m_nodes, so it is waited for once it runs.
LEMMA TaskStartKeeps ==
    ASSUME Core, NEW n \in Set, TaskStart(n)
    PROVE  Core'
<1> USE DEF Core
<1>1. UNCHANGED <<verdict, step, kept>>
  BY DEF TaskStart, walkVars
<1>2. /\ reachable' = reachable /\ Settled' = Settled /\ Query' = Query
      /\ \A m : Gone(m)' <=> Gone(m)
  BY <1>1, Unsettled
<1>3. TypeOK'
  BY Order, Numbers DEF TypeOK, TaskStart, walkVars, nodeVars, WalkPC
<1>4. WalkIsPlaced'
  BY <1>2 DEF WalkIsPlaced, Querying, TaskStart, walkVars, nodeVars
<1>5. NodesAreBooked'
  <2> SUFFICES ASSUME NEW m \in Set PROVE IsBooked(m)'
    BY DEF NodesAreBooked
  <2>1. IsBooked(m) /\ (Gone(m)' <=> Gone(m))
    BY <1>2 DEF NodesAreBooked
  <2> QED BY <1>1, <2>1 DEF IsBooked, TaskStart, walkVars, nodeVars, TypeOK
<1>6. OwnIsTheQuerys' /\ AwaitedIsNotKilled' /\ NoTaskOutlivesTheWalk'
  BY <1>2 DEF OwnIsTheQuerys, AwaitedIsNotKilled, NoTaskOutlivesTheWalk, Querying, NodesAreBooked,
              IsBooked, TaskStart, walkVars, nodeVars, TypeOK
<1>7. NextQueryWasForeseen'
  BY <1>1, <1>2 DEF NextQueryWasForeseen, TaskStart, walkVars, nodeVars
<1>8. MemoIsTruthful'
  BY <1>1 DEF MemoIsTruthful, TaskStart, walkVars, nodeVars
<1> QED BY <1>3, <1>4, <1>5, <1>6, <1>7, <1>8

\* A task memoises the oracle's answer.
LEMMA TaskAnswersKeeps ==
    ASSUME Core, NEW n \in Set, TaskAnswers(n)
    PROVE  Core'
<1> USE DEF Core
<1>1. UNCHANGED <<verdict, step, kept>>
  BY DEF TaskAnswers, walkVars
<1>2. /\ reachable' = reachable /\ Settled' = Settled /\ Query' = Query
      /\ \A m : Gone(m)' <=> Gone(m)
  BY <1>1, Unsettled
<1>3. TypeOK'
  BY Order, Numbers DEF TypeOK, TaskAnswers, walkVars, nodeVars, WalkPC, Memoise
<1>4. WalkIsPlaced'
  BY <1>2 DEF WalkIsPlaced, Querying, TaskAnswers, walkVars, nodeVars
<1>5. NodesAreBooked'
  <2> SUFFICES ASSUME NEW m \in Set PROVE IsBooked(m)'
    BY DEF NodesAreBooked
  <2>1. IsBooked(m) /\ (Gone(m)' <=> Gone(m))
    BY <1>2 DEF NodesAreBooked
  <2> QED BY <1>1, <2>1 DEF IsBooked, TaskAnswers, walkVars, nodeVars, TypeOK
<1>6. OwnIsTheQuerys' /\ AwaitedIsNotKilled' /\ NoTaskOutlivesTheWalk'
  BY <1>2 DEF OwnIsTheQuerys, AwaitedIsNotKilled, NoTaskOutlivesTheWalk, Querying, NodesAreBooked,
              IsBooked, TaskAnswers, walkVars, nodeVars, TypeOK
<1>7. NextQueryWasForeseen'
  BY <1>1, <1>2 DEF NextQueryWasForeseen, TaskAnswers, walkVars, nodeVars
<1>8. MemoIsTruthful'
  BY <1>1, MemoiseIsTruthful DEF TaskAnswers
<1> QED BY <1>3, <1>4, <1>5, <1>6, <1>7, <1>8

\* A task that is killed, or whose oracle throws, memoises nothing.
LEMMA TaskFailsKeeps ==
    ASSUME Core, NEW n \in Set, TaskFails(n)
    PROVE  Core'
<1> USE DEF Core
<1>1. UNCHANGED <<verdict, step, kept>>
  BY DEF TaskFails, walkVars
<1>2. /\ reachable' = reachable /\ Settled' = Settled /\ Query' = Query
      /\ \A m : Gone(m)' <=> Gone(m)
  BY <1>1, Unsettled
<1>3. TypeOK'
  BY Order, Numbers DEF TypeOK, TaskFails, walkVars, nodeVars, WalkPC, KilledMemo
<1>4. WalkIsPlaced'
  BY <1>2 DEF WalkIsPlaced, Querying, TaskFails, walkVars, nodeVars
<1>5. NodesAreBooked'
  <2> SUFFICES ASSUME NEW m \in Set PROVE IsBooked(m)'
    BY DEF NodesAreBooked
  <2>1. IsBooked(m) /\ (Gone(m)' <=> Gone(m))
    BY <1>2 DEF NodesAreBooked
  <2> QED BY <1>1, <2>1 DEF IsBooked, TaskFails, walkVars, nodeVars, TypeOK
<1>6. OwnIsTheQuerys' /\ AwaitedIsNotKilled' /\ NoTaskOutlivesTheWalk'
  BY <1>2 DEF OwnIsTheQuerys, AwaitedIsNotKilled, NoTaskOutlivesTheWalk, Querying, NodesAreBooked,
              IsBooked, TaskFails, walkVars, nodeVars, TypeOK
<1>7. NextQueryWasForeseen'
  BY <1>1, <1>2 DEF NextQueryWasForeseen, TaskFails, walkVars, nodeVars
<1>8. MemoIsTruthful'
  BY <1>1 DEF MemoIsTruthful, TaskFails, KilledMemo, walkVars, nodeVars
<1> QED BY <1>3, <1>4, <1>5, <1>6, <1>7, <1>8

\* Settling a part puts out of reach what it was foreseen to, and no more.
LEMMA AskKeeps ==
    ASSUME Core, Ask
    PROVE  Core'
<1> USE DEF Core
<1>1. /\ UNCHANGED <<fault, verdict, nodeVars, budget, foreseen>>
      /\ pc = "ask" /\ pc' = "query" /\ own' = NoNode
      /\ step' = step + 1 /\ kept' \in {kept, Query}
      /\ memo' = Memoise(Query, Answer(Query))
  BY DEF Ask
<1>2. step \in Nat /\ step < Len(m_order) /\ kept \subseteq Settled /\ foreseen = reachable
  BY <1>1, Order DEF TypeOK, WalkIsPlaced, Querying
<1>3. Settled' = Settled \cup {m_order[step + 1]} /\ m_order[step + 1] \notin Settled
  <2>1. 1 .. step' = (1 .. step) \cup {step + 1}
    BY <1>1, <1>2
  <2>2. Settled' = {m_order[k] : k \in (1 .. step) \cup {step + 1}}
    BY <2>1 DEF Settled
  <2>3. m_order[step + 1] \notin Settled
    BY <1>2, Order DEF Settled
  <2> QED BY <2>2, <2>3 DEF Settled
<1>4. kept' \subseteq Settled' /\ kept' \cap Settled = kept
  BY <1>1, <1>2, <1>3 DEF Query
<1>5. m_order[step + 1] \in Part /\ Query \in Set /\ kept' \subseteq Part
  <2>1. m_order[step + 1] \in Part
    BY <1>2, Order
  <2> QED BY <1>1, <2>1 DEF TypeOK, Query, Set
<1>6. ASSUME NEW m, Gone(m) PROVE Gone(m)'
  <2>1. CASE m \cap Settled # kept
    BY <1>3, <1>4, <2>1 DEF Gone
  <2>2. CASE \A k \in step + 2 .. Len(m_order) : m_order[k] \notin m
    BY <1>1, <1>2, <2>2, Order DEF Gone
  <2> QED BY <1>6, <2>1, <2>2 DEF Gone
<1>7. TypeOK'
  <2>1. step' \in 0 .. Len(m_order)
    BY <1>1, <1>2, Order
  <2>2. DOMAIN memo' \subseteq Set
    BY <1>1, <1>5 DEF TypeOK, Memoise
  <2> QED BY <1>1, <1>5, <2>1, <2>2 DEF TypeOK, nodeVars, WalkPC, NoNode
<1>8. WalkIsPlaced' /\ OwnIsTheQuerys' /\ AwaitedIsNotKilled' /\ NoTaskOutlivesTheWalk'
  BY <1>1, <1>4 DEF WalkIsPlaced, OwnIsTheQuerys, AwaitedIsNotKilled, NoTaskOutlivesTheWalk,
                    Querying, nodeVars
<1>9. NodesAreBooked'
  <2> SUFFICES ASSUME NEW m \in Set PROVE IsBooked(m)'
    BY DEF NodesAreBooked
  <2>1. IsBooked(m)
    BY DEF NodesAreBooked
  <2>2. m # NoNode /\ (m = own => m_state[m] # "running")
    BY <1>1 DEF OwnIsTheQuerys, Set, NoNode
  <2>3. \A k \in step' + 2 + m_depth .. Len(m_order) : k \in step + 2 + m_depth .. Len(m_order)
    BY <1>1, <1>2, Order, Numbers
  <2> QED BY <1>1, <1>6, <2>1, <2>2, <2>3 DEF IsBooked, nodeVars
<1>10. NextQueryWasForeseen'
  <2> SUFFICES ASSUME step' \in 1 .. Len(m_order) - 1 PROVE Query' \in foreseen'
    BY DEF NextQueryWasForeseen
  <2>1. step + 1 < Len(m_order) /\ step' + 1 = step + 2
    BY <1>1, <1>2, Order
  <2>2. Query' = kept' \cup {m_order[step + 2]}
    BY <2>1 DEF Query
  <2>3. PICK k : k = kept' /\ k \in {kept, kept \cup {m_order[step + 1]}}
    BY <1>1 DEF Query
  <2> QED BY <1>1, <1>2, <2>1, <2>2, <2>3, NextQueryIsReachable
<1>11. MemoIsTruthful'
  BY <1>1, <1>5, MemoiseIsTruthful
<1> QED BY <1>7, <1>8, <1>9, <1>10, <1>11

LEMMA CoreStep ==
    ASSUME Core, [Next]_vars
    PROVE  Core'
<1>1. ASSUME NEW n \in Set, TaskStart(n) \/ TaskEnds(n) PROVE Core'
  BY <1>1, TaskStartKeeps, TaskAnswersKeeps, TaskFailsKeeps DEF TaskEnds
<1>2. CASE Walk
  <2>1. CASE BeforeQuery \/ CountIdle \/ RefreshEnds \/ Await
    BY <2>1, BeforeQueryKeeps, CountIdleKeeps, RefreshEndsKeeps, AwaitKeeps
  <2>2. CASE Ask \/ AskThrows \/ KillAll \/ Join
    BY <2>2, AskKeeps, AskThrowsKeeps, KillAllKeeps, JoinKeeps
  <2>3. ASSUME NEW n \in Set, Drop(n) \/ Launch(n) \/ LaunchThrows(n) PROVE Core'
    BY <2>3, DropKeeps, LaunchKeeps, LaunchThrowsKeeps
  <2> QED BY <1>2, <2>1, <2>2, <2>3 DEF Walk
<1>3. CASE UNCHANGED vars
  <2>1. UNCHANGED <<verdict, step, kept>>
    BY <1>3 DEF vars, walkVars
  <2>2. /\ reachable' = reachable /\ Settled' = Settled /\ Query' = Query
        /\ \A m : Gone(m)' <=> Gone(m)
    BY <2>1, Unsettled
  <2> QED BY <1>3, <2>2 DEF Core, vars, walkVars, nodeVars, TypeOK, NoTaskOutlivesTheWalk,
        AwaitedIsNotKilled, NextQueryWasForeseen, MemoIsTruthful, WalkIsPlaced, Querying,
        NodesAreBooked, IsBooked, OwnIsTheQuerys
<1> QED BY <1>1, <1>2, <1>3 DEF Next

\* The lookahead keeps its promises to the walk, for any parts, order, oracle,
\* depth and pool, however its tasks are scheduled, killed or failed: nothing
\* outlives the walk, what it waits for is never stopped, what it dropped is
\* never asked again, its next query was foreseen, and the memo stays true.
THEOREM LookaheadIsAlwaysSound == LookaheadSpec => []LookaheadIsSound
<1>1. Init => Core
  BY InitCore
<1>2. Core /\ [Next]_vars => Core'
  BY CoreStep
<1>3. Core => LookaheadIsSound
  BY CoreIsEnough
<1> QED BY <1>1, <1>2, <1>3, PTL DEF LookaheadSpec

-----------------------------------------------------------------------------
(* The serial walk *)

\* Every step is a step of the serial walk, or moves none of its state: the
\* walk's answer is the oracle's, whoever asked first.
LEMMA SerialStep ==
    ASSUME Core, [Next]_vars
    PROVE  [Serial!Next]_Serial!walkVars
<1> DEFINE walk == IF pc \in {"scored", "threw"} THEN pc ELSE "walking"
<1>1. CASE Ask
  <2>1. Answer(Query) = verdict[Query]
    BY DEF Core, MemoIsTruthful, Answer
  <2>2. step < Len(m_order) /\ Query = Serial!Query
    BY <1>1 DEF Ask, Core, WalkIsPlaced, Querying, Query, Serial!Query
  <2> QED BY <1>1, <2>1, <2>2 DEF Ask, Serial!Next, Serial!Settle
<1>2. CASE Join
  <2>1. CASE step = Len(m_order)
    BY <1>2, <2>1 DEF Join, walkVars, Serial!Next, Serial!Score
  <2>2. CASE step # Len(m_order)
    BY <1>2, <2>2 DEF Join, walkVars, Serial!Next, Serial!Throw
  <2> QED BY <2>1, <2>2
<1>3. CASE ~Ask /\ ~Join
  <2>1. UNCHANGED <<verdict, step, kept, walk>>
    BY <1>3 DEF Next, Walk, BeforeQuery, Drop, CountIdle, Launch, LaunchThrows, RefreshEnds,
                Await, AskThrows, KillAll, Leaving, TaskStart, TaskEnds, TaskAnswers, TaskFails,
                vars, walkVars
  <2> QED BY <2>1 DEF Serial!walkVars
<1> QED BY <1>1, <1>2, <1>3

\* Speculation changes no outcome: the walk with its lookahead implements the
\* serial walk (the safety part of ImplementsMrsWalk).
THEOREM SpeculationChangesNothing ==
    LookaheadSpec => Serial!Init /\ [][Serial!Next]_Serial!walkVars
<1>1. Init => Serial!Init
  BY DEF Init, Serial!Init
<1>2. Init => Core
  BY InitCore
<1>3. Core /\ [Next]_vars => Core'
  BY CoreStep
<1>4. Core /\ [Next]_vars => [Serial!Next]_Serial!walkVars
  BY SerialStep
<1> QED BY <1>1, <1>2, <1>3, <1>4, PTL DEF LookaheadSpec
=============================================================================
