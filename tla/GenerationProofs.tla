--------------------------- MODULE GenerationProofs ---------------------------
(***************************************************************************)
(* What TLAPS proves of Apportionment and Generation, with SearchProofs    *)
(* for a generation's selection and scoring.                               *)
(*                                                                         *)
(* replicate_to_size is largest remainder with a floor of one, for any     *)
(* ranks and targets (ApportionsFairly).                                   *)
(*                                                                         *)
(* Of the search loop, for any specifications, objectives, filters, gate,  *)
(* rates and budgets: nothing found is lost, every population is screened, *)
(* selection keeps the best and the budget is kept. All four follow from   *)
(* GenerationInv, which says stage by stage what the sequences handed from *)
(* one stage to the next have in common: the sorted parents are the        *)
(* population, the best first; the candidates hold the elites once they    *)
(* are restored, which have stored scores and so survive the scoring; what *)
(* was found is accumulated; and the loop's end has a reason.              *)
(***************************************************************************)
EXTENDS Generation, SearchProofs, FunctionTheorems

-----------------------------------------------------------------------------
(* Induction and recursive functions *)

LEMMA AsManyAs ==
    ASSUME NEW n \in Nat
    PROVE  IsFiniteSet(1 .. n) /\ Cardinality(1 .. n) = n
<1>1. 1 \in Int /\ n \in Int
  OBVIOUS
<1>2. IsFiniteSet(1 .. n) /\ Cardinality(1 .. n) = IF 1 > n THEN 0 ELSE n - 1 + 1
  BY <1>1, FS_Interval
<1> QED BY <1>2

LEMMA SpanIs ==
    ASSUME NEW x \in Nat, NEW y \in Nat, NEW c \in Nat \ {0}, y = x + c
    PROVE  Cardinality(x + 1 .. y) = c
<1>1. x + 1 \in Int /\ y \in Int
  OBVIOUS
<1>2. Cardinality(x + 1 .. y) = IF x + 1 > y THEN 0 ELSE y - (x + 1) + 1
  BY <1>1, FS_Interval
<1> QED BY <1>2

LEMMA UpTo ==
    ASSUME NEW N \in Nat, NEW S, 0 \in S, \A n \in 0 .. N - 1 : n \in S => n + 1 \in S
    PROVE  \A n \in 0 .. N : n \in S
<1> DEFINE missed == {n \in 0 .. N : n \notin S}
<1> SUFFICES ASSUME missed # {} PROVE FALSE
  OBVIOUS
<1>1. missed \in SUBSET Nat
  OBVIOUS
<1>2. PICK n \in missed : \A m \in missed : n <= m
  <2> HIDE DEF missed
  <2> QED BY <1>1, LeastOf
<1>3. n \in Nat /\ n # 0 /\ n <= N
  BY <1>2
<1>4. n - 1 \in 0 .. N - 1 /\ n - 1 \notin missed
  BY <1>2, <1>3
<1> QED BY <1>2, <1>3, <1>4

\* What each step makes of the entry before it, from a first one.
Iterated(f, N, first, step) ==
    f[0] = first /\ \A i \in 1 .. N : f[i] = step[i][f[i - 1]]

LEMMA Iterates ==
    ASSUME NEW N \in Nat, NEW T, NEW first \in T, NEW step \in [1 .. N -> [T -> T]]
    PROVE  \E f \in [0 .. N -> T] : Iterated(f, N, first, step)
<1> DEFINE Is(f, n) == Iterated(f, n, first, step)
           S == {n \in 0 .. N : \E f \in [0 .. n -> T] : Is(f, n)}
<1>1. 0 \in S
  <2> DEFINE g == [i \in 0 .. 0 |-> first]
  <2>1. g \in [0 .. 0 -> T]
    OBVIOUS
  <2>2. Is(g, 0)
    BY DEF Iterated
  <2>3. 0 \in 0 .. N
    OBVIOUS
  <2> HIDE DEF g, Is
  <2> QED BY <2>1, <2>2, <2>3
<1>2. ASSUME NEW n \in 0 .. N - 1, n \in S PROVE n + 1 \in S
  <2>1. PICK f \in [0 .. n -> T] : f[0] = first /\ \A i \in 1 .. n : f[i] = step[i][f[i - 1]]
    BY <1>2 DEF Iterated
  <2> DEFINE g == [i \in 0 .. n + 1 |-> IF i <= n THEN f[i] ELSE step[n + 1][f[n]]]
  <2>2. n \in Nat /\ n + 1 \in 0 .. N /\ n + 1 \in 1 .. N
    OBVIOUS
  <2>3. f[n] \in T /\ step[n + 1][f[n]] \in T
    BY <2>1, <2>2
  <2>4. g \in [0 .. n + 1 -> T]
    BY <2>1, <2>2, <2>3
  <2>5. g[0] = first
    BY <2>1, <2>2
  <2>6. ASSUME NEW i \in 1 .. n + 1 PROVE g[i] = step[i][g[i - 1]]
    <3>1. i - 1 \in 0 .. n /\ g[i - 1] = f[i - 1]
      BY <2>2
    <3>2. CASE i <= n
      BY <2>1, <2>2, <3>1, <3>2
    <3>3. CASE i = n + 1
      <4>1. g[i] = step[n + 1][f[n]]
        BY <2>2, <3>3
      <4>2. i - 1 = n /\ g[i - 1] = f[n]
        BY <2>2, <3>1, <3>3
      <4> HIDE DEF g
      <4> QED BY <3>3, <4>1, <4>2
    <3> QED BY <2>2, <3>2, <3>3
  <2> HIDE DEF g
  <2>7. Is(g, n + 1)
    BY <2>5, <2>6 DEF Iterated
  <2> QED BY <2>2, <2>4, <2>7
<1>3. N \in S
  <2> HIDE DEF S
  <2>1. \A n \in 0 .. N : n \in S
    BY <1>1, <1>2, UpTo
  <2> QED BY <2>1
<1> QED BY <1>3

-----------------------------------------------------------------------------
(* Places in a strict order *)

Before(D, R, i) == {j \in D : <<j, i>> \in R}

StrictlyOrders(R, D) ==
    /\ \A i \in D : <<i, i>> \notin R
    /\ \A i, j, k \in D : <<i, j>> \in R /\ <<j, k>> \in R => <<i, k>> \in R
    /\ \A i, j \in D : i = j \/ <<i, j>> \in R \/ <<j, i>> \in R

\* One that goes ahead has fewer before it, and no place is left empty.
LEMMA PlacesAre ==
    ASSUME NEW D, IsFiniteSet(D), NEW R, StrictlyOrders(R, D)
    PROVE  /\ \A i \in D : Cardinality(Before(D, R, i)) \in 0 .. Cardinality(D) - 1
           /\ \A i, j \in D :
                <<i, j>> \in R <=> Cardinality(Before(D, R, i)) < Cardinality(Before(D, R, j))
           /\ \A i, j \in D :
                Cardinality(Before(D, R, i)) = Cardinality(Before(D, R, j)) => i = j
           /\ \A k \in 0 .. Cardinality(D) - 1 : \E i \in D : Cardinality(Before(D, R, i)) = k
<1> DEFINE place == [i \in D |-> Cardinality(Before(D, R, i))]
           N == Cardinality(D)
<1>1. N \in Nat
  BY FS_CardinalityType
<1>2. ASSUME NEW i \in D
      PROVE  /\ IsFiniteSet(Before(D, R, i)) /\ place[i] \in Nat
             /\ i \notin Before(D, R, i) /\ Before(D, R, i) \in SUBSET D
  <2>1. Before(D, R, i) \in SUBSET D /\ i \notin Before(D, R, i)
    BY DEF Before, StrictlyOrders
  <2>2. IsFiniteSet(Before(D, R, i))
    BY <2>1, FS_Subset
  <2>3. Cardinality(Before(D, R, i)) \in Nat
    BY <2>2, FS_CardinalityType
  <2> QED BY <2>1, <2>2, <2>3
<1>3. ASSUME NEW i \in D, NEW j \in D, <<i, j>> \in R PROVE place[i] < place[j]
  <2>1. Before(D, R, i) \in SUBSET Before(D, R, j)
    BY <1>3 DEF Before, StrictlyOrders
  <2>2. i \in Before(D, R, j) /\ i \notin Before(D, R, i)
    BY <1>2, <1>3 DEF Before
  <2>3. /\ Cardinality(Before(D, R, i)) <= Cardinality(Before(D, R, j))
        /\ Cardinality(Before(D, R, i)) # Cardinality(Before(D, R, j))
    BY <1>2, <2>1, <2>2, FS_Subset
  <2>4. place[i] <= place[j] /\ place[i] # place[j]
    BY <2>3
  <2> QED BY <1>2, <2>4
<1>4. ASSUME NEW i \in D, NEW j \in D PROVE /\ <<i, j>> \in R <=> place[i] < place[j]
                                            /\ place[i] = place[j] => i = j
  <2>1. i = j \/ <<i, j>> \in R \/ <<j, i>> \in R
    BY DEF StrictlyOrders
  <2>2. place[i] \in Nat /\ place[j] \in Nat
    BY <1>2
  <2> HIDE DEF place
  <2> QED BY <1>3, <2>1, <2>2
<1>5. ASSUME NEW i \in D PROVE place[i] \in 0 .. N - 1
  <2>1. /\ Cardinality(Before(D, R, i)) <= N
        /\ Cardinality(Before(D, R, i)) # N
    BY <1>2, FS_Subset
  <2>2. place[i] <= N /\ place[i] # N /\ place[i] \in Nat
    BY <1>2, <2>1
  <2> HIDE DEF place
  <2> QED BY <1>1, <2>2
<1>6. place \in Injection(D, 0 .. N - 1)
  <2>1. place \in [D -> 0 .. N - 1]
    BY <1>5
  <2> HIDE DEF place
  <2> QED BY <1>4, <2>1, Fun_IsInj
<1>7. IsFiniteSet(0 .. N - 1) /\ Cardinality(0 .. N - 1) = N
  <2>1. 0 \in Int /\ N - 1 \in Int
    BY <1>1
  <2>2. IsFiniteSet(0 .. N - 1) /\ Cardinality(0 .. N - 1) = IF 0 > N - 1 THEN 0 ELSE N - 1 - 0 + 1
    BY <2>1, FS_Interval
  <2> QED BY <1>1, <2>2
<1>8. place \in Surjection(D, 0 .. N - 1)
  <2> HIDE DEF place, N
  <2> QED BY <1>6, <1>7, FS_Injection DEF N
<1>9. \A k \in 0 .. N - 1 : \E i \in D : place[i] = k
  <2> DEFINE T == 0 .. N - 1
  <2> HIDE DEF place, N, T
  <2>1. place \in Surjection(D, T)
    BY <1>8 DEF T
  <2>2. \A k \in T : \E i \in D : place[i] = k
    BY <2>1, Fun_SurjectionProperties
  <2> QED BY <2>2 DEF T
<1> QED BY <1>4, <1>5, <1>9

\* As many have fewer than m before them as m says.
LEMMA FirstOnesAre ==
    ASSUME NEW D, IsFiniteSet(D), NEW R, StrictlyOrders(R, D), NEW m \in 0 .. Cardinality(D)
    PROVE  Cardinality({i \in D : Cardinality(Before(D, R, i)) < m}) = m
<1> DEFINE F == {i \in D : Cardinality(Before(D, R, i)) < m}
           place == [i \in F |-> Cardinality(Before(D, R, i))]
<1>1. Cardinality(D) \in Nat /\ m \in Nat
  BY FS_CardinalityType
<1>2. /\ \A i \in D : Cardinality(Before(D, R, i)) \in 0 .. Cardinality(D) - 1
      /\ \A i, j \in D : Cardinality(Before(D, R, i)) = Cardinality(Before(D, R, j)) => i = j
      /\ \A k \in 0 .. Cardinality(D) - 1 : \E i \in D : Cardinality(Before(D, R, i)) = k
  BY PlacesAre
<1>3. place \in [F -> 0 .. m - 1]
  <2> SUFFICES ASSUME NEW i \in F PROVE Cardinality(Before(D, R, i)) \in 0 .. m - 1
    OBVIOUS
  <2> QED BY <1>1, <1>2
<1>4. \A i, j \in F : place[i] = place[j] => i = j
  BY <1>2
<1>5. \A k \in 0 .. m - 1 : \E i \in F : place[i] = k
  <2> SUFFICES ASSUME NEW k \in 0 .. m - 1 PROVE \E i \in F : place[i] = k
    OBVIOUS
  <2>1. k \in 0 .. Cardinality(D) - 1 /\ k < m
    BY <1>1
  <2>2. PICK i \in D : Cardinality(Before(D, R, i)) = k
    BY <1>2, <2>1
  <2> QED BY <2>1, <2>2
<1>6. place \in Bijection(F, 0 .. m - 1)
  <2> HIDE DEF place, F
  <2> QED BY <1>3, <1>4, <1>5, Fun_IsBij
<1>7. IsFiniteSet(F)
  BY FS_Subset
<1>8. Cardinality(0 .. m - 1) = m
  <2>1. 0 \in Int /\ m - 1 \in Int
    BY <1>1
  <2>2. Cardinality(0 .. m - 1) = IF 0 > m - 1 THEN 0 ELSE m - 1 - 0 + 1
    BY <2>1, FS_Interval
  <2> QED BY <1>1, <2>2
<1>9. Cardinality(0 .. m - 1) = Cardinality(F)
  <2>1. ExistsBijection(F, 0 .. m - 1)
    BY <1>6 DEF ExistsBijection
  <2> HIDE DEF F
  <2> QED BY <1>7, <2>1, FS_Bijection
<1> QED BY <1>8, <1>9

-----------------------------------------------------------------------------
(* replicate_to_size: sums *)

LEMMA ThroughIs ==
    ASSUME NEW shares \in Seq(Nat)
    PROVE  /\ Through(shares) \in [0 .. Len(shares) -> Nat]
           /\ Through(shares)[0] = 0
           /\ \A i \in 1 .. Len(shares) :
                Through(shares)[i] = Through(shares)[i - 1] + shares[i]
<1> DEFINE N == Len(shares)
           step == [i \in 1 .. N |-> [n \in Nat |-> n + shares[i]]]
           Next_(g) == [i \in 0 .. N |-> IF i = 0 THEN 0 ELSE g[i - 1] + shares[i]]
<1>1. N \in Nat /\ \A i \in 1 .. N : shares[i] \in Nat
  OBVIOUS
<1>2. PICK f \in [0 .. N -> Nat] : Iterated(f, N, 0, step)
  <2>1. step \in [1 .. N -> [Nat -> Nat]]
    BY <1>1
  <2>2. 0 \in Nat
    OBVIOUS
  <2> HIDE DEF step, N
  <2> QED BY Zenon, <1>1, <2>1, <2>2, Iterates
<1>3. f[0] = 0 /\ \A i \in 1 .. N : f[i] = f[i - 1] + shares[i]
  <2>1. ASSUME NEW i \in 1 .. N PROVE f[i] = f[i - 1] + shares[i]
    <3>1. i - 1 \in 0 .. N
      BY <1>1
    <3>2. f[i - 1] \in Nat
      BY <1>2, <3>1
    <3>3. step[i][f[i - 1]] = f[i - 1] + shares[i]
      BY <3>2
    <3>4. f[i] = step[i][f[i - 1]]
      BY <1>2 DEF Iterated
    <3> QED BY <3>3, <3>4
  <2> QED BY <1>2, <2>1 DEF Iterated
<1>4. f = Next_(f)
  <2>1. \A i \in 0 .. N : f[i] = IF i = 0 THEN 0 ELSE f[i - 1] + shares[i]
    BY <1>1, <1>2, <1>3
  <2> QED BY <1>2, <2>1
<1>5. Through(shares) = CHOOSE g : g = Next_(g)
  BY Zenon DEF Through
<1>6. Through(shares) = Next_(Through(shares))
  <2> HIDE DEF Next_
  <2> QED BY <1>4, <1>5
<1> DEFINE t == Through(shares)
<1>7. /\ t = [i \in 0 .. N |-> t[i]] /\ t[0] = 0
      /\ \A i \in 1 .. N : t[i] = t[i - 1] + shares[i]
  <2> HIDE DEF t
  <2>1. t = [i \in 0 .. N |-> IF i = 0 THEN 0 ELSE t[i - 1] + shares[i]]
    BY Zenon, <1>6 DEF t
  <2>2. \A i \in 0 .. N : t[i] = IF i = 0 THEN 0 ELSE t[i - 1] + shares[i]
    BY Zenon, <2>1
  <2>3. t = [i \in 0 .. N |-> t[i]]
    BY Zenon, <2>1
  <2>4. 0 \in 0 .. N /\ \A i \in 1 .. N : i \in 0 .. N /\ i # 0
    BY <1>1
  <2> QED BY Zenon, <2>2, <2>3, <2>4
<1>8. \A i \in 0 .. N : t[i] \in Nat
  <2> DEFINE S == {i \in 0 .. N : t[i] \in Nat}
  <2>1. 0 \in S
    BY <1>1, <1>7
  <2>2. \A i \in 0 .. N - 1 : i \in S => i + 1 \in S
    <3> SUFFICES ASSUME NEW i \in 0 .. N - 1, t[i] \in Nat PROVE i + 1 \in S
      OBVIOUS
    <3>1. i + 1 \in 1 .. N /\ i + 1 - 1 = i
      BY <1>1
    <3> DEFINE j == i + 1
    <3> HIDE DEF t, N, j
    <3>2. j \in 1 .. N /\ j - 1 = i
      BY <3>1 DEF j
    <3>3. t[j] = t[j - 1] + shares[j] /\ shares[j] \in Nat
      BY <1>1, <1>7, <3>2
    <3>4. t[j] \in Nat
      BY <3>2, <3>3
    <3> QED BY <1>1, <3>1, <3>4 DEF j
  <2> HIDE DEF S
  <2>3. \A i \in 0 .. N : i \in S
    BY <1>1, <2>1, <2>2, UpTo
  <2> QED BY <2>3 DEF S
<1> HIDE DEF t
<1>9. t \in [0 .. N -> Nat]
  BY <1>7, <1>8
<1> QED BY <1>7, <1>9 DEF t

\* What is through at one place is through at any later one.
LEMMA ThroughGrows ==
    ASSUME NEW shares \in Seq(Nat), NEW i \in 0 .. Len(shares)
    PROVE  \A j \in 0 .. Len(shares) :
              i <= j => Through(shares)[i] <= Through(shares)[j]
<1> DEFINE N == Len(shares)
           t == Through(shares)
           S == {j \in 0 .. N : i <= j => t[i] <= t[j]}
<1>1. N \in Nat /\ i \in Nat /\ \A j \in 1 .. N : shares[j] \in Nat
  OBVIOUS
<1>2. t \in [0 .. N -> Nat] /\ \A j \in 1 .. N : t[j] = t[j - 1] + shares[j]
  BY ThroughIs
<1> HIDE DEF N, t
<1>3. 0 \in S
  BY <1>1, <1>2 DEF N
<1>4. ASSUME NEW n \in 0 .. N - 1, n \in S PROVE n + 1 \in S
  <2> DEFINE j == n + 1
  <2> HIDE DEF j
  <2>1. j \in 1 .. N /\ j - 1 = n /\ n \in 0 .. N /\ j \in 0 .. N
    BY <1>1 DEF j
  <2>2. t[j] = t[n] + shares[j] /\ shares[j] \in Nat /\ t[n] \in Nat
    BY <1>1, <1>2, <2>1
  <2>3. i <= j => t[i] <= t[j]
    <3>1. CASE i <= n
      <4>1. t[i] <= t[n] /\ t[i] \in Nat
        BY <1>2, <1>4, <3>1 DEF N
      <4> QED BY <2>2, <4>1
    <3>2. CASE ~(i <= n)
      <4>1. i <= j => i = j
        BY <1>1, <2>1, <3>2
      <4>2. t[j] \in Nat
        BY <2>2
      <4> QED BY <4>1, <4>2
    <3> QED BY <3>1, <3>2
  <2> QED BY <2>1, <2>3 DEF j
<1>5. \A j \in 0 .. N : j \in S
  <2> HIDE DEF S
  <2> QED BY <1>1, <1>3, <1>4, UpTo
<1> QED BY <1>5 DEF N, t

\* Every slot up to the total is of exactly one share.
LEMMA EverySlotHasAShare ==
    ASSUME NEW shares \in Seq(Nat), NEW k \in 1 .. Total(shares)
    PROVE  \E i \in 1 .. Len(shares) :
              /\ Through(shares)[i - 1] < k /\ k <= Through(shares)[i]
              /\ \A j \in 1 .. Len(shares) :
                   Through(shares)[j - 1] < k /\ k <= Through(shares)[j] => j = i
<1> DEFINE N == Len(shares)
           t == Through(shares)
           late == {i \in 0 .. N : k <= t[i]}
<1>1. N \in Nat
  OBVIOUS
<1>2. t \in [0 .. N -> Nat] /\ t[0] = 0
  BY ThroughIs
<1>3. \A i, j \in 0 .. N : i <= j => t[i] <= t[j]
  BY ThroughGrows
<1> HIDE DEF N, t
<1>4. t[N] \in Nat /\ k \in Nat /\ k >= 1 /\ k <= t[N]
  BY <1>1, <1>2 DEF Total, N, t
<1>5. PICK i \in late : \A j \in late : i <= j
  <2>1. N \in late /\ late \in SUBSET Nat
    BY <1>1, <1>4
  <2> HIDE DEF late
  <2> QED BY <2>1, LeastOf
<1>6. i \in 1 .. N /\ i - 1 \in 0 .. N /\ i \in 0 .. N
  BY <1>1, <1>2, <1>4, <1>5
<1>7. t[i - 1] < k /\ k <= t[i]
  <2>1. i - 1 \notin late
    BY <1>1, <1>5, <1>6
  <2>2. t[i - 1] \in Nat
    BY <1>2, <1>6
  <2> QED BY <1>4, <1>5, <1>6, <2>1, <2>2
<1>8. ASSUME NEW j \in 1 .. N, t[j - 1] < k, k <= t[j] PROVE j = i
  <2>1. j \in late /\ i <= j
    BY <1>1, <1>5, <1>8
  <2>2. ASSUME i < j PROVE FALSE
    <3>1. i <= j - 1 /\ j - 1 \in 0 .. N
      BY <1>1, <1>6, <2>2
    <3>2. t[i] <= t[j - 1] /\ t[i] \in Nat /\ t[j - 1] \in Nat
      BY <1>2, <1>3, <1>6, <3>1
    <3> QED BY <1>4, <1>7, <1>8, <3>2
  <2> QED BY <1>1, <1>6, <2>1, <2>2
<1> QED BY <1>6, <1>7, <1>8 DEF N, t

\* The common denominator is a multiple too large to lose a weight.
LEMMA CommonIs ==
    ASSUME NEW placed \in Seq(Nat)
    PROVE  Common(placed) \in Nat /\ \A i \in DOMAIN placed : Common(placed) >= 1 + placed[i]
<1> DEFINE N == Len(placed)
           step == [i \in 1 .. N |-> [n \in Nat |-> n * (1 + placed[i])]]
           Next_(g) == [i \in 0 .. N |-> IF i = 0 THEN 1 ELSE g[i - 1] * (1 + placed[i])]
<1>1. N \in Nat /\ DOMAIN placed = 1 .. N /\ \A i \in 1 .. N : placed[i] \in Nat
  OBVIOUS
<1>2. PICK f \in [0 .. N -> Nat] : Iterated(f, N, 1, step)
  <2>1. step \in [1 .. N -> [Nat -> Nat]]
    <3> SUFFICES ASSUME NEW i \in 1 .. N, NEW n \in Nat PROVE n * (1 + placed[i]) \in Nat
      OBVIOUS
    <3> QED BY <1>1
  <2>2. 1 \in Nat
    OBVIOUS
  <2> HIDE DEF step, N
  <2> QED BY Zenon, <1>1, <2>1, <2>2, Iterates
<1>3. f[0] = 1 /\ \A i \in 1 .. N : f[i] = f[i - 1] * (1 + placed[i])
  <2>1. ASSUME NEW i \in 1 .. N PROVE f[i] = f[i - 1] * (1 + placed[i])
    <3>1. i - 1 \in 0 .. N
      BY <1>1
    <3>2. f[i - 1] \in Nat
      BY <1>2, <3>1
    <3>3. step[i][f[i - 1]] = f[i - 1] * (1 + placed[i])
      BY <3>2
    <3>4. f[i] = step[i][f[i - 1]]
      BY <1>2 DEF Iterated
    <3> QED BY <3>3, <3>4
  <2> QED BY <1>2, <2>1 DEF Iterated
<1>4. f = Next_(f)
  <2>1. \A i \in 0 .. N : f[i] = IF i = 0 THEN 1 ELSE f[i - 1] * (1 + placed[i])
    BY <1>1, <1>2, <1>3
  <2> QED BY <1>2, <2>1
<1> DEFINE c == CHOOSE g : g = Next_(g)
<1>5. Common(placed) = c[N]
  BY Zenon DEF Common
<1>6. c = Next_(c)
  <2> HIDE DEF Next_
  <2> QED BY <1>4
<1>7. c[0] = 1 /\ \A i \in 1 .. N : c[i] = c[i - 1] * (1 + placed[i])
  <2> HIDE DEF c, N
  <2>1. ASSUME NEW i \in 0 .. N PROVE c[i] = IF i = 0 THEN 1 ELSE c[i - 1] * (1 + placed[i])
    <3>1. Next_(c)[i] = IF i = 0 THEN 1 ELSE c[i - 1] * (1 + placed[i])
      BY Zenon
    <3> HIDE DEF Next_
    <3> QED BY Zenon, <1>6, <3>1
  <2>2. 0 \in 0 .. N /\ \A i \in 1 .. N : i \in 0 .. N /\ i # 0
    BY <1>1
  <2> QED BY Zenon, <2>1, <2>2
<1> DEFINE S == {n \in 0 .. N : /\ c[n] \in Nat /\ c[n] >= 1
                               /\ \A i \in 1 .. n : c[n] >= 1 + placed[i]}
<1> HIDE DEF c
<1>8. 0 \in S
  BY <1>1, <1>7
<1>9. ASSUME NEW n \in 0 .. N - 1, n \in S PROVE n + 1 \in S
  <2> DEFINE j == n + 1
  <2> HIDE DEF j
  <2>1. j \in 1 .. N /\ j - 1 = n /\ n \in 0 .. N /\ j \in 0 .. N
    BY <1>1 DEF j
  <2>2. /\ c[j] = c[n] * (1 + placed[j]) /\ placed[j] \in Nat
        /\ c[n] \in Nat /\ c[n] >= 1
    BY <1>1, <1>7, <1>9, <2>1
  <2>3. \A a, b \in Nat : a >= 1 => a * (1 + b) \in Nat /\ a * (1 + b) >= a /\ a * (1 + b) >= 1 + b
    OBVIOUS
  <2>4. c[j] \in Nat /\ c[j] >= c[n] /\ c[j] >= 1 + placed[j]
    BY <2>2, <2>3
  <2>5. ASSUME NEW i \in 1 .. j PROVE c[j] >= 1 + placed[i]
    <3>1. CASE i = j
      BY <2>4, <3>1
    <3>2. CASE i # j
      <4>1. i \in 1 .. n /\ i \in 1 .. N
        BY <2>1, <3>2
      <4>2. c[n] >= 1 + placed[i] /\ placed[i] \in Nat
        BY <1>1, <1>9, <4>1
      <4>3. c[j] >= c[n] /\ c[j] \in Nat /\ c[n] \in Nat
        BY Zenon, <2>2, <2>4
      <4> DEFINE x == c[j]
                 y == c[n]
                 z == placed[i]
      <4>4. x >= y /\ x \in Nat /\ y \in Nat /\ z \in Nat /\ y >= 1 + z
        BY Zenon, <4>2, <4>3
      <4> HIDE DEF x, y, z
      <4>5. x >= 1 + z
        BY <4>4
      <4> QED BY Zenon, <4>5 DEF x, z
    <3> QED BY <3>1, <3>2
  <2>6. j \in S
    BY <2>1, <2>2, <2>4, <2>5
  <2> QED BY <2>6 DEF j
<1>10. N \in S
  <2> HIDE DEF S, N
  <2>1. \A n \in 0 .. N : n \in S
    BY <1>1, <1>8, <1>9, UpTo
  <2> QED BY <1>1, <2>1
<1> QED BY <1>1, <1>5, <1>10

\* A positive weight for each, no larger for a worse rank.
LEMMA WeightsAre ==
    ASSUME NEW placed \in Seq(Nat)
    PROVE  /\ Weights(placed) \in [1 .. Len(placed) -> Nat \ {0}]
           /\ Weights(placed) \in Seq(Nat) /\ Len(Weights(placed)) = Len(placed)
           /\ \A i, j \in DOMAIN placed :
                placed[i] <= placed[j] => Weights(placed)[i] >= Weights(placed)[j]
<1>1. /\ Len(placed) \in Nat /\ DOMAIN placed = 1 .. Len(placed)
      /\ \A i \in DOMAIN placed : placed[i] \in Nat
  OBVIOUS
<1>2. Common(placed) \in Nat /\ \A i \in DOMAIN placed : Common(placed) >= 1 + placed[i]
  BY CommonIs
<1>3. \A a \in Nat, b \in Nat \ {0} : a >= b => a \div b \in Nat \ {0}
  OBVIOUS
<1>4. \A a \in Nat, b, d \in Nat \ {0} : b <= d => a \div b >= a \div d
  OBVIOUS
<1>5. \A i \in 1 .. Len(placed) : Weights(placed)[i] = Common(placed) \div (1 + placed[i])
  BY <1>1 DEF Weights
<1>6. \A i \in 1 .. Len(placed) : Weights(placed)[i] \in Nat \ {0}
  <2> SUFFICES ASSUME NEW i \in 1 .. Len(placed) PROVE Weights(placed)[i] \in Nat \ {0}
    OBVIOUS
  <2>1. 1 + placed[i] \in Nat \ {0} /\ Common(placed) >= 1 + placed[i]
    BY <1>1, <1>2
  <2> QED BY <1>2, <1>3, <1>5, <2>1
<1>7. Weights(placed) \in [1 .. Len(placed) -> Nat \ {0}]
  BY <1>1, <1>6 DEF Weights
<1>8. ASSUME NEW i \in DOMAIN placed, NEW j \in DOMAIN placed, placed[i] <= placed[j]
      PROVE  Weights(placed)[i] >= Weights(placed)[j]
  <2>1. 1 + placed[i] \in Nat \ {0} /\ 1 + placed[j] \in Nat \ {0} /\ 1 + placed[i] <= 1 + placed[j]
    BY <1>1, <1>8
  <2> QED BY <1>1, <1>2, <1>4, <1>5, <2>1
<1>9. Weights(placed) \in Seq(Nat) /\ Len(Weights(placed)) = Len(placed)
  <2>1. \A w, n : n \in Nat /\ w \in [1 .. n -> Nat \ {0}] => w \in Seq(Nat) /\ Len(w) = n
    OBVIOUS
  <2>2. Len(placed) \in Nat
    OBVIOUS
  <2> QED BY Zenon, <1>7, <2>1, <2>2
<1> QED BY <1>7, <1>8, <1>9

LEMMA DivisionIs ==
    ASSUME NEW a \in Nat, NEW b \in Nat \ {0}
    PROVE  /\ a \div b \in Nat /\ a % b \in Nat /\ a % b < b
           /\ a = b * (a \div b) + (a % b)
<1>1. a % b \in 0 .. b - 1
  OBVIOUS
<1>2. a \div b \in Nat /\ a = b * (a \div b) + (a % b)
  OBVIOUS
<1> QED BY <1>1, <1>2

LEMMA QuotasAre ==
    ASSUME NEW weights \in Seq(Nat \ {0}), weights # <<>>, NEW spare \in Nat
    PROVE  /\ Total(weights) \in Nat \ {0}
           /\ \A i \in DOMAIN weights :
                LET W == WholeShares(spare, weights)[i]
                    R == Remainders(spare, weights)[i]
                IN  /\ W \in Nat /\ R \in Nat /\ R < Total(weights)
                    /\ spare * weights[i] = Total(weights) * W + R
           /\ WholeShares(spare, weights) \in Seq(Nat)
           /\ Len(WholeShares(spare, weights)) = Len(weights)
           /\ Remainders(spare, weights) \in Seq(Nat)
           /\ Len(Remainders(spare, weights)) = Len(weights)
<1> DEFINE N == Len(weights)
<1>1. /\ N \in Nat /\ N >= 1 /\ DOMAIN weights = 1 .. N /\ weights \in Seq(Nat)
      /\ \A i \in 1 .. N : weights[i] \in Nat \ {0}
  OBVIOUS
<1>2. Total(weights) \in Nat \ {0}
  <2>1. /\ Through(weights) \in [0 .. N -> Nat]
        /\ \A i \in 1 .. N : Through(weights)[i] = Through(weights)[i - 1] + weights[i]
    BY <1>1, ThroughIs
  <2>2. N \in 1 .. N /\ N - 1 \in 0 .. N /\ N \in 0 .. N
    BY <1>1
  <2> HIDE DEF N
  <2>3. /\ Through(weights)[N] = Through(weights)[N - 1] + weights[N]
        /\ Through(weights)[N - 1] \in Nat /\ weights[N] \in Nat \ {0}
    BY <1>1, <2>1, <2>2
  <2> QED BY <2>3 DEF Total, N
<1>3. ASSUME NEW i \in 1 .. N
      PROVE  /\ WholeShares(spare, weights)[i] = (spare * weights[i]) \div Total(weights)
             /\ Remainders(spare, weights)[i] = (spare * weights[i]) % Total(weights)
             /\ spare * weights[i] \in Nat
  BY <1>1 DEF WholeShares, Remainders
<1>4. ASSUME NEW i \in 1 .. N
      PROVE  LET W == WholeShares(spare, weights)[i]
                 R == Remainders(spare, weights)[i]
             IN  /\ W \in Nat /\ R \in Nat /\ R < Total(weights)
                 /\ spare * weights[i] = Total(weights) * W + R
  <2> DEFINE a == spare * weights[i]
             b == Total(weights)
  <2>1. a \in Nat /\ b \in Nat \ {0}
    BY <1>2, <1>3
  <2>2. WholeShares(spare, weights)[i] = a \div b /\ Remainders(spare, weights)[i] = a % b
    BY <1>3
  <2> HIDE DEF a, b
  <2>3. /\ a \div b \in Nat /\ a % b \in Nat /\ a % b < b /\ a = b * (a \div b) + (a % b)
    BY <2>1, DivisionIs
  <2> QED BY <2>2, <2>3 DEF a, b
<1>5. WholeShares(spare, weights) \in [1 .. N -> Nat] /\ Remainders(spare, weights) \in [1 .. N -> Nat]
  BY <1>1, <1>4 DEF WholeShares, Remainders
<1>6. ASSUME NEW f \in [1 .. N -> Nat] PROVE f \in Seq(Nat) /\ Len(f) = N
  <2>1. N \in Nat
    BY <1>1
  <2> HIDE DEF N
  <2> QED BY <2>1
<1> HIDE DEF N
<1>7. /\ WholeShares(spare, weights) \in Seq(Nat) /\ Len(WholeShares(spare, weights)) = N
      /\ Remainders(spare, weights) \in Seq(Nat) /\ Len(Remainders(spare, weights)) = N
  BY Zenon, <1>5, <1>6
<1> QED BY Zenon, <1>1, <1>2, <1>4, <1>7 DEF N

\* What the whole parts leave over is fewer slots than there are survivors.
LEMMA FewAreLeft ==
    ASSUME NEW weights \in Seq(Nat \ {0}), weights # <<>>, NEW spare \in Nat
    PROVE  /\ Total(WholeShares(spare, weights)) \in Nat
           /\ spare - Total(WholeShares(spare, weights)) \in 0 .. Len(weights) - 1
           /\ Total(Remainders(spare, weights)) \in Nat
           /\ spare * Total(weights)
                = Total(weights) * Total(WholeShares(spare, weights))
                    + Total(Remainders(spare, weights))
<1> DEFINE N == Len(weights)
           T == Total(weights)
           W == WholeShares(spare, weights)
           R == Remainders(spare, weights)
           tw == Through(weights)
           tW == Through(W)
           tR == Through(R)
<1>1. /\ N \in Nat /\ N >= 1 /\ weights \in Seq(Nat)
      /\ \A i \in 1 .. N : weights[i] \in Nat
  OBVIOUS
<1>2. /\ T \in Nat \ {0} /\ W \in Seq(Nat) /\ Len(W) = N /\ R \in Seq(Nat) /\ Len(R) = N
      /\ \A i \in 1 .. N : /\ W[i] \in Nat /\ R[i] \in Nat /\ R[i] < T
                            /\ spare * weights[i] = T * W[i] + R[i]
  BY QuotasAre
<1>3. /\ tw \in [0 .. N -> Nat] /\ tw[0] = 0 /\ \A i \in 1 .. N : tw[i] = tw[i - 1] + weights[i]
      /\ tW \in [0 .. N -> Nat] /\ tW[0] = 0 /\ \A i \in 1 .. N : tW[i] = tW[i - 1] + W[i]
      /\ tR \in [0 .. N -> Nat] /\ tR[0] = 0 /\ \A i \in 1 .. N : tR[i] = tR[i - 1] + R[i]
  <2> HIDE DEF W, R
  <2> QED BY <1>1, <1>2, ThroughIs
<1>4. T = tw[N]
  BY DEF Total
<1> HIDE DEF N, T, W, R, tw, tW, tR
<1> DEFINE S == {n \in 0 .. N : spare * tw[n] = T * tW[n] + tR[n] /\ tR[n] <= n * (T - 1)}
<1>5. 0 \in S
  <2>1. spare * 0 = 0 /\ T * 0 = 0 /\ 0 * (T - 1) = 0
    BY <1>2
  <2> QED BY <1>1, <1>3, <2>1
<1>6. ASSUME NEW n \in 0 .. N - 1, n \in S PROVE n + 1 \in S
  <2> DEFINE j == n + 1
  <2> HIDE DEF j
  <2>1. j \in 1 .. N /\ j - 1 = n /\ n \in 0 .. N /\ j \in 0 .. N /\ n \in Nat /\ j = n + 1
    BY <1>1 DEF j
  <2>2. /\ tw[j] = tw[n] + weights[j] /\ tW[j] = tW[n] + W[j] /\ tR[j] = tR[n] + R[j]
        /\ tw[n] \in Nat /\ tW[n] \in Nat /\ tR[n] \in Nat
        /\ weights[j] \in Nat /\ W[j] \in Nat /\ R[j] \in Nat /\ R[j] < T
        /\ spare * weights[j] = T * W[j] + R[j]
    BY <1>1, <1>2, <1>3, <2>1
  <2>3. \A a, b, c \in Nat : a * (b + c) = a * b + a * c /\ a * b \in Nat /\ a * c \in Nat
    OBVIOUS
  <2>4. /\ spare * tw[j] = spare * tw[n] + spare * weights[j]
        /\ T * tW[j] = T * tW[n] + T * W[j]
        /\ spare * tw[n] \in Nat /\ spare * weights[j] \in Nat
        /\ T * tW[n] \in Nat /\ T * W[j] \in Nat
    <3> DEFINE a1 == tw[n]
               a2 == weights[j]
               a3 == tW[n]
               a4 == W[j]
    <3>1. /\ a1 \in Nat /\ a2 \in Nat /\ a3 \in Nat /\ a4 \in Nat
          /\ tw[j] = a1 + a2 /\ tW[j] = a3 + a4 /\ T \in Nat
      BY <1>2, <2>2
    <3> HIDE DEF a1, a2, a3, a4
    <3>2. spare * (a1 + a2) = spare * a1 + spare * a2 /\ spare * a1 \in Nat /\ spare * a2 \in Nat
      BY <2>3, <3>1
    <3>3. T * (a3 + a4) = T * a3 + T * a4 /\ T * a3 \in Nat /\ T * a4 \in Nat
      BY <2>3, <3>1
    <3> QED BY Zenon, <3>1, <3>2, <3>3 DEF a1, a2, a3, a4
  <2>5. spare * tw[n] = T * tW[n] + tR[n] /\ tR[n] <= n * (T - 1)
    BY <1>6
  <2>6. spare * tw[j] = T * tW[j] + tR[j]
    <3> DEFINE p == spare * tw[n]
               q == spare * weights[j]
               u == T * tW[n]
               v == T * W[j]
    <3>1. p \in Nat /\ q \in Nat /\ u \in Nat /\ v \in Nat
      BY Zenon, <2>4
    <3>2. spare * tw[j] = p + q /\ T * tW[j] = u + v
      BY Zenon, <2>4
    <3>3. p = u + tR[n] /\ q = v + R[j]
      BY Zenon, <2>2, <2>5
    <3>4. tR[j] = tR[n] + R[j] /\ tR[n] \in Nat /\ R[j] \in Nat
      BY Zenon, <2>2
    <3> HIDE DEF p, q, u, v
    <3> DEFINE x == tR[n]
               y == R[j]
    <3>6. x \in Nat /\ y \in Nat /\ p = u + x /\ q = v + y
      BY Zenon, <3>3, <3>4
    <3> HIDE DEF x, y
    <3>7. p + q = u + v + (x + y)
      BY <3>1, <3>6
    <3>5. p + q = u + v + (tR[n] + R[j])
      BY Zenon, <3>7 DEF x, y
    <3> QED BY Zenon, <3>2, <3>4, <3>5
  <2>7. j * (T - 1) = n * (T - 1) + (T - 1) /\ n * (T - 1) \in Nat /\ T - 1 \in Nat
    <3>1. \A a, b \in Nat : (a + 1) * b = a * b + b /\ a * b \in Nat
      OBVIOUS
    <3>2. T - 1 \in Nat
      BY <1>2
    <3> DEFINE b == T - 1
    <3>3. b \in Nat
      BY <3>2
    <3> HIDE DEF b
    <3>4. (n + 1) * b = n * b + b /\ n * b \in Nat
      BY Zenon, <2>1, <3>1, <3>3
    <3>5. j * b = n * b + b
      BY Zenon, <2>1, <3>4
    <3> QED BY Zenon, <3>2, <3>4, <3>5 DEF b
  <2>8. tR[j] <= j * (T - 1)
    <3>0. \A x \in Nat, b \in Nat : x < b => x <= b - 1
      OBVIOUS
    <3>1. R[j] <= T - 1
      BY Zenon, <1>2, <2>2, <3>0
    <3> DEFINE p == n * (T - 1)
               q == j * (T - 1)
    <3>2. q = p + (T - 1) /\ p \in Nat /\ tR[n] <= p /\ T \in Nat \ {0}
      BY Zenon, <1>2, <2>5, <2>7
    <3>3. tR[j] = tR[n] + R[j] /\ tR[n] \in Nat /\ R[j] \in Nat
      BY Zenon, <2>2
    <3> HIDE DEF p, q
    <3>4. tR[j] <= q
      BY <3>1, <3>2, <3>3
    <3> QED BY <3>4 DEF q
  <2> QED BY <2>1, <2>6, <2>8 DEF j
<1>7. N \in S
  <2> HIDE DEF S
  <2>1. \A n \in 0 .. N : n \in S
    BY <1>1, <1>5, <1>6, UpTo
  <2> QED BY <1>1, <2>1
<1>8. /\ spare * T = T * tW[N] + tR[N] /\ tR[N] <= N * (T - 1)
      /\ tW[N] \in Nat /\ tR[N] \in Nat
  BY <1>1, <1>3, <1>4, <1>7
<1>9. \A a, c, r, m \in Nat, b \in Nat \ {0} :
         a * b = b * c + r /\ r <= m * (b - 1) /\ m >= 1 => a >= c /\ a - c < m
  <2> SUFFICES ASSUME NEW a \in Nat, NEW c \in Nat, NEW r \in Nat, NEW m \in Nat,
                      NEW b \in Nat \ {0}, a * b = b * c + r, r <= m * (b - 1), m >= 1
               PROVE  a >= c /\ a - c < m
    OBVIOUS
  <2>1. a >= c
    <3> SUFFICES ASSUME a < c PROVE FALSE
      OBVIOUS
    <3>1. c >= a + 1
      OBVIOUS
    <3>2. b * c >= b * (a + 1)
      BY <3>1
    <3>3. b * (a + 1) = a * b + b
      OBVIOUS
    <3> QED BY <3>2, <3>3
  <2>2. a - c < m
    <3> SUFFICES ASSUME a - c >= m PROVE FALSE
      BY <2>1
    <3> DEFINE d == a - c
    <3>1. d \in Nat /\ d >= m /\ a = c + d
      BY <2>1
    <3> HIDE DEF d
    <3>2. b * a = b * c + b * d
      BY <3>1
    <3>3. b * d = r /\ b * d \in Nat
      BY <3>1, <3>2
    <3>4. b * d >= b * m
      BY <3>1
    <3>5. b * m = m * (b - 1) + m
      OBVIOUS
    <3> QED BY <3>3, <3>4, <3>5
  <2> QED BY <2>1, <2>2
<1>10. spare >= tW[N] /\ spare - tW[N] < N
  BY <1>1, <1>2, <1>8, <1>9
<1>11. tW[N] = Total(W)
  <2>1. Len(W) = N
    BY <1>2
  <2> QED BY Zenon, <2>1 DEF Total, tW
<1>12. Total(W) \in Nat /\ spare - Total(W) \in 0 .. N - 1
  <2>1. spare >= Total(W) /\ spare - Total(W) < N /\ Total(W) \in Nat
    BY Zenon, <1>8, <1>10, <1>11
  <2> QED BY <1>1, <2>1
<1>13. tR[N] = Total(R)
  <2>1. Len(R) = N
    BY <1>2
  <2> QED BY Zenon, <2>1 DEF Total, tR
<1>14. Total(R) \in Nat /\ spare * T = T * Total(W) + Total(R)
  BY Zenon, <1>8, <1>11, <1>13
<1> QED BY Zenon, <1>12, <1>14 DEF N, W, R, T

\* Entries of at most B, and how many of them are not nothing.
LEMMA TotalIsBounded ==
    ASSUME NEW shares \in Seq(Nat), NEW B \in Nat, \A i \in DOMAIN shares : shares[i] <= B
    PROVE  Total(shares) <= Cardinality({i \in DOMAIN shares : shares[i] > 0}) * B
<1> DEFINE N == Len(shares)
           t == Through(shares)
           some(n) == {i \in 1 .. n : shares[i] > 0}
           S == {n \in 0 .. N : t[n] <= Cardinality(some(n)) * B}
<1>1. /\ N \in Nat /\ DOMAIN shares = 1 .. N
      /\ \A i \in 1 .. N : shares[i] \in Nat /\ shares[i] <= B
  OBVIOUS
<1>2. t \in [0 .. N -> Nat] /\ t[0] = 0 /\ \A i \in 1 .. N : t[i] = t[i - 1] + shares[i]
  BY ThroughIs
<1>3. ASSUME NEW n \in 0 .. N PROVE IsFiniteSet(some(n)) /\ Cardinality(some(n)) \in Nat
  <2>1. some(n) \in SUBSET (1 .. N)
    BY <1>1
  <2>2. IsFiniteSet(1 .. N)
    BY <1>1, FS_Interval
  <2> HIDE DEF some
  <2> QED BY <2>1, <2>2, FS_Subset, FS_CardinalityType
<1> HIDE DEF N, t
<1>4. 0 \in S
  <2>1. Cardinality(some(0)) \in Nat /\ 0 \in 0 .. N
    <3>1. 0 \in 0 .. N
      BY <1>1
    <3> HIDE DEF some
    <3> QED BY Zenon, <1>3, <3>1
  <2>2. Cardinality(some(0)) * B >= 0
    <3> HIDE DEF some
    <3>1. \A a \in Nat : a * B >= 0
      OBVIOUS
    <3> QED BY <2>1, <3>1
  <2> QED BY <1>2, <2>1, <2>2
<1>5. ASSUME NEW n \in 0 .. N - 1, n \in S PROVE n + 1 \in S
  <2> DEFINE j == n + 1
  <2> HIDE DEF j
  <2>1. j \in 1 .. N /\ j - 1 = n /\ n \in 0 .. N /\ j \in 0 .. N /\ n \in Nat /\ j = n + 1
    BY <1>1 DEF j
  <2>2. t[j] = t[n] + shares[j] /\ t[n] \in Nat /\ shares[j] \in Nat /\ shares[j] <= B
    BY <1>1, <1>2, <2>1
  <2>3. IsFiniteSet(some(n)) /\ Cardinality(some(n)) \in Nat /\ t[n] <= Cardinality(some(n)) * B
    BY <1>3, <1>5, <2>1
  <2>4. CASE shares[j] = 0
    <3>1. some(j) = some(n)
      BY <2>1, <2>4
    <3> HIDE DEF some
    <3>2. t[j] <= Cardinality(some(j)) * B
      BY <2>2, <2>3, <2>4, <3>1
    <3> QED BY <2>1, <3>2 DEF j
  <2>5. CASE shares[j] > 0
    <3>1. some(j) = some(n) \cup {j} /\ j \notin some(n)
      BY <2>1, <2>5
    <3>2. Cardinality(some(j)) = Cardinality(some(n)) + 1
      <4> HIDE DEF some
      <4> QED BY <2>3, <3>1, FS_AddElement
    <3> HIDE DEF some
    <3> DEFINE c == Cardinality(some(n))
    <3>3. c \in Nat /\ Cardinality(some(j)) = c + 1 /\ t[n] <= c * B
      BY <2>3, <3>2
    <3> HIDE DEF c
    <3>4. (c + 1) * B = c * B + B /\ c * B \in Nat
      BY <3>3
    <3> DEFINE p == c * B
    <3>5. (c + 1) * B = p + B /\ p \in Nat /\ t[n] <= p
      BY <3>3, <3>4
    <3> HIDE DEF p
    <3>6. t[j] <= p + B
      BY <2>2, <3>5
    <3>7. t[j] <= Cardinality(some(j)) * B
      BY Zenon, <3>3, <3>5, <3>6
    <3> QED BY <2>1, <3>7 DEF j
  <2> QED BY <2>2, <2>4, <2>5
<1>6. N \in S
  <2> HIDE DEF S
  <2>1. \A n \in 0 .. N : n \in S
    BY <1>1, <1>4, <1>5, UpTo
  <2> QED BY <1>1, <2>1
<1>7. t[N] <= Cardinality(some(N)) * B
  BY <1>6
<1> QED BY Zenon, <1>1, <1>7 DEF Total, N, t

-----------------------------------------------------------------------------
(* replicate_to_size: the slots *)

AheadOrder(spare, weights) ==
    {e \in (DOMAIN weights) \X DOMAIN weights : Ahead(Remainders(spare, weights), e[1], e[2])}

LEMMA ToppedUpAre ==
    ASSUME NEW weights \in Seq(Nat \ {0}), weights # <<>>, NEW spare \in Nat
    PROVE  LET left == spare - Total(WholeShares(spare, weights))
               R == Remainders(spare, weights)
               T == ToppedUp(spare, weights)
           IN  /\ T \in SUBSET DOMAIN weights
               /\ IsFiniteSet(T) /\ Cardinality(T) = left
               /\ \A i, j \in DOMAIN weights : Ahead(R, i, j) /\ j \in T => i \in T
               /\ \A i \in T : R[i] > 0
<1> DEFINE N == Len(weights)
           D == DOMAIN weights
           W == WholeShares(spare, weights)
           R == Remainders(spare, weights)
           T == ToppedUp(spare, weights)
           O == AheadOrder(spare, weights)
           left == spare - Total(W)
           B == Total(weights)
<1>1. N \in Nat /\ D = 1 .. N /\ IsFiniteSet(D) /\ Cardinality(D) = N
  <2>1. N \in Nat /\ D = 1 .. N
    OBVIOUS
  <2>2. IsFiniteSet(1 .. N) /\ Cardinality(1 .. N) = IF 1 > N THEN 0 ELSE N - 1 + 1
    BY <2>1, FS_Interval
  <2> HIDE DEF N, D
  <2> QED BY <2>1, <2>2
<1>2. /\ B \in Nat \ {0} /\ R \in Seq(Nat) /\ Len(R) = N
      /\ \A i \in D : R[i] \in Nat /\ R[i] < B
  BY QuotasAre
<1>3. /\ Total(W) \in Nat /\ left \in 0 .. N - 1 /\ Total(R) \in Nat
      /\ spare * B = B * Total(W) + Total(R)
  BY FewAreLeft
<1>4. \A i, j : <<i, j>> \in O <=> i \in D /\ j \in D /\ Ahead(R, i, j)
  BY DEF AheadOrder
<1>5. \A i : T = {j \in D : Cardinality({k \in D : Ahead(R, k, j)}) < left}
  BY Zenon DEF ToppedUp
<1> HIDE DEF N, D, W, R, T, O, left, B
<1>6. StrictlyOrders(O, D)
  <2>1. \A i \in D : i \in Int /\ R[i] \in Int
    BY <1>1, <1>2
  <2>2. \A i \in D : <<i, i>> \notin O
    BY <1>4, <2>1 DEF Ahead
  <2>3. ASSUME NEW i \in D, NEW j \in D, NEW k \in D, <<i, j>> \in O, <<j, k>> \in O
        PROVE  <<i, k>> \in O
    <3>1. Ahead(R, i, j) /\ Ahead(R, j, k)
      BY Zenon, <1>4, <2>3
    <3>2. R[i] \in Int /\ R[j] \in Int /\ R[k] \in Int /\ i \in Int /\ j \in Int /\ k \in Int
      BY <2>1
    <3>3. Ahead(R, i, k)
      BY <3>1, <3>2 DEF Ahead
    <3> QED BY Zenon, <1>4, <3>3
  <2>4. ASSUME NEW i \in D, NEW j \in D PROVE i = j \/ <<i, j>> \in O \/ <<j, i>> \in O
    <3>1. R[i] \in Int /\ R[j] \in Int /\ i \in Int /\ j \in Int
      BY <2>1
    <3>2. i = j \/ Ahead(R, i, j) \/ Ahead(R, j, i)
      BY <3>1 DEF Ahead
    <3> QED BY Zenon, <1>4, <3>2
  <2> QED BY <2>2, <2>3, <2>4 DEF StrictlyOrders
<1>7. \A j \in D : {k \in D : Ahead(R, k, j)} = Before(D, O, j)
  BY <1>4 DEF Before
<1>8. T = {j \in D : Cardinality(Before(D, O, j)) < left}
  BY <1>5, <1>7
<1>9. Cardinality(T) = left
  <2>1. left \in 0 .. Cardinality(D)
    BY <1>1, <1>3
  <2> QED BY <1>1, <1>6, <1>8, <2>1, FirstOnesAre
<1>10. T \in SUBSET D /\ IsFiniteSet(T)
  <2>1. T \in SUBSET D
    BY <1>8
  <2> QED BY <1>1, <2>1, FS_Subset
<1>11. /\ \A i \in D : Cardinality(Before(D, O, i)) \in 0 .. N - 1
       /\ \A i, j \in D :
            <<i, j>> \in O <=> Cardinality(Before(D, O, i)) < Cardinality(Before(D, O, j))
  <2>1. /\ \A i \in D : Cardinality(Before(D, O, i)) \in 0 .. Cardinality(D) - 1
        /\ \A i, j \in D :
             <<i, j>> \in O <=> Cardinality(Before(D, O, i)) < Cardinality(Before(D, O, j))
    BY <1>1, <1>6, PlacesAre
  <2> QED BY <1>1, <2>1
<1>12. ASSUME NEW i \in D, NEW j \in D, Ahead(R, i, j), j \in T PROVE i \in T
  <2>1. Cardinality(Before(D, O, i)) < Cardinality(Before(D, O, j))
    BY <1>4, <1>11, <1>12
  <2>2. Cardinality(Before(D, O, j)) < left
    BY <1>8, <1>12
  <2>3. Cardinality(Before(D, O, i)) \in Int /\ Cardinality(Before(D, O, j)) \in Int /\ left \in Int
    BY <1>3, <1>11
  <2> QED BY <1>8, <2>1, <2>2, <2>3
<1>13. ASSUME NEW i \in T PROVE R[i] > 0
  <2> DEFINE pos == {j \in DOMAIN R : R[j] > 0}
             P == Cardinality(pos)
  <2>1. DOMAIN R = D /\ i \in D
    BY <1>1, <1>2, <1>10
  <2>2. pos \in SUBSET D /\ IsFiniteSet(pos) /\ P \in Nat
    <3>1. pos \in SUBSET D
      BY <2>1
    <3> HIDE DEF pos
    <3>2. IsFiniteSet(pos)
      BY <1>1, <3>1, FS_Subset
    <3> QED BY <3>1, <3>2, FS_CardinalityType
  <2>3. Total(R) <= P * (B - 1)
    <3>1. B - 1 \in Nat /\ \A j \in DOMAIN R : R[j] <= B - 1
      BY <1>2, <2>1
    <3> HIDE DEF B
    <3> QED BY <1>2, <3>1, TotalIsBounded
  <2> SUFFICES ASSUME R[i] = 0 PROVE FALSE
    BY <1>2, <2>1
  <2>4. pos \in SUBSET Before(D, O, i)
    <3> SUFFICES ASSUME NEW j \in D, R[j] > 0 PROVE j \in Before(D, O, i)
      BY <2>1
    <3> QED BY <1>4, <2>1 DEF Before, Ahead
  <2>5. IsFiniteSet(Before(D, O, i))
    <3>1. Before(D, O, i) \in SUBSET D
      BY DEF Before
    <3> QED BY <1>1, <3>1, FS_Subset
  <2>6. P <= Cardinality(Before(D, O, i)) /\ Cardinality(Before(D, O, i)) < left
    <3>1. P <= Cardinality(Before(D, O, i))
      <4> HIDE DEF pos
      <4> QED BY <2>4, <2>5, FS_Subset
    <3> QED BY <1>8, <3>1
  <2> HIDE DEF pos, P
  <2>7. P < left
    BY <1>3, <1>11, <2>1, <2>2, <2>6
  <2>8. \A a, c, l, r, p \in Nat, b \in Nat \ {0} :
           a * b = b * c + r /\ r <= p * (b - 1) /\ p < l => a # c + l
    <3> SUFFICES ASSUME NEW a \in Nat, NEW c \in Nat, NEW l \in Nat, NEW r \in Nat,
                        NEW p \in Nat, NEW b \in Nat \ {0},
                        a * b = b * c + r, r <= p * (b - 1), p < l, a = c + l
                 PROVE  FALSE
      OBVIOUS
    <3>1. a * b = b * c + l * b
      OBVIOUS
    <3>2. r = l * b
      BY <3>1
    <3>3. l * b >= (p + 1) * b
      OBVIOUS
    <3>4. (p + 1) * b = p * (b - 1) + p + b
      OBVIOUS
    <3> DEFINE u == p * (b - 1)
               v == l * b
               x == (p + 1) * b
    <3>5. r = v /\ v >= x /\ x = u + p + b /\ r <= u
      BY <3>2, <3>3, <3>4
    <3>6. u \in Int /\ v \in Int /\ x \in Int
      OBVIOUS
    <3> HIDE DEF u, v, x
    <3> QED BY <3>5, <3>6
  <2>9. left \in Nat /\ spare = Total(W) + left
    <3>1. left = spare - Total(W)
      BY DEF left
    <3> QED BY <1>1, <1>3, <3>1
  <2> QED BY <1>2, <1>3, <2>2, <2>3, <2>7, <2>8, <2>9
<1> QED BY <1>9, <1>10, <1>12, <1>13 DEF D, W, R, T, left

\* One slot each, then the proportional share rounded down or up, no fewer for
\* a better place, and the target in all.
LEMMA CopiesAre ==
    ASSUME NEW placed \in Seq(Nat), placed # <<>>,
           \A i, j \in DOMAIN placed : i < j => placed[i] <= placed[j],
           NEW target \in Nat, target >= Len(placed)
    PROVE  LET copies == Copies(placed, target)
               spare == target - Len(placed)
               weights == Weights(placed)
           IN  /\ copies \in Seq(Nat \ {0}) /\ Len(copies) = Len(placed)
               /\ Total(copies) = target
               /\ \A i, j \in DOMAIN placed : i < j => copies[i] >= copies[j]
               /\ \A i \in DOMAIN placed :
                    /\ (copies[i] - 1) * Total(weights) > spare * weights[i] - Total(weights)
                    /\ (copies[i] - 1) * Total(weights) < spare * weights[i] + Total(weights)
<1> DEFINE N == Len(placed)
           D == DOMAIN placed
           spare == target - Len(placed)
           weights == Weights(placed)
           W == WholeShares(spare, weights)
           R == Remainders(spare, weights)
           T == ToppedUp(spare, weights)
           B == Total(weights)
           extra(i) == IF i \in T THEN 1 ELSE 0
           copies == Copies(placed, target)
           left == spare - Total(W)
<1>1. N \in Nat /\ N >= 1 /\ D = 1 .. N
  OBVIOUS
<1>2. spare \in Nat /\ target = spare + N
  BY <1>1
<1>3. /\ weights \in [1 .. N -> Nat \ {0}]
      /\ weights \in Seq(Nat \ {0}) /\ weights # <<>> /\ Len(weights) = N /\ DOMAIN weights = D
      /\ \A i, j \in D : placed[i] <= placed[j] => weights[i] >= weights[j]
  <2>1. /\ weights \in [1 .. N -> Nat \ {0}]
        /\ weights \in Seq(Nat) /\ Len(weights) = N
        /\ \A i, j \in D : placed[i] <= placed[j] => weights[i] >= weights[j]
    BY WeightsAre
  <2> HIDE DEF weights, N, D
  <2>2. weights \in Seq(Nat \ {0}) /\ weights # <<>> /\ DOMAIN weights = D
    BY <1>1, <2>1
  <2> QED BY <2>1, <2>2
<1> HIDE DEF weights, spare, N, D
<1>4. /\ B \in Nat \ {0}
      /\ W \in Seq(Nat) /\ Len(W) = N
      /\ \A i \in D : /\ W[i] \in Nat /\ R[i] \in Nat /\ R[i] < B
                     /\ spare * weights[i] = B * W[i] + R[i]
  BY <1>2, <1>3, QuotasAre
<1>5. Total(W) \in Nat /\ left \in 0 .. N - 1
  BY <1>2, <1>3, FewAreLeft
<1>6. /\ T \in SUBSET D /\ IsFiniteSet(T) /\ Cardinality(T) = left
      /\ \A i, j \in D : Ahead(R, i, j) /\ j \in T => i \in T
      /\ \A i \in T : R[i] > 0
  BY <1>2, <1>3, ToppedUpAre
<1>7. copies = [i \in D |-> 1 + W[i] + extra(i)]
  BY Zenon DEF Copies, D, spare, weights
<1> HIDE DEF W, R, T, B, left, copies
<1>8. \A i \in D : extra(i) \in {0, 1} /\ copies[i] = 1 + W[i] + extra(i) /\ copies[i] \in Nat \ {0}
  <2> SUFFICES ASSUME NEW i \in D
               PROVE  extra(i) \in {0, 1} /\ copies[i] = 1 + W[i] + extra(i) /\ copies[i] \in Nat \ {0}
    OBVIOUS
  <2>1. copies[i] = 1 + W[i] + extra(i)
    BY Zenon, <1>7
  <2>2. W[i] \in Nat
    BY <1>4
  <2>3. extra(i) \in {0, 1}
    OBVIOUS
  <2>4. \A w, e, c : w \in Nat /\ e \in {0, 1} /\ c = 1 + w + e => c \in Nat \ {0}
    OBVIOUS
  <2> QED BY Zenon, <2>1, <2>2, <2>3, <2>4
<1>9. copies \in Seq(Nat \ {0}) /\ copies \in Seq(Nat) /\ Len(copies) = N
  <2>1. copies \in [1 .. N -> Nat \ {0}]
    BY <1>1, <1>7, <1>8
  <2> QED BY <1>1, <2>1
<1>10. Total(copies) = target
  <2> DEFINE tc == Through(copies)
             tW == Through(W)
             U(n) == T \cap (1 .. n)
             S == {n \in 0 .. N : tc[n] = n + tW[n] + Cardinality(U(n))}
  <2>1. /\ tc \in [0 .. N -> Nat] /\ tc[0] = 0 /\ \A i \in 1 .. N : tc[i] = tc[i - 1] + copies[i]
    BY <1>9, ThroughIs
  <2>2. /\ tW \in [0 .. N -> Nat] /\ tW[0] = 0 /\ \A i \in 1 .. N : tW[i] = tW[i - 1] + W[i]
    BY <1>4, ThroughIs
  <2>3. \A n : IsFiniteSet(U(n)) /\ Cardinality(U(n)) \in Nat
    <3> SUFFICES ASSUME NEW n PROVE IsFiniteSet(U(n)) /\ Cardinality(U(n)) \in Nat
      OBVIOUS
    <3>1. U(n) \in SUBSET T
      OBVIOUS
    <3> HIDE DEF U
    <3>2. IsFiniteSet(U(n))
      BY <1>6, <3>1, FS_Subset
    <3> QED BY <3>2, FS_CardinalityType
  <2> HIDE DEF tc, tW
  <2>4. 0 \in S
    <3>1. U(0) = {} /\ 0 \in 0 .. N
      BY <1>1
    <3>2. Cardinality(U(0)) = 0
      BY <3>1, FS_EmptySet
    <3> HIDE DEF U
    <3> QED BY <2>1, <2>2, <3>1, <3>2
  <2>5. ASSUME NEW n \in 0 .. N - 1, n \in S PROVE n + 1 \in S
    <3> DEFINE j == n + 1
    <3> HIDE DEF j
    <3>1. j \in 1 .. N /\ j - 1 = n /\ n \in 0 .. N /\ j \in 0 .. N /\ n \in Nat /\ j = n + 1
      BY <1>1 DEF j
    <3>2. /\ tc[j] = tc[n] + copies[j] /\ tW[j] = tW[n] + W[j]
          /\ tc[n] \in Nat /\ tW[n] \in Nat /\ W[j] \in Nat
          /\ copies[j] = 1 + W[j] + extra(j) /\ tc[n] = n + tW[n] + Cardinality(U(n))
          /\ Cardinality(U(n)) \in Nat
      BY <1>1, <1>4, <1>8, <2>1, <2>2, <2>3, <2>5, <3>1
    <3>3. Cardinality(U(j)) = Cardinality(U(n)) + extra(j)
      <4>1. ASSUME j \in T PROVE Cardinality(U(j)) = Cardinality(U(n)) + 1
        <5>1. U(j) = U(n) \cup {j} /\ j \notin U(n)
          BY <3>1, <4>1
        <5> HIDE DEF U
        <5> QED BY <2>3, <5>1, FS_AddElement
      <4>2. ASSUME j \notin T PROVE U(j) = U(n)
        BY <3>1, <4>2
      <4> HIDE DEF U
      <4> QED BY <3>2, <4>1, <4>2
    <3>4. extra(j) \in {0, 1}
      OBVIOUS
    <3> DEFINE x == extra(j)
               c == Cardinality(U(n))
               d == Cardinality(U(j))
    <3>5. /\ x \in Int /\ c \in Nat /\ d = c + x
          /\ copies[j] = 1 + W[j] + x /\ tc[n] = n + tW[n] + c
      <4>1. x \in Int
        BY <3>4
      <4> HIDE DEF U
      <4> QED BY Zenon, <3>2, <3>3, <4>1
    <3>6. tc[j] = tc[n] + copies[j] /\ tW[j] = tW[n] + W[j] /\ tc[n] \in Nat /\ tW[n] \in Nat /\ W[j] \in Nat
      BY <3>2
    <3> HIDE DEF x, c, d
    <3>7. tc[j] = j + tW[j] + d
      <4> DEFINE a == tc[n]
                 b == tW[n]
                 w == W[j]
                 e == copies[j]
      <4>1. a \in Nat /\ b \in Nat /\ w \in Nat /\ tc[j] = a + e /\ tW[j] = b + w
        BY Zenon, <3>6
      <4>2. e = 1 + w + x /\ a = n + b + c /\ d = c + x /\ x \in Int /\ c \in Nat
        BY Zenon, <3>5
      <4>3. n \in Nat /\ j = n + 1
        BY Zenon, <3>1
      <4> HIDE DEF a, b, w, e
      <4>4. a + e = j + (b + w) + d
        BY <4>1, <4>2, <4>3
      <4> QED BY Zenon, <4>1, <4>4
    <3>8. tc[j] = j + tW[j] + Cardinality(U(j))
      BY <3>7 DEF d
    <3> HIDE DEF U
    <3> QED BY <3>1, <3>8 DEF j
  <2>6. N \in S
    <3> HIDE DEF S
    <3>1. \A n \in 0 .. N : n \in S
      BY <1>1, <2>4, <2>5, UpTo
    <3> QED BY <1>1, <3>1
  <2>7. U(N) = T
    BY <1>1, <1>6
  <2>8. tc[N] = N + tW[N] + left
    BY <1>6, <2>6, <2>7
  <2>9. tW[N] = Total(W) /\ tc[N] = Total(copies)
    BY Zenon, <1>4, <1>9 DEF Total, tW, tc
  <2>10. left = spare - Total(W)
    BY DEF left
  <2> QED BY <1>1, <1>2, <1>5, <2>8, <2>9, <2>10
<1>11. ASSUME NEW i \in D, NEW j \in D, i < j PROVE copies[i] >= copies[j]
  <2>1. weights[i] >= weights[j] /\ weights[i] \in Nat /\ weights[j] \in Nat
    <3>1. placed[i] <= placed[j]
      BY <1>11 DEF D
    <3> QED BY <1>1, <1>3, <3>1
  <2>2. /\ W[i] \in Nat /\ W[j] \in Nat /\ R[i] \in Nat /\ R[j] \in Nat /\ R[i] < B /\ R[j] < B
        /\ spare * weights[i] = B * W[i] + R[i] /\ spare * weights[j] = B * W[j] + R[j]
    BY <1>4
  <2>3. spare * weights[i] >= spare * weights[j]
    <3>1. \A a, b, c \in Nat : b >= c => a * b >= a * c
      OBVIOUS
    <3> QED BY <1>2, <2>1, <3>1
  <2>4. W[i] > W[j] \/ (W[i] = W[j] /\ R[i] >= R[j])
    <3>1. \A b \in Nat \ {0}, w, v, r, u \in Nat :
             b * w + r >= b * v + u /\ r < b => w >= v
      <4> SUFFICES ASSUME NEW b \in Nat \ {0}, NEW w \in Nat, NEW v \in Nat, NEW r \in Nat,
                          NEW u \in Nat, b * w + r >= b * v + u, r < b, w < v
                   PROVE  FALSE
        OBVIOUS
      <4>1. b * v >= b * (w + 1)
        OBVIOUS
      <4>2. b * (w + 1) = b * w + b
        OBVIOUS
      <4> DEFINE p == b * w
                 q == b * v
      <4>3. p \in Nat /\ q \in Nat /\ q >= p + b /\ p + r >= q + u
        BY <4>1, <4>2
      <4> HIDE DEF p, q
      <4> QED BY <4>3
    <3>2. B * W[i] + R[i] >= B * W[j] + R[j]
      BY Zenon, <2>2, <2>3
    <3>3. W[i] >= W[j]
      BY <1>4, <2>2, <3>1, <3>2
    <3>4. ASSUME W[i] = W[j] PROVE R[i] >= R[j]
      <4> DEFINE x == W[i]
                 p == B * x
      <4>3. B \in Nat /\ x \in Nat
        BY <1>4, <2>2
      <4> HIDE DEF x
      <4>1. p \in Nat
        BY <4>3
      <4>2. p + R[i] >= p + R[j]
        BY Zenon, <3>2, <3>4 DEF x
      <4> HIDE DEF p
      <4> QED BY <2>2, <4>1, <4>2
    <3> QED BY <2>2, <3>3, <3>4
  <2>5. copies[i] = 1 + W[i] + extra(i) /\ copies[j] = 1 + W[j] + extra(j)
    BY <1>8
  <2>6. CASE W[i] > W[j]
    BY <2>2, <2>5, <2>6
  <2>7. CASE W[i] = W[j] /\ R[i] >= R[j]
    <3>1. Ahead(R, i, j)
      BY <1>1, <1>11, <2>2, <2>7 DEF Ahead
    <3>2. j \in T => i \in T
      BY <1>6, <3>1
    <3> QED BY <2>2, <2>5, <2>7, <3>2
  <2> QED BY <2>4, <2>6, <2>7
<1>12. ASSUME NEW i \in D
       PROVE  /\ (copies[i] - 1) * B > spare * weights[i] - B
              /\ (copies[i] - 1) * B < spare * weights[i] + B
  <2>1. W[i] \in Nat /\ R[i] \in Nat /\ R[i] < B /\ spare * weights[i] = B * W[i] + R[i] /\ B \in Nat \ {0}
    BY <1>4
  <2> DEFINE p == B * W[i]
  <2>2. p \in Nat /\ spare * weights[i] = p + R[i]
    BY <2>1
  <2>3. copies[i] - 1 = W[i] + extra(i)
    <3> DEFINE x == extra(i)
    <3>1. x \in Int /\ copies[i] = 1 + W[i] + x
      BY <1>8
    <3> HIDE DEF x
    <3>2. copies[i] - 1 = W[i] + x
      BY <2>1, <3>1
    <3> QED BY <3>2 DEF x
  <2>4. (copies[i] - 1) * B = p + extra(i) * B
    <3>0. \A w \in Nat, b \in Nat : (w + 0) * b = b * w /\ (w + 1) * b = b * w + b
      OBVIOUS
    <3>1. (W[i] + 0) * B = p /\ (W[i] + 1) * B = p + B
      BY Zenon, <2>1, <3>0
    <3> HIDE DEF p
    <3> QED BY <2>1, <2>2, <2>3, <3>1
  <2> HIDE DEF p
  <2> DEFINE y == (copies[i] - 1) * B
             z == spare * weights[i]
             r == R[i]
             e == extra(i) * B
  <2>5. /\ y = p + e /\ z = p + r /\ p \in Nat /\ r \in Nat /\ r < B /\ B \in Nat
        /\ (e = B /\ r > 0) \/ e = 0
    <3>1. CASE i \in T
      <4>1. extra(i) = 1 /\ r > 0
        BY <1>6, <3>1
      <4>2. e = B
        BY <2>1, <4>1
      <4> QED BY Zenon, <2>1, <2>2, <2>4, <4>1, <4>2
    <3>2. CASE i \notin T
      <4>1. extra(i) = 0
        BY <3>2
      <4>2. e = 0
        BY <2>1, <4>1
      <4> QED BY Zenon, <2>1, <2>2, <2>4, <4>2
    <3> QED BY <3>1, <3>2
  <2> HIDE DEF y, z, r, e
  <2>6. y > z - B /\ y < z + B
    BY <2>1, <2>5
  <2> QED BY Zenon, <2>6 DEF y, z
<1> QED BY Zenon, <1>9, <1>10, <1>11, <1>12 DEF copies, spare, weights, D, N, B

\* holder says whose each of the slots is: each survivor's slots together and
\* in their order, as many as copies says.
Holding(holder, slots, distinct, copies) ==
    /\ \A k \in DOMAIN slots : slots[k] = distinct[holder[k]]
    /\ \A k, l \in DOMAIN slots : k <= l => holder[k] <= holder[l]
    /\ \A i \in DOMAIN distinct :
         /\ \E k \in DOMAIN slots : holder[k] = i
         /\ Cardinality({k \in DOMAIN slots : holder[k] = i}) = copies[i]

\* The slots of the target, each survivor's together and in their order.
LEMMA ReplicateIs ==
    ASSUME NEW T, NEW distinct \in Seq(T), NEW placed \in Seq(Nat), Len(placed) = Len(distinct),
           placed # <<>>, \A i, j \in DOMAIN placed : i < j => placed[i] <= placed[j],
           NEW target \in Nat, target >= Len(placed)
    PROVE  LET slots == replicate_to_size(distinct, placed, target)
           IN  /\ slots \in Seq(T) /\ Len(slots) = target
               /\ \E holder \in [1 .. target -> DOMAIN distinct] :
                    Holding(holder, slots, distinct, Copies(placed, target))
<1> DEFINE N == Len(placed)
           copies == Copies(placed, target)
           t == Through(copies)
           slots == replicate_to_size(distinct, placed, target)
           Holds(i, k) == t[i - 1] < k /\ k <= t[i]
           h(k) == CHOOSE i \in DOMAIN distinct : Holds(i, k)
           holder == [k \in 1 .. target |-> h(k)]
<1>1. N \in Nat /\ DOMAIN distinct = 1 .. N
  OBVIOUS
<1>2. copies \in Seq(Nat \ {0}) /\ copies \in Seq(Nat) /\ Len(copies) = N /\ Total(copies) = target
  <2>1. copies \in Seq(Nat \ {0}) /\ Len(copies) = N /\ Total(copies) = target
    BY CopiesAre
  <2> HIDE DEF copies, N
  <2> QED BY <2>1
<1>3. slots = [k \in 1 .. target |-> distinct[holder[k]]]
  <2>1. slots = [k \in 1 .. Total(copies) |-> distinct[h(k)]]
    BY Zenon DEF replicate_to_size
  <2> HIDE DEF slots, h, copies
  <2> QED BY <1>2, <2>1
<1>4. t \in [0 .. N -> Nat] /\ t[0] = 0 /\ \A i \in 1 .. N : t[i] = t[i - 1] + copies[i]
  BY <1>2, ThroughIs
<1>5. \A i, j \in 0 .. N : i <= j => t[i] <= t[j]
  BY <1>2, ThroughGrows
<1>6. t[N] = target
  BY <1>2 DEF Total
<1>7. ASSUME NEW k \in 1 .. target
      PROVE  \E i \in 1 .. N : Holds(i, k) /\ \A j \in 1 .. N : Holds(j, k) => j = i
  <2> HIDE DEF copies, N
  <2>1. k \in 1 .. Total(copies)
    BY <1>2
  <2>2. \E i \in 1 .. Len(copies) :
           /\ Through(copies)[i - 1] < k /\ k <= Through(copies)[i]
           /\ \A j \in 1 .. Len(copies) :
                Through(copies)[j - 1] < k /\ k <= Through(copies)[j] => j = i
    BY <1>2, <2>1, EverySlotHasAShare
  <2> QED BY <1>2, <2>2
<1> HIDE DEF N, copies, t, slots
<1>8. ASSUME NEW k \in 1 .. target
      PROVE  /\ holder[k] \in 1 .. N /\ Holds(holder[k], k)
             /\ \A j \in 1 .. N : Holds(j, k) => j = holder[k]
  <2> HIDE DEF Holds
  <2> QED BY Zenon, <1>1, <1>7
<1>9. holder \in [1 .. target -> 1 .. N]
  <2>1. \A k \in 1 .. target : holder[k] \in 1 .. N
    BY <1>8
  <2> QED BY <2>1
<1> HIDE DEF holder
<1>10. ASSUME NEW k \in 1 .. target, NEW l \in 1 .. target, k <= l PROVE holder[k] <= holder[l]
  <2> DEFINE i == holder[k]
             j == holder[l]
  <2>1. i \in 1 .. N /\ j \in 1 .. N /\ t[i - 1] < k /\ l <= t[j]
    BY <1>8
  <2> HIDE DEF i, j
  <2>2. ASSUME j < i PROVE FALSE
    <3>1. j <= i - 1 /\ i - 1 \in 0 .. N /\ j \in 0 .. N
      BY <1>1, <2>1, <2>2
    <3>2. t[j] <= t[i - 1] /\ t[j] \in Nat /\ t[i - 1] \in Nat
      BY <1>4, <1>5, <3>1
    <3> QED BY <1>10, <2>1, <3>2
  <2>3. i <= j
    BY <1>1, <2>1, <2>2
  <2> QED BY <2>3 DEF i, j
<1>11. ASSUME NEW i \in 1 .. N
       PROVE  /\ \E k \in 1 .. target : holder[k] = i
              /\ Cardinality({k \in 1 .. target : holder[k] = i}) = copies[i]
  <2> HIDE DEF t, copies, N
  <2>1. /\ i - 1 \in 0 .. N /\ i \in 0 .. N /\ t[i] = t[i - 1] + copies[i]
        /\ t[i - 1] \in Nat /\ t[i] \in Nat /\ copies[i] \in Nat \ {0}
    <3>1. i - 1 \in 0 .. N /\ i \in 0 .. N
      BY <1>1
    <3>2. t[i] = t[i - 1] + copies[i]
      BY Zenon, <1>4
    <3>3. t[i - 1] \in Nat /\ t[i] \in Nat
      BY Zenon, <1>4, <3>1
    <3>4. copies[i] \in Nat \ {0}
      BY <1>2
    <3> QED BY Zenon, <3>1, <3>2, <3>3, <3>4
  <2>2. t[i] <= target
    BY <1>1, <1>5, <1>6, <2>1
  <2>3. \A k \in 1 .. target : holder[k] = i <=> t[i - 1] < k /\ k <= t[i]
    BY <1>8
  <2>4. {k \in 1 .. target : holder[k] = i} = t[i - 1] + 1 .. t[i]
    <3>1. \A k : k \in t[i - 1] + 1 .. t[i] <=> k \in 1 .. target /\ t[i - 1] < k /\ k <= t[i]
      BY <2>1, <2>2
    <3> QED BY <2>3, <3>1
  <2>5. Cardinality(t[i - 1] + 1 .. t[i]) = copies[i]
    BY Zenon, <2>1, SpanIs
  <2>6. t[i] \in 1 .. target /\ holder[t[i]] = i
    <3>1. t[i] \in 1 .. target /\ t[i - 1] < t[i]
      BY <2>1, <2>2
    <3> QED BY <2>1, <2>3, <3>1
  <2> QED BY <2>4, <2>5, <2>6
<1>12. slots \in Seq(T) /\ Len(slots) = target
  <2>1. \A k \in 1 .. target : distinct[holder[k]] \in T
    BY <1>1, <1>9
  <2>2. slots \in [1 .. target -> T]
    BY <1>3, <2>1
  <2> QED BY <2>2
<1>13. \A k \in 1 .. target : slots[k] = distinct[holder[k]]
  BY <1>3
<1>14. holder \in [1 .. target -> DOMAIN distinct]
  BY <1>1, <1>9
<1>15. \A i \in DOMAIN distinct : /\ \E k \in 1 .. target : holder[k] = i
                                  /\ Cardinality({k \in 1 .. target : holder[k] = i}) = copies[i]
  BY <1>1, <1>11
<1>16. DOMAIN slots = 1 .. target
  BY <1>3
<1>17. Holding(holder, slots, distinct, copies)
  BY Zenon, <1>10, <1>13, <1>15, <1>16 DEF Holding
<1> QED BY Zenon, <1>12, <1>14, <1>17 DEF slots, copies

-----------------------------------------------------------------------------
(* replicate_to_size *)

ApportionInv ==
    /\ places \in RankLists
    /\ target_size \in Nat /\ target_size >= Len(places)
    /\ replicated \in {<<>>, replicate_to_size([i \in DOMAIN places |-> i], places, target_size)}

LEMMA ApportionInvIs == ApportionSpec => []ApportionInv
<1>1. ApportionInit => ApportionInv
  <2> SUFFICES ASSUME ApportionInit PROVE ApportionInv
    OBVIOUS
  <2>1. places \in Seq(Nat) /\ target_size \in Len(places) .. MaxTarget /\ MaxTarget \in Nat
    BY ApportionAssumption DEF ApportionInit
  <2>2. target_size \in Nat /\ target_size >= Len(places)
    BY <2>1
  <2> QED BY <2>2 DEF ApportionInit, ApportionInv
<1>2. ApportionInv /\ [Replicate]_placeVars => ApportionInv'
  BY Zenon DEF ApportionInv, Replicate, placeVars
<1> QED BY <1>1, <1>2, PTL DEF ApportionSpec

LEMMA ReplicatedFairly == ApportionInv => ApportionsFairly
<1> SUFFICES ASSUME ApportionInv, replicated # <<>> PROVE ApportionsFairly
  BY DEF ApportionsFairly, FillsTheTarget, BestFirst, KeepsQuota
<1> DEFINE distinct == [i \in DOMAIN places |-> i]
           N == Len(places)
           copies == Copies(places, target_size)
<1>1. /\ places \in Seq(Nat) /\ places # <<>> /\ N \in Nat /\ DOMAIN places = 1 .. N
      /\ \A i, j \in DOMAIN places : i < j => places[i] <= places[j]
      /\ target_size \in Nat /\ target_size >= N
  BY ApportionAssumption DEF ApportionInv
<1>2. distinct \in Seq(Nat) /\ Len(distinct) = N /\ DOMAIN distinct = 1 .. N
      /\ \A i \in 1 .. N : distinct[i] = i
  <2> HIDE DEF N
  <2>1. distinct \in [1 .. N -> Nat]
    BY <1>1
  <2>2. \A i \in 1 .. N : distinct[i] = i
    BY <1>1
  <2> HIDE DEF distinct
  <2> QED BY <1>1, <2>1, <2>2
<1>3. replicated = replicate_to_size(distinct, places, target_size)
  BY DEF ApportionInv
<1> HIDE DEF distinct, N, copies
<1>4. /\ replicated \in Seq(Nat) /\ Len(replicated) = target_size
      /\ \E holder \in [1 .. target_size -> DOMAIN distinct] :
           Holding(holder, replicated, distinct, copies)
  <2>1. /\ distinct \in Seq(Nat) /\ places \in Seq(Nat) /\ Len(places) = Len(distinct)
        /\ places # <<>> /\ \A i, j \in DOMAIN places : i < j => places[i] <= places[j]
        /\ target_size \in Nat /\ target_size >= Len(places)
    BY <1>1, <1>2 DEF N
  <2> DEFINE slots == replicate_to_size(distinct, places, target_size)
  <2>2. /\ slots \in Seq(Nat) /\ Len(slots) = target_size
        /\ \E holder \in [1 .. target_size -> DOMAIN distinct] :
             Holding(holder, slots, distinct, Copies(places, target_size))
    BY <2>1, ReplicateIs
  <2> QED BY Zenon, <1>3, <2>2 DEF copies
<1>5. PICK holder \in [1 .. target_size -> 1 .. N] : Holding(holder, replicated, distinct, copies)
  BY Zenon, <1>2, <1>4
<1>6. /\ DOMAIN replicated = 1 .. target_size
      /\ \A k \in 1 .. target_size : replicated[k] = holder[k] /\ holder[k] \in 1 .. N
      /\ \A k, l \in 1 .. target_size : k <= l => holder[k] <= holder[l]
      /\ \A i \in 1 .. N : Cardinality({k \in 1 .. target_size : holder[k] = i}) = copies[i]
  <2>1. DOMAIN replicated = 1 .. target_size
    BY <1>1, <1>4
  <2>2. \A k \in 1 .. target_size : holder[k] \in 1 .. N /\ replicated[k] = distinct[holder[k]]
    BY <1>5, <2>1 DEF Holding
  <2>3. \A k, l \in 1 .. target_size : k <= l => holder[k] <= holder[l]
    BY Zenon, <1>5, <2>1 DEF Holding
  <2>4. \A i \in 1 .. N : Cardinality({k \in 1 .. target_size : holder[k] = i}) = copies[i]
    BY Zenon, <1>2, <1>5, <2>1 DEF Holding
  <2> QED BY <1>2, <2>1, <2>2, <2>3, <2>4
<1>7. ASSUME NEW i \in 1 .. N PROVE CopiesOf(i) = copies[i]
  <2>1. {k \in DOMAIN replicated : replicated[k] = i} = {k \in 1 .. target_size : holder[k] = i}
    BY <1>6
  <2> QED BY Zenon, <1>6, <2>1 DEF CopiesOf
<1>8. /\ copies \in Seq(Nat \ {0}) /\ Len(copies) = N
      /\ \A i, j \in DOMAIN places : i < j => copies[i] >= copies[j]
      /\ \A i \in DOMAIN places :
           /\ (copies[i] - 1) * Total(Weights(places))
                > (target_size - N) * Weights(places)[i] - Total(Weights(places))
           /\ (copies[i] - 1) * Total(Weights(places))
                < (target_size - N) * Weights(places)[i] + Total(Weights(places))
  BY <1>1, CopiesAre DEF N, copies
<1>9. FillsTheTarget
  <2>1. \A i \in 1 .. N : copies[i] >= 1
    BY <1>1, <1>8
  <2>2. \A i \in DOMAIN places : CopiesOf(i) >= 1
    BY <1>1, <1>7, <2>1
  <2> QED BY <1>4, <2>2 DEF FillsTheTarget
<1>10. BestFirst
  <2>1. \A i, j \in DOMAIN places : i < j => CopiesOf(i) >= CopiesOf(j)
    BY <1>1, <1>7, <1>8
  <2>2. ASSUME NEW k \in DOMAIN replicated, NEW l \in DOMAIN replicated, k < l
        PROVE  replicated[k] <= replicated[l]
    BY <1>1, <1>5, <1>6, <2>2
  <2> QED BY <2>1, <2>2 DEF BestFirst
<1>11. KeepsQuota
  <2>1. ASSUME NEW i \in DOMAIN places
        PROVE  /\ (CopiesOf(i) - 1) * Total(Weights(places))
                    > (target_size - Len(places)) * Weights(places)[i] - Total(Weights(places))
               /\ (CopiesOf(i) - 1) * Total(Weights(places))
                    < (target_size - Len(places)) * Weights(places)[i] + Total(Weights(places))
    <3>1. CopiesOf(i) = copies[i]
      BY <1>1, <1>7
    <3> QED BY Zenon, <1>8, <3>1 DEF N
  <2> QED BY Zenon, <2>1 DEF KeepsQuota
<1> QED BY <1>9, <1>10, <1>11 DEF ApportionsFairly

\* For any ranks and any target replicate_to_size fills the target, keeps
\* every survivor, best first, and stays within one slot of the proportional
\* quotas (replicate_to_size).
THEOREM Apportions == ApportionSpec => []ApportionsFairly
BY ApportionInvIs, ReplicatedFairly, PTL

-----------------------------------------------------------------------------
(* Populations *)

\* arranged lists the entries of seq at the indices I, each once, in the order R.
Listing(p, arranged, seq, I, R) ==
    /\ \A k \in DOMAIN arranged : arranged[k] = seq[p[k]]
    /\ \A i \in I : \E k \in DOMAIN arranged : p[k] = i
    /\ \A k, l \in DOMAIN arranged : k < l => <<p[k], p[l]>> \in R

LEMMA ArrangedIs ==
    ASSUME NEW T, NEW seq \in Seq(T), NEW I \in SUBSET DOMAIN seq, NEW R, StrictlyOrders(R, I)
    PROVE  /\ Arranged(seq, I, R) \in Seq(T)
           /\ Len(Arranged(seq, I, R)) = Cardinality(I)
           /\ Cardinality(I) <= Len(seq)
           /\ \E p \in [DOMAIN Arranged(seq, I, R) -> I] : Listing(p, Arranged(seq, I, R), seq, I, R)
<1> DEFINE N == Cardinality(I)
           at(k) == CHOOSE i \in I : Cardinality(Before(I, R, i)) = k - 1
           p == [k \in 1 .. N |-> at(k)]
           arranged == Arranged(seq, I, R)
<1>1. IsFiniteSet(I) /\ N \in Nat /\ N <= Len(seq)
  <2>1. Len(seq) \in Nat /\ DOMAIN seq = 1 .. Len(seq)
    OBVIOUS
  <2>2. IsFiniteSet(1 .. Len(seq))
    BY Zenon, <2>1, AsManyAs
  <2>3. Cardinality(1 .. Len(seq)) = Len(seq)
    BY Zenon, <2>1, AsManyAs
  <2>4. I \in SUBSET (1 .. Len(seq))
    BY <2>1
  <2> QED BY <2>2, <2>3, <2>4, FS_Subset, FS_CardinalityType
<1>2. /\ \A i \in I : Cardinality(Before(I, R, i)) \in 0 .. N - 1
      /\ \A i, j \in I : <<i, j>> \in R
                           <=> Cardinality(Before(I, R, i)) < Cardinality(Before(I, R, j))
      /\ \A i, j \in I : Cardinality(Before(I, R, i)) = Cardinality(Before(I, R, j)) => i = j
      /\ \A k \in 0 .. N - 1 : \E i \in I : Cardinality(Before(I, R, i)) = k
  BY <1>1, PlacesAre
<1>3. arranged = [k \in 1 .. N |-> seq[at(k)]]
  BY Zenon DEF Arranged, Before
<1> HIDE DEF N, arranged
<1>4. ASSUME NEW k \in 1 .. N
      PROVE  at(k) \in I /\ Cardinality(Before(I, R, at(k))) = k - 1
  <2>1. k - 1 \in 0 .. N - 1
    BY <1>1
  <2> QED BY <1>2, <2>1
<1> HIDE DEF at
<1>5. p \in [1 .. N -> I] /\ \A k \in 1 .. N : p[k] = at(k)
  BY <1>4
<1>6. DOMAIN arranged = 1 .. N
  BY <1>3
<1>7. arranged \in Seq(T) /\ Len(arranged) = N
  <2>1. \A k \in 1 .. N : seq[at(k)] \in T
    BY <1>4
  <2>2. arranged \in [1 .. N -> T]
    BY <1>3, <2>1
  <2> QED BY <1>1, <2>2
<1> HIDE DEF p
<1>8. \A k \in DOMAIN arranged : arranged[k] = seq[p[k]]
  BY <1>3, <1>5, <1>6
<1>9. ASSUME NEW i \in I PROVE \E k \in DOMAIN arranged : p[k] = i
  <2> DEFINE k == Cardinality(Before(I, R, i)) + 1
  <2>1. k \in 1 .. N /\ k - 1 = Cardinality(Before(I, R, i))
    BY <1>1, <1>2
  <2> HIDE DEF k
  <2>2. at(k) \in I /\ Cardinality(Before(I, R, at(k))) = Cardinality(Before(I, R, i))
    BY <1>4, <2>1
  <2>3. at(k) = i
    BY <1>2, <2>2
  <2> QED BY <1>5, <1>6, <2>1, <2>3
<1>10. ASSUME NEW k \in DOMAIN arranged, NEW l \in DOMAIN arranged, k < l PROVE <<p[k], p[l]>> \in R
  <2>1. /\ k \in 1 .. N /\ l \in 1 .. N /\ p[k] \in I /\ p[l] \in I
        /\ Cardinality(Before(I, R, p[k])) = k - 1 /\ Cardinality(Before(I, R, p[l])) = l - 1
    BY <1>4, <1>5, <1>6
  <2>2. k - 1 < l - 1
    BY <1>1, <1>10, <2>1
  <2> QED BY <1>2, <2>1, <2>2
<1>11. Listing(p, arranged, seq, I, R)
  BY Zenon, <1>8, <1>9, <1>10 DEF Listing
<1>12. p \in [DOMAIN arranged -> I]
  BY <1>5, <1>6
<1> QED BY Zenon, <1>1, <1>7, <1>11, <1>12 DEF N, arranged

LEMMA ArrangedMembers ==
    ASSUME NEW T, NEW seq \in Seq(T), NEW I \in SUBSET DOMAIN seq, NEW R, StrictlyOrders(R, I)
    PROVE  /\ Arranged(seq, I, R) \in Seq(T)
           /\ Len(Arranged(seq, I, R)) = Cardinality(I)
           /\ Len(Arranged(seq, I, R)) <= Len(seq)
           /\ Members(Arranged(seq, I, R)) = {seq[i] : i \in I}
           /\ (\A i, j \in I : seq[i] = seq[j] => i = j) => NoRepeats(Arranged(seq, I, R))
<1> DEFINE arranged == Arranged(seq, I, R)
<1>1. /\ arranged \in Seq(T) /\ Len(arranged) = Cardinality(I) /\ Cardinality(I) <= Len(seq)
      /\ \E p \in [DOMAIN arranged -> I] : Listing(p, arranged, seq, I, R)
  BY ArrangedIs
<1> HIDE DEF arranged
<1>2. PICK p \in [DOMAIN arranged -> I] : Listing(p, arranged, seq, I, R)
  BY <1>1
<1>3. Members(arranged) = {seq[i] : i \in I}
  BY <1>2 DEF Listing, Members
<1>4. ASSUME \A i, j \in I : seq[i] = seq[j] => i = j PROVE NoRepeats(arranged)
  <2> SUFFICES ASSUME NEW k \in DOMAIN arranged, NEW l \in DOMAIN arranged,
                      arranged[k] = arranged[l]
               PROVE  k = l
    BY DEF NoRepeats
  <2>1. p[k] \in I /\ p[l] \in I /\ p[k] = p[l]
    BY <1>2, <1>4 DEF Listing
  <2>2. <<p[k], p[l]>> \notin R /\ <<p[l], p[k]>> \notin R
    BY <2>1 DEF StrictlyOrders
  <2>3. ~(k < l) /\ ~(l < k)
    BY <1>2, <2>2 DEF Listing
  <2>4. k \in Int /\ l \in Int
    BY <1>1
  <2> QED BY <2>3, <2>4
<1> QED BY <1>1, <1>3, <1>4 DEF arranged

LEMMA IndicesAreOrdered ==
    ASSUME NEW T, NEW seq \in Seq(T), NEW I \in SUBSET DOMAIN seq
    PROVE  StrictlyOrders(IndexOrder(seq), I)
<1>1. \A i \in I : i \in Int /\ i \in DOMAIN seq
  OBVIOUS
<1> QED BY <1>1 DEF StrictlyOrders, IndexOrder

LEMMA DedupIs ==
    ASSUME NEW T, NEW seq \in Seq(T)
    PROVE  /\ Dedup(seq) \in Seq(T) /\ Len(Dedup(seq)) <= Len(seq)
           /\ Members(Dedup(seq)) = Members(seq) /\ NoRepeats(Dedup(seq))
<1> DEFINE I == {i \in DOMAIN seq : \A j \in DOMAIN seq : j < i => seq[j] # seq[i]}
<1>1. I \in SUBSET DOMAIN seq
  OBVIOUS
<1>2. Dedup(seq) = Arranged(seq, I, IndexOrder(seq))
  BY Zenon DEF Dedup
<1>3. \A i, j \in I : seq[i] = seq[j] => i = j
  <2> SUFFICES ASSUME NEW i \in I, NEW j \in I, seq[i] = seq[j] PROVE i = j
    OBVIOUS
  <2>1. i \in Int /\ j \in Int /\ ~(i < j) /\ ~(j < i)
    OBVIOUS
  <2> QED BY <2>1
<1>4. {seq[i] : i \in I} = Members(seq)
  <2> SUFFICES ASSUME NEW i \in DOMAIN seq PROVE \E j \in I : seq[j] = seq[i]
    BY DEF Members
  <2> DEFINE same == {j \in DOMAIN seq : seq[j] = seq[i]}
  <2>1. same \in SUBSET Nat /\ same # {}
    OBVIOUS
  <2>2. PICK j \in same : \A l \in same : j <= l
    <3> HIDE DEF same
    <3> QED BY <2>1, LeastOf
  <2>3. ASSUME NEW l \in DOMAIN seq, l < j PROVE seq[l] # seq[j]
    <3>1. l \in Int /\ j \in Int
      BY <2>2
    <3> QED BY <2>2, <2>3, <3>1
  <2> QED BY <2>2, <2>3
<1> HIDE DEF I
<1> DEFINE R == IndexOrder(seq)
<1>5. StrictlyOrders(R, I)
  BY <1>1, IndicesAreOrdered
<1> HIDE DEF R
<1>6. /\ Arranged(seq, I, R) \in Seq(T) /\ Len(Arranged(seq, I, R)) <= Len(seq)
      /\ Members(Arranged(seq, I, R)) = {seq[i] : i \in I}
      /\ (\A i, j \in I : seq[i] = seq[j] => i = j) => NoRepeats(Arranged(seq, I, R))
  BY <1>1, <1>5, ArrangedMembers
<1> QED BY Zenon, <1>2, <1>3, <1>4, <1>6 DEF R

LEMMA KeepIs ==
    ASSUME NEW T, NEW seq \in Seq(T), NEW S
    PROVE  /\ Keep(seq, S) \in Seq(T) /\ Len(Keep(seq, S)) <= Len(seq)
           /\ Members(Keep(seq, S)) = Members(seq) \cap S
           /\ NoRepeats(seq) => NoRepeats(Keep(seq, S))
<1> DEFINE I == {i \in DOMAIN seq : seq[i] \in S}
<1>1. I \in SUBSET DOMAIN seq
  OBVIOUS
<1>2. Keep(seq, S) = Arranged(seq, I, IndexOrder(seq))
  BY Zenon DEF Keep
<1>3. {seq[i] : i \in I} = Members(seq) \cap S
  BY DEF Members
<1>4. NoRepeats(seq) => \A i, j \in I : seq[i] = seq[j] => i = j
  BY DEF NoRepeats
<1> HIDE DEF I
<1> DEFINE R == IndexOrder(seq)
<1>5. StrictlyOrders(R, I)
  BY <1>1, IndicesAreOrdered
<1> HIDE DEF R
<1>6. /\ Arranged(seq, I, R) \in Seq(T) /\ Len(Arranged(seq, I, R)) <= Len(seq)
      /\ Members(Arranged(seq, I, R)) = {seq[i] : i \in I}
      /\ (\A i, j \in I : seq[i] = seq[j] => i = j) => NoRepeats(Arranged(seq, I, R))
  BY <1>1, <1>5, ArrangedMembers
<1> QED BY Zenon, <1>2, <1>3, <1>4, <1>6 DEF R

\* No member, no entry.
LEMMA EmptyIs ==
    ASSUME NEW T, NEW seq \in Seq(T)
    PROVE  /\ seq = <<>> <=> Members(seq) = {}
           /\ seq = <<>> <=> Len(seq) = 0
           /\ Members(seq) \subseteq T
<1>1. Len(seq) \in Nat /\ DOMAIN seq = 1 .. Len(seq) /\ \A i \in DOMAIN seq : seq[i] \in T
  OBVIOUS
<1>2. seq = <<>> <=> Len(seq) = 0
  OBVIOUS
<1>3. Len(seq) = 0 <=> Members(seq) = {}
  <2>1. Len(seq) # 0 => 1 \in DOMAIN seq
    BY <1>1
  <2>2. Len(seq) = 0 => DOMAIN seq = {}
    BY <1>1
  <2> QED BY <2>1, <2>2 DEF Members
<1>4. Members(seq) \subseteq T
  BY <1>1 DEF Members
<1> QED BY <1>2, <1>3, <1>4

LEMMA JoinIs ==
    ASSUME NEW T, NEW s \in Seq(T), NEW t \in Seq(T)
    PROVE  /\ s \o t \in Seq(T) /\ Len(s \o t) = Len(s) + Len(t)
           /\ Members(s \o t) = Members(s) \cup Members(t)
<1>1. s \o t \in Seq(T) /\ Len(s \o t) = Len(s) + Len(t)
  OBVIOUS
<1>2. \A i \in 1 .. Len(s) : (s \o t)[i] = s[i] /\ i \in DOMAIN (s \o t)
  OBVIOUS
<1>3. ASSUME NEW i \in 1 .. Len(t)
      PROVE  Len(s) + i \in DOMAIN (s \o t) /\ (s \o t)[Len(s) + i] = t[i]
  OBVIOUS
<1>4. ASSUME NEW i \in DOMAIN (s \o t)
      PROVE  \/ i \in 1 .. Len(s) /\ (s \o t)[i] = s[i]
             \/ i - Len(s) \in 1 .. Len(t) /\ (s \o t)[i] = t[i - Len(s)]
  OBVIOUS
<1>5. DOMAIN s = 1 .. Len(s) /\ DOMAIN t = 1 .. Len(t)
  OBVIOUS
<1>6. \A x \in Members(s \o t) : x \in Members(s) \cup Members(t)
  BY <1>4, <1>5 DEF Members
<1>7. \A x \in Members(s) \cup Members(t) : x \in Members(s \o t)
  BY <1>2, <1>3, <1>5 DEF Members
<1> QED BY <1>1, <1>6, <1>7

LEMMA HeadIs ==
    ASSUME NEW T, NEW seq \in Seq(T), NEW n \in 0 .. Len(seq)
    PROVE  /\ SubSeq(seq, 1, n) \in Seq(T) /\ Len(SubSeq(seq, 1, n)) = n
           /\ \A i \in 1 .. n : SubSeq(seq, 1, n)[i] = seq[i]
           /\ Members(SubSeq(seq, 1, n)) = {seq[i] : i \in 1 .. n}
<1>1. /\ SubSeq(seq, 1, n) \in Seq(T) /\ Len(SubSeq(seq, 1, n)) = n
      /\ \A i \in 1 .. n : SubSeq(seq, 1, n)[i] = seq[i]
  OBVIOUS
<1>2. DOMAIN SubSeq(seq, 1, n) = 1 .. n
  BY <1>1
<1> QED BY <1>1, <1>2 DEF Members

LEMMA MembersFinite ==
    ASSUME NEW T, NEW seq \in Seq(T)
    PROVE  IsFiniteSet(Members(seq)) /\ IsFiniteSet(DOMAIN seq) /\ Cardinality(DOMAIN seq) = Len(seq)
<1>1. Len(seq) \in Nat /\ DOMAIN seq = 1 .. Len(seq) /\ seq \in [1 .. Len(seq) -> T]
  OBVIOUS
<1>2. IsFiniteSet(1 .. Len(seq))
  BY Zenon, <1>1, AsManyAs
<1>3. Cardinality(1 .. Len(seq)) = Len(seq)
  BY Zenon, <1>1, AsManyAs
<1>4. IsFiniteSet({seq[i] : i \in 1 .. Len(seq)})
  BY <1>1, <1>2, ValuesFinite
<1> QED BY <1>1, <1>2, <1>3, <1>4 DEF Members

-----------------------------------------------------------------------------
(* The orders of a population *)

LEMMA FitnessIsNat == \A s \in Searchable : Fitness(s) \in Nat
<1> SUFFICES ASSUME NEW s \in Searchable PROVE Fitness(s) \in Nat
  OBVIOUS
<1> DEFINE v == Objectives[s]
<1>1. v \in Seq(Nat)
  BY GenerationAssumption
<1> HIDE DEF v
<1>2. Through(v) \in [0 .. Len(v) -> Nat] /\ Len(v) \in 0 .. Len(v)
  BY <1>1, ThroughIs
<1>3. Total(v) \in Nat
  BY <1>2 DEF Total
<1> QED BY <1>3 DEF Fitness, v

LEMMA FittestFirstIs ==
    ASSUME NEW seq \in Seq(Searchable)
    PROVE  /\ FittestFirst(seq) \in Seq(Searchable)
           /\ Len(FittestFirst(seq)) = Len(seq)
           /\ Members(FittestFirst(seq)) = Members(seq)
           /\ \A k \in DOMAIN FittestFirst(seq) :
                Fitness(FittestFirst(seq)[1]) >= Fitness(FittestFirst(seq)[k])
<1> DEFINE D == DOMAIN seq
           R == FitnessOrder(seq)
           fittest == FittestFirst(seq)
<1>1. Len(seq) \in Nat /\ D = 1 .. Len(seq) /\ \A i \in D : i \in Int /\ seq[i] \in Searchable
  OBVIOUS
<1>2. \A i \in D : Fitness(seq[i]) \in Int
  BY <1>1, FitnessIsNat
<1>3. \A i, j : <<i, j>> \in R <=>
        /\ i \in D /\ j \in D
        /\ \/ Fitness(seq[i]) > Fitness(seq[j])
           \/ Fitness(seq[i]) = Fitness(seq[j]) /\ i < j
  BY DEF FitnessOrder
<1>4. fittest = Arranged(seq, D, R)
  BY Zenon DEF FittestFirst
<1> HIDE DEF D, R, fittest
<1>5. StrictlyOrders(R, D)
  <2>1. \A i \in D : <<i, i>> \notin R
    BY <1>1, <1>2, <1>3
  <2>2. ASSUME NEW i \in D, NEW j \in D, NEW k \in D, <<i, j>> \in R, <<j, k>> \in R
        PROVE  <<i, k>> \in R
    <3> DEFINE x == Fitness(seq[i])
               y == Fitness(seq[j])
               z == Fitness(seq[k])
    <3>1. x \in Int /\ y \in Int /\ z \in Int /\ i \in Int /\ j \in Int /\ k \in Int
      BY <1>1, <1>2
    <3>2. (x > y \/ (x = y /\ i < j)) /\ (y > z \/ (y = z /\ j < k))
      BY <1>3, <2>2
    <3> HIDE DEF x, y, z
    <3>3. x > z \/ (x = z /\ i < k)
      BY <3>1, <3>2
    <3> QED BY Zenon, <1>3, <3>3 DEF x, z
  <2>3. ASSUME NEW i \in D, NEW j \in D PROVE i = j \/ <<i, j>> \in R \/ <<j, i>> \in R
    <3> DEFINE x == Fitness(seq[i])
               y == Fitness(seq[j])
    <3>1. x \in Int /\ y \in Int /\ i \in Int /\ j \in Int
      BY <1>1, <1>2
    <3> HIDE DEF x, y
    <3>2. i = j \/ (x > y \/ (x = y /\ i < j)) \/ (y > x \/ (y = x /\ j < i))
      BY <3>1
    <3> QED BY Zenon, <1>3, <3>2 DEF x, y
  <2> QED BY <2>1, <2>2, <2>3 DEF StrictlyOrders
<1>6. /\ fittest \in Seq(Searchable) /\ Len(fittest) = Cardinality(D)
      /\ \E p \in [DOMAIN fittest -> D] : Listing(p, fittest, seq, D, R)
  BY <1>4, <1>5, ArrangedIs DEF D
<1>7. Members(fittest) = {seq[i] : i \in D}
  BY <1>4, <1>5, ArrangedMembers DEF D
<1>8. Cardinality(D) = Len(seq)
  BY MembersFinite DEF D
<1>9. ASSUME NEW k \in DOMAIN fittest PROVE Fitness(fittest[1]) >= Fitness(fittest[k])
  <2>1. PICK p \in [DOMAIN fittest -> D] : Listing(p, fittest, seq, D, R)
    BY <1>6
  <2>2. 1 \in DOMAIN fittest /\ k \in Int /\ k >= 1
    BY <1>6
  <2>3. fittest[1] = seq[p[1]] /\ fittest[k] = seq[p[k]] /\ p[1] \in D /\ p[k] \in D
    BY <2>1, <2>2 DEF Listing
  <2>4. CASE k = 1
    BY <1>2, <2>3, <2>4
  <2>5. CASE k # 1
    <3>1. <<p[1], p[k]>> \in R
      <4>1. 1 < k
        BY <2>2, <2>5
      <4> QED BY <2>1, <2>2, <4>1 DEF Listing
    <3> QED BY <1>2, <1>3, <2>3, <3>1
  <2> QED BY <2>4, <2>5
<1> QED BY <1>6, <1>7, <1>8, <1>9 DEF Members, D, fittest

LEMMA OnlyTheFittestFirst ==
    ASSUME NEW seq, ~Nsga2
    PROVE  Orders(seq) = {FittestFirst(seq)}
BY DEF Orders

LEMMA OrdersAre ==
    ASSUME NEW seq \in Seq(Searchable), NEW o \in Orders(seq)
    PROVE  /\ o \in Seq(Searchable) /\ Len(o) = Len(seq) /\ Members(o) = Members(seq)
           /\ ~Nsga2 => \A k \in DOMAIN o : Fitness(o[1]) >= Fitness(o[k])
           /\ Nsga2 => /\ NoRepeats(seq) => NoRepeats(o)
                       /\ \A i, j \in DOMAIN o :
                            i < j => Ranked(Members(seq))[o[i]] <= Ranked(Members(seq))[o[j]]
<1>1. CASE ~Nsga2
  <2>1. o = FittestFirst(seq)
    <3>1. Orders(seq) = {FittestFirst(seq)}
      BY Zenon, <1>1, OnlyTheFittestFirst
    <3>2. \A S, f : o \in S /\ S = {f} => o = f
      OBVIOUS
    <3> QED BY Zenon, <3>1, <3>2
  <2> QED BY <1>1, <2>1, FittestFirstIs
<1>2. CASE Nsga2
  <2> DEFINE D == DOMAIN seq
             rank == Ranked(Members(seq))
  <2>1. /\ \E p \in Reorderings(seq) : o = [i \in D |-> seq[p[i]]]
        /\ \A i, j \in DOMAIN o : i < j => rank[o[i]] <= rank[o[j]]
    <3> HIDE DEF rank
    <3>1. o \in {q \in {[i \in D |-> seq[p[i]]] : p \in Reorderings(seq)} :
                   \A i, j \in DOMAIN q : i < j => rank[q[i]] <= rank[q[j]]}
      BY Zenon, <1>2 DEF Orders, FrontOrders, rank
    <3> QED BY <3>1
  <2>2. PICK p \in Reorderings(seq) : o = [i \in D |-> seq[p[i]]]
    BY <2>1
  <2>3. p \in [D -> D] /\ \A w \in D : \E v \in D : p[v] = w
    BY Zenon DEF Reorderings
  <2>4. D = 1 .. Len(seq) /\ Len(seq) \in Nat /\ \A i \in D : seq[i] \in Searchable
    OBVIOUS
  <2>5. \A i, j \in D : p[i] = p[j] => i = j
    <3>1. IsFiniteSet(D)
      BY MembersFinite
    <3>2. p \in Surjection(D, D)
      BY <2>3, Fun_IsSurj
    <3>3. p \in Injection(D, D)
      BY <3>1, <3>2, FS_Surjection
    <3> QED BY <3>3, Fun_InjectionProperties
  <2> HIDE DEF D, rank
  <2>6. DOMAIN o = D /\ \A i \in D : o[i] = seq[p[i]]
    BY <2>2
  <2>7. o \in Seq(Searchable) /\ Len(o) = Len(seq)
    <3>1. o \in [1 .. Len(seq) -> Searchable]
      BY <2>2, <2>3, <2>4
    <3> QED BY <2>4, <3>1
  <2>8. Members(o) = Members(seq)
    BY <2>3, <2>6 DEF Members, D
  <2>9. NoRepeats(seq) => NoRepeats(o)
    BY <2>3, <2>5, <2>6 DEF NoRepeats, D
  <2> QED BY Zenon, <1>2, <2>1, <2>7, <2>8, <2>9 DEF rank
<1> QED BY <1>1, <1>2

LEMMA DominatesIsStrict ==
    ASSUME NEW s \in Searchable, NEW t \in Searchable, NEW u \in Searchable
    PROVE  /\ ~Dominates(s, s)
           /\ Dominates(s, t) /\ Dominates(t, u) => Dominates(s, u)
<1> DEFINE N == Len(Objectives[s])
<1>1. /\ Objectives[s] \in Seq(Nat) /\ Objectives[t] \in Seq(Nat) /\ Objectives[u] \in Seq(Nat)
      /\ Len(Objectives[t]) = N /\ Len(Objectives[u]) = N
  BY GenerationAssumption
<1>2. /\ DOMAIN Objectives[s] = 1 .. N /\ DOMAIN Objectives[t] = 1 .. N
      /\ DOMAIN Objectives[u] = 1 .. N
      /\ \A k \in 1 .. N : /\ Objectives[s][k] \in Nat /\ Objectives[t][k] \in Nat
                          /\ Objectives[u][k] \in Nat
  <2> DEFINE a == Objectives[s]
             b == Objectives[t]
             c == Objectives[u]
  <2>1. /\ a \in Seq(Nat) /\ b \in Seq(Nat) /\ c \in Seq(Nat)
        /\ Len(a) = N /\ Len(b) = N /\ Len(c) = N
    BY <1>1
  <2> HIDE DEF N, a, b, c
  <2>2. /\ DOMAIN a = 1 .. N /\ DOMAIN b = 1 .. N /\ DOMAIN c = 1 .. N
        /\ \A k \in 1 .. N : a[k] \in Nat /\ b[k] \in Nat /\ c[k] \in Nat
    BY <2>1
  <2> QED BY Zenon, <2>2 DEF a, b, c
<1> HIDE DEF N
<1>3. ~Dominates(s, s)
  BY <1>2 DEF Dominates
<1>4. ASSUME Dominates(s, t), Dominates(t, u) PROVE Dominates(s, u)
  <2>1. ASSUME NEW k \in 1 .. N PROVE Objectives[s][k] >= Objectives[u][k]
    <3>1. Objectives[s][k] >= Objectives[t][k] /\ Objectives[t][k] >= Objectives[u][k]
      BY <1>2, <1>4 DEF Dominates
    <3> QED BY <1>2, <3>1
  <2>2. PICK k \in 1 .. N : Objectives[s][k] > Objectives[t][k]
    BY <1>2, <1>4 DEF Dominates
  <2>3. Objectives[s][k] > Objectives[u][k]
    <3>1. Objectives[t][k] >= Objectives[u][k]
      BY <1>2, <1>4 DEF Dominates
    <3> QED BY <1>2, <2>2, <3>1
  <2> QED BY <1>2, <2>1, <2>3 DEF Dominates
<1> QED BY <1>3, <1>4

LEMMA RankedIs ==
    ASSUME NEW S \in SUBSET Searchable, IsFiniteSet(S), NEW s \in S
    PROVE  /\ Ranked(S)[s] \in Nat
           /\ Ranked(S)[s] = 0 <=> \A t \in S : ~Dominates(t, s)
<1> DEFINE above == {t \in S : Dominates(t, s)}
           chains == {D \in SUBSET above : IsChain(D)}
           lengths == {Cardinality(C) : C \in chains}
<1>1. Ranked(S)[s] = Max(lengths)
  BY DEF Ranked
<1>2. IsFiniteSet(above)
  BY FS_Subset
<1>3. IsFiniteSet(chains)
  <2>1. IsFiniteSet(SUBSET above)
    BY <1>2, FS_SUBSET
  <2>2. chains \in SUBSET SUBSET above
    OBVIOUS
  <2> HIDE DEF above, chains
  <2> QED BY <2>1, <2>2, FS_Subset
<1>4. \A C \in chains : IsFiniteSet(C) /\ Cardinality(C) \in Nat
  <2> SUFFICES ASSUME NEW C \in chains PROVE IsFiniteSet(C) /\ Cardinality(C) \in Nat
    OBVIOUS
  <2>1. C \in SUBSET above
    OBVIOUS
  <2> HIDE DEF above
  <2> QED BY <1>2, <2>1, FS_Subset, FS_CardinalityType
<1>5. IsFiniteSet(lengths)
  <2> DEFINE f == [C \in chains |-> Cardinality(C)]
  <2>1. f \in [chains -> Nat]
    BY <1>4
  <2>2. lengths = {f[C] : C \in chains}
    OBVIOUS
  <2> HIDE DEF f, chains, lengths
  <2> QED BY <1>3, <2>1, <2>2, ValuesFinite
<1>6. {} \in chains /\ Cardinality({}) = 0
  BY FS_EmptySet DEF IsChain
<1>7. lengths \in SUBSET Int /\ lengths # {} /\ \A l \in lengths : l \in Nat
  BY <1>4, <1>6
<1>8. Max(lengths) \in lengths /\ \A l \in lengths : Max(lengths) >= l
  <2> HIDE DEF lengths
  <2> QED BY <1>5, <1>7, MaxIs
<1>9. ASSUME NEW t \in above PROVE 1 \in lengths
  <2>1. {t} \in chains /\ Cardinality({t}) = 1
    BY FS_Singleton DEF IsChain
  <2> QED BY <2>1
<1>10. ASSUME above = {} PROVE lengths = {0}
  <2>1. chains = {{}}
    BY <1>6, <1>10
  <2> QED BY <1>6, <2>1
<1> HIDE DEF lengths, chains
<1>11. Max(lengths) = 0 <=> above = {}
  BY <1>7, <1>8, <1>9, <1>10
<1> QED BY <1>1, <1>7, <1>8, <1>11

\* Some member at or above any other has none above it.
LEMMA SomeUndominated ==
    ASSUME NEW S \in SUBSET Searchable, IsFiniteSet(S), NEW s \in S
    PROVE  \E t \in S : (t = s \/ Dominates(t, s)) /\ \A u \in S : ~Dominates(u, t)
<1> DEFINE above(t) == {u \in S : Dominates(u, t)}
           up == {t \in S : t = s \/ Dominates(t, s)}
           counts == {Cardinality(above(t)) : t \in up}
<1>1. \A t : IsFiniteSet(above(t)) /\ Cardinality(above(t)) \in Nat
  <2> SUFFICES ASSUME NEW t PROVE IsFiniteSet(above(t)) /\ Cardinality(above(t)) \in Nat
    OBVIOUS
  <2>1. above(t) \in SUBSET S
    OBVIOUS
  <2> HIDE DEF above
  <2> QED BY <2>1, FS_Subset, FS_CardinalityType
<1>2. s \in up
  OBVIOUS
<1>3. PICK t \in up : \A v \in up : Cardinality(above(t)) <= Cardinality(above(v))
  <2> HIDE DEF up, above
  <2>1. counts \in SUBSET Nat /\ counts # {}
    BY <1>1, <1>2
  <2>2. PICK c \in counts : \A d \in counts : c <= d
    <3> HIDE DEF counts
    <3> QED BY <2>1, LeastOf
  <2> QED BY <2>2
<1>4. ASSUME NEW u \in S, Dominates(u, t) PROVE FALSE
  <2>1. u \in up
    BY <1>3, <1>4, DominatesIsStrict
  <2>2. above(u) \in SUBSET above(t) /\ u \in above(t) /\ u \notin above(u)
    BY <1>3, <1>4, DominatesIsStrict
  <2> DEFINE A == above(u)
             B == above(t)
  <2>3. A \in SUBSET B /\ A # B /\ IsFiniteSet(B) /\ Cardinality(A) \in Nat /\ Cardinality(B) \in Nat
    BY <1>1, <2>2
  <2>4. Cardinality(B) <= Cardinality(A)
    BY <1>3, <2>1
  <2> HIDE DEF A, B
  <2>5. Cardinality(A) <= Cardinality(B) /\ (Cardinality(B) = Cardinality(A) => B = A)
    BY <2>3, FS_Subset
  <2> QED BY <2>3, <2>4, <2>5
<1> QED BY <1>3, <1>4

-----------------------------------------------------------------------------
(* Selection *)

LEMMA TargetIs == TargetSize \in Nat \ {0}
<1> DEFINE n == (PopulationSize * SelectionPercent) \div 100
<1>1. n \in Nat
  <2> DEFINE p == PopulationSize * SelectionPercent
  <2>1. p \in Nat
    BY GenerationAssumption
  <2> HIDE DEF p
  <2>2. p \div 100 \in Nat
    BY <2>1
  <2> QED BY <2>2 DEF p
<1> HIDE DEF n
<1>2. IsFiniteSet({1, n})
  <2>1. IsFiniteSet({n}) /\ {1, n} = {n} \cup {1}
    BY FS_Singleton
  <2> QED BY <2>1, FS_AddElement
<1>3. Max({1, n}) \in {1, n} /\ Max({1, n}) >= 1
  <2>1. {1, n} \in SUBSET Int /\ {1, n} # {}
    BY <1>1
  <2> QED BY <1>2, <2>1, MaxIs
<1> QED BY <1>1, <1>3 DEF TargetSize, n

\* The target is met exactly by members, and a first front that fits survives.
LEMMA SelectedIs ==
    ASSUME Nsga2, NEW seq \in Seq(Searchable), seq # <<>>, NoRepeats(seq), NEW o \in Orders(seq)
    PROVE  LET front == {s \in Members(seq) : \A t \in Members(seq) : ~Dominates(t, s)}
           IN  /\ Selected(o) \in Seq(Searchable) /\ Len(Selected(o)) = TargetSize
               /\ Members(Selected(o)) \subseteq Members(seq)
               /\ Cardinality(front) <= TargetSize => front \subseteq Members(Selected(o))
<1> DEFINE S == Members(seq)
           front == {s \in S : \A t \in S : ~Dominates(t, s)}
           rank == Ranked(S)
           N == TargetSize
<1>1. /\ o \in Seq(Searchable) /\ Len(o) = Len(seq) /\ Members(o) = S /\ NoRepeats(o)
      /\ \A i, j \in DOMAIN o : i < j => rank[o[i]] <= rank[o[j]]
  BY OrdersAre
<1>2. S \in SUBSET Searchable /\ IsFiniteSet(S) /\ Len(seq) \in Nat /\ o # <<>>
  <2>1. S \subseteq Searchable /\ IsFiniteSet(S)
    BY EmptyIs, MembersFinite
  <2>2. Len(seq) \in Nat /\ Len(seq) # 0
    OBVIOUS
  <2>3. o # <<>>
    BY <1>1, <2>2
  <2> QED BY <2>1, <2>2, <2>3
<1>3. N \in Nat \ {0}
  BY TargetIs
<1>4. \A s \in S : rank[s] \in Nat /\ (rank[s] = 0 <=> s \in front)
  <2> SUFFICES ASSUME NEW s \in S PROVE rank[s] \in Nat /\ (rank[s] = 0 <=> s \in front)
    OBVIOUS
  <2> HIDE DEF S
  <2>1. rank[s] \in Nat /\ (rank[s] = 0 <=> \A t \in S : ~Dominates(t, s))
    BY <1>2, RankedIs
  <2> QED BY <2>1
<1>5. Selected(o) = IF Len(o) >= N THEN SubSeq(o, 1, N)
                    ELSE replicate_to_size(o, [i \in DOMAIN o |-> rank[o[i]]], N)
  BY <1>1 DEF Selected
<1> HIDE DEF S, N, rank, front
<1>6. Members(o) = {o[i] : i \in DOMAIN o} /\ DOMAIN o = 1 .. Len(o) /\ Len(o) \in Nat
  BY <1>1, <1>2 DEF Members
<1>7. CASE Len(o) >= N
  <2>1. Selected(o) = SubSeq(o, 1, N)
    BY <1>5, <1>7
  <2>2. /\ Selected(o) \in Seq(Searchable) /\ Len(Selected(o)) = N
        /\ Members(Selected(o)) = {o[i] : i \in 1 .. N}
    <3>1. N \in 0 .. Len(o)
      BY <1>3, <1>6, <1>7
    <3> QED BY <1>1, <2>1, <3>1, HeadIs
  <2>3. Members(Selected(o)) \subseteq S
    BY <1>1, <1>3, <1>6, <1>7, <2>2
  <2>4. ASSUME Cardinality(front) <= N, NEW s \in front PROVE s \in Members(Selected(o))
    <3>1. s \in S
      BY DEF front
    <3>2. PICK i \in DOMAIN o : o[i] = s
      BY <1>1, <1>6, <3>1
    <3>3. i \in Nat /\ i >= 1 /\ i <= Len(o)
      BY <1>6
    <3>4. ASSUME NEW j \in 1 .. i PROVE o[j] \in front
      <4>1. j \in DOMAIN o /\ o[j] \in S
        BY <1>1, <1>6, <3>3
      <4>2. rank[o[j]] \in Nat /\ rank[s] = 0
        BY <1>4, <3>1, <4>1
      <4>3. rank[o[j]] <= rank[s]
        <5>1. CASE j = i
          BY <3>2, <4>2, <5>1
        <5>2. CASE j # i
          <6>1. j < i
            BY <3>3, <5>2
          <6> QED BY <1>1, <3>2, <4>1, <6>1
        <5> QED BY <5>1, <5>2
      <4> QED BY <1>4, <4>1, <4>2, <4>3
    <3>5. i <= Cardinality(front)
      <4> DEFINE f == [j \in 1 .. i |-> o[j]]
      <4>1. f \in [1 .. i -> front]
        BY <3>4
      <4>2. \A a, b \in 1 .. i : f[a] = f[b] => a = b
        <5>1. \A a \in 1 .. i : a \in DOMAIN o /\ f[a] = o[a]
          BY <1>6, <3>3
        <5> HIDE DEF f
        <5> QED BY <1>1, <5>1 DEF NoRepeats
      <4> HIDE DEF f
      <4>3. f \in Injection(1 .. i, front)
        BY <4>1, <4>2, Fun_IsInj
      <4>4. IsFiniteSet(front)
        <5>1. front \in SUBSET S
          BY DEF front
        <5> QED BY <1>2, <5>1, FS_Subset
      <4>5. Cardinality(1 .. i) <= Cardinality(front)
        BY <4>3, <4>4, FS_Injection
      <4>6. Cardinality(1 .. i) = IF 1 > i THEN 0 ELSE i - 1 + 1
        <5>1. 1 \in Int /\ i \in Int
          BY <3>3
        <5> QED BY <5>1, FS_Interval
      <4>7. Cardinality(1 .. i) = i
        BY <3>3, <4>6
      <4> QED BY <4>5, <4>7
    <3>6. Cardinality(front) \in Nat
      <4>1. front \in SUBSET S
        BY DEF front
      <4> QED BY <1>2, <4>1, FS_Subset, FS_CardinalityType
    <3>7. i \in 1 .. N
      BY <1>3, <2>4, <3>3, <3>5, <3>6
    <3> QED BY <2>2, <3>2, <3>7
  <2> QED BY <2>2, <2>3, <2>4 DEF front, S, N
<1>8. CASE ~(Len(o) >= N)
  <2> DEFINE placed == [i \in DOMAIN o |-> rank[o[i]]]
             slots == replicate_to_size(o, placed, N)
  <2>1. Selected(o) = slots
    BY <1>5, <1>8
  <2>2. /\ placed \in Seq(Nat) /\ Len(placed) = Len(o) /\ placed # <<>>
        /\ DOMAIN placed = DOMAIN o /\ \A i \in DOMAIN placed : placed[i] = rank[o[i]]
    <3>1. \A i \in DOMAIN o : o[i] \in S
      BY <1>1, <1>6
    <3>2. placed \in [1 .. Len(o) -> Nat]
      BY <1>4, <1>6, <3>1
    <3>3. DOMAIN placed = DOMAIN o /\ \A i \in DOMAIN placed : placed[i] = rank[o[i]]
      OBVIOUS
    <3>4. Len(o) # 0
      BY <1>1, <1>2
    <3> HIDE DEF placed
    <3>5. placed \in Seq(Nat) /\ Len(placed) = Len(o)
      BY <1>6, <3>2
    <3> QED BY <3>3, <3>4, <3>5
  <2> HIDE DEF placed
  <2>3. /\ \A i, j \in DOMAIN placed : i < j => placed[i] <= placed[j]
        /\ N \in Nat /\ N >= Len(placed)
    BY <1>1, <1>3, <1>6, <1>8, <2>2
  <2>4. /\ slots \in Seq(Searchable) /\ Len(slots) = N
        /\ \E holder \in [1 .. N -> DOMAIN o] : Holding(holder, slots, o, Copies(placed, N))
    BY <1>1, <2>2, <2>3, ReplicateIs
  <2> HIDE DEF slots
  <2>5. PICK holder \in [1 .. N -> DOMAIN o] : Holding(holder, slots, o, Copies(placed, N))
    BY <2>4
  <2>6. DOMAIN slots = 1 .. N
    BY <1>3, <2>4
  <2>7. Members(slots) = Members(o)
    <3>1. \A k \in 1 .. N : slots[k] = o[holder[k]] /\ holder[k] \in DOMAIN o
      BY <2>5, <2>6 DEF Holding
    <3>2. \A i \in DOMAIN o : \E k \in 1 .. N : holder[k] = i
      BY <2>5, <2>6 DEF Holding
    <3> QED BY <2>6, <3>1, <3>2 DEF Members
  <2>8. front \subseteq S
    BY DEF front
  <2> QED BY <1>1, <2>1, <2>4, <2>7, <2>8 DEF front, S, N
<1> QED BY <1>7, <1>8

-----------------------------------------------------------------------------
(* The search loop *)

LEMMA SettingIs ==
    ASSUME search_setting \in SearchSettings
    PROVE  /\ Generations \in Nat /\ MaxIndividuals \in Nat
           /\ HasDeadline \in BOOLEAN /\ Nsga2 \in BOOLEAN
BY GenerationAssumption DEF Generations, MaxIndividuals, HasDeadline, Nsga2

LEMMA SizesAre ==
    ASSUME search_setting \in SearchSettings, Len(search_population) \in Nat
    PROVE  /\ top_n \in Nat /\ top_n <= TargetSize /\ top_n <= Len(search_population)
           /\ Len(search_population) # 0 => top_n # 0
           /\ elite_n \in 0 .. top_n /\ offspring_n \in 0 .. top_n
           /\ elite_n + offspring_n = top_n
<1>1. TargetSize \in Nat \ {0}
  BY TargetIs
<1>2. ElitismSize \in Nat
  <2> DEFINE p == PopulationSize * ElitismPercent
  <2>1. p \in Nat
    BY GenerationAssumption DEF ElitismPercent
  <2> HIDE DEF p
  <2>2. p \div 100 \in Nat
    BY <2>1
  <2> QED BY <2>2 DEF p, ElitismSize
<1> HIDE DEF TargetSize, ElitismSize
<1>3. /\ top_n \in Nat /\ top_n <= TargetSize /\ top_n <= Len(search_population)
      /\ Len(search_population) # 0 => top_n # 0
  BY <1>1 DEF top_n, Min2
<1>4. elite_n \in 0 .. top_n
  BY <1>2, <1>3 DEF elite_n, Min2
<1>5. offspring_n \in 0 .. top_n /\ elite_n + offspring_n = top_n
  BY <1>3, <1>4 DEF offspring_n
<1> QED BY <1>3, <1>4, <1>5

LEMMA SizesStay ==
    ASSUME UNCHANGED <<search_setting, search_population>>
    PROVE  /\ top_n' = top_n /\ elite_n' = elite_n /\ offspring_n' = offspring_n
           /\ Generations' = Generations /\ Nsga2' = Nsga2
BY DEF top_n, elite_n, offspring_n, Generations, Nsga2, ElitismSize, ElitismPercent

LEMMA BudgetStays ==
    ASSUME UNCHANGED budgetVars
    PROVE  /\ (active /\ exhausted)' = (active /\ exhausted)
           /\ reason("generations")' = reason("generations")
BY DEF budgetVars, active, exhausted, individuals_spent, reason, MaxIndividuals, HasDeadline

\* A spent budget stays spent, and for the same reason.
LEMMA BudgetGrows ==
    ASSUME UNCHANGED search_setting, search_setting \in SearchSettings,
           m_bred \in Nat, m_bred' \in Nat, m_bred' >= m_bred, past_deadline => past_deadline'
    PROVE  active /\ exhausted => (active /\ exhausted)'
<1>1. MaxIndividuals \in Nat
  BY SettingIs
<1>2. MaxIndividuals' = MaxIndividuals /\ HasDeadline' = HasDeadline
  BY DEF MaxIndividuals, HasDeadline
<1> HIDE DEF MaxIndividuals, HasDeadline
<1> QED BY <1>1, <1>2 DEF active, exhausted, individuals_spent

\* Where the budget is spent and nothing was left to breed from.
Spent == active /\ exhausted

Breeding == {"breed", "filter", "fallback", "elites", "pad", "score", "select"}

Running == Breeding \cup {"order", "accumulate"}

LoopTypeOK ==
    /\ GenerationTypeOK
    /\ stage \in Running \cup Over \cup {"head", "final", "report"}
    /\ stage \in Running => gen < Generations

\* There is always a population, of scored members and of the right size.
PopulationIsThere ==
    /\ search_population # <<>>
    /\ Members(search_population) \cup Members(search_scored) \subseteq fitness_cache
    /\ gen > 0 \/ stage = "accumulate" =>
         /\ Len(search_population) <= TargetSize
         /\ Nsga2 => Len(search_population) = TargetSize

\* While a generation is bred its parents are the population in order.
ParentsAreThePopulation ==
    stage \in Breeding =>
        /\ Len(sorted_parents) = Len(search_population)
        /\ Members(sorted_parents) = Members(search_population)
        /\ ~Nsga2 => \A k \in DOMAIN sorted_parents :
                        Fitness(sorted_parents[1]) >= Fitness(sorted_parents[k])

\* What each stage has left to work on.
CandidatesFit ==
    /\ stage \in {"breed", "filter", "fallback", "elites"} => Len(candidates) <= offspring_n
    /\ stage = "filter" => candidates = pre_filter
    /\ stage \in {"filter", "fallback"} =>
         /\ Len(pre_filter) <= offspring_n
         /\ pre_filter = <<>> => offspring_n = 0 \/ Spent
    /\ stage = "fallback" => Members(candidates) \subseteq Correct
    /\ stage = "elites" /\ candidates = <<>> => offspring_n = 0 \/ elite_n # 0 \/ Spent
    /\ stage = "pad" => /\ Len(candidates) <= top_n
                        /\ candidates = <<>> => elite_n = 0 /\ Spent
    /\ stage = "score" => candidates # <<>> /\ Len(candidates) <= TargetSize
    /\ stage = "select" => search_scored # <<>> /\ Len(search_scored) <= TargetSize
    /\ stage = "crashed" => elite_n = 0 /\ Spent

\* The best parent is among the candidates once the elites are back.
BestIsKept ==
    elite_n > 0 =>
        /\ stage \in {"pad", "score"} => sorted_parents[1] \in Members(candidates)
        /\ stage = "select" => sorted_parents[1] \in Members(search_scored)

\* What was found is accumulated, and comes out.
FoundIsAccumulated ==
    /\ found \subseteq Members(accumulated) /\ Members(accumulated) \subseteq Realizable
    /\ NothingFoundIsLost

\* The reason that ended the loop is still the one the budget gives.
EndIsExplained ==
    /\ stage \in {"final", "report", "ended"} =>
         ended_by = "generations" \/ ended_by = reason("generations")
    /\ stage = "ended" => stopped_by = reason("generations")

GenerationInv ==
    /\ LoopTypeOK /\ PopulationIsThere /\ ParentsAreThePopulation
    /\ CandidatesFit /\ BestIsKept /\ FoundIsAccumulated /\ EndIsExplained

LoopTypes ==
    /\ search_setting \in SearchSettings /\ gen \in 0 .. Generations
    /\ search_population \in Seq(Searchable) /\ sorted_parents \in Seq(Searchable)
    /\ candidates \in Seq(Searchable) /\ pre_filter \in Seq(Searchable)
    /\ search_scored \in Seq(Searchable)
    /\ accumulated \in Seq(Searchable) /\ output \in Seq(Searchable)
    /\ fitness_cache \subseteq Searchable /\ m_bred \in Nat
    /\ past_deadline \in BOOLEAN /\ found \subseteq Searchable
    /\ stage \in Running \cup Over \cup {"head", "final", "report"}
    /\ stage \in Running => gen < Generations

LEMMA TypesAre == LoopTypeOK <=> LoopTypes
BY DEF LoopTypeOK, LoopTypes, GenerationTypeOK, Populations

LEMMA TypesAreNext == LoopTypeOK' <=> LoopTypes'
BY TypesAre, PTL

LEMMA GenerationStarts == GenerationInit => GenerationInv
<1> SUFFICES ASSUME GenerationInit PROVE GenerationInv
  OBVIOUS
<1>1. /\ search_setting \in SearchSettings /\ stage = "head" /\ gen = 0
      /\ search_population = [i \in 1 .. PopulationSize |-> Start]
      /\ fitness_cache = {Start}
      /\ sorted_parents = <<>> /\ candidates = <<>> /\ pre_filter = <<>> /\ search_scored = <<>>
      /\ m_bred = 0 /\ past_deadline = FALSE
      /\ accumulated = <<>> /\ output = <<>> /\ stopped_by = "none" /\ ended_by = "none"
      /\ found = {}
  BY DEF GenerationInit
<1>2. Start \in Searchable /\ PopulationSize \in Nat \ {0}
  BY GenerationAssumption
<1>3. /\ search_population \in Seq(Searchable) /\ search_population # <<>>
      /\ Members(search_population) = {Start}
  <2>1. search_population \in [1 .. PopulationSize -> Searchable]
    BY <1>1, <1>2
  <2>2. search_population \in Seq(Searchable) /\ Len(search_population) = PopulationSize
    BY <1>2, <2>1
  <2>3. 1 \in DOMAIN search_population /\ DOMAIN search_population = 1 .. PopulationSize
    BY <1>2, <2>1
  <2>4. \A i \in DOMAIN search_population : search_population[i] = Start
    BY <1>1
  <2>5. Members(search_population) = {Start}
    BY <2>3, <2>4 DEF Members
  <2> QED BY <1>2, <2>2, <2>5
<1>4. Members(<<>>) = {}
  BY DEF Members
<1>5. LoopTypeOK
  <2>1. <<>> \in Seq(Searchable)
    OBVIOUS
  <2>2. Generations \in Nat
    BY <1>1, SettingIs
  <2>3. gen \in 0 .. Generations
    BY <1>1, <2>2
  <2>4. stage \in Running \cup Over \cup {"head", "final", "report"} /\ stage \notin Running
    BY <1>1 DEF Running, Breeding
  <2>5. fitness_cache \subseteq Searchable /\ found \subseteq Searchable /\ past_deadline \in BOOLEAN
    BY <1>1, <1>2
  <2>6. m_bred \in Nat
    BY <1>1
  <2> QED BY Zenon, <1>1, <1>3, <2>1, <2>3, <2>4, <2>5, <2>6, TypesAre DEF LoopTypes
<1>6. PopulationIsThere
  <2>1. Members(search_scored) = {}
    BY <1>1, <1>4
  <2>2. ~(gen > 0) /\ stage # "accumulate"
    BY <1>1
  <2> QED BY <1>1, <1>3, <2>1, <2>2 DEF PopulationIsThere
<1>7. ParentsAreThePopulation
  BY <1>1 DEF ParentsAreThePopulation, Breeding
<1>8. CandidatesFit
  BY <1>1 DEF CandidatesFit
<1>9. BestIsKept
  BY <1>1 DEF BestIsKept
<1>10. FoundIsAccumulated
  BY <1>1, <1>4 DEF FoundIsAccumulated, NothingFoundIsLost
<1>11. EndIsExplained
  BY <1>1 DEF EndIsExplained
<1> QED BY <1>5, <1>6, <1>7, <1>8, <1>9, <1>10, <1>11 DEF GenerationInv

\* What a step that leaves the population, the budget or the finds alone keeps.
LEMMA PopulationStays ==
    ASSUME PopulationIsThere, UNCHANGED <<scoredVars, gen, search_setting>>,
           stage # "accumulate", stage' # "accumulate"
    PROVE  PopulationIsThere'
BY DEF PopulationIsThere, scoredVars, Nsga2

LEMMA ParentsStay ==
    ASSUME ParentsAreThePopulation, stage \in Breeding,
           UNCHANGED <<search_population, sorted_parents, search_setting>>
    PROVE  ParentsAreThePopulation'
<1>1. Nsga2' = Nsga2
  BY DEF Nsga2
<1> QED BY <1>1 DEF ParentsAreThePopulation

LEMMA FoundStays ==
    ASSUME FoundIsAccumulated, UNCHANGED <<accumulated, found>>, stage' \notin {"report", "ended"}
    PROVE  FoundIsAccumulated'
BY DEF FoundIsAccumulated, NothingFoundIsLost

LEMMA EndIsAhead == stage' \notin {"final", "report", "ended"} => EndIsExplained'
BY DEF EndIsExplained

LEMMA NotBreeding ==
    ASSUME stage' \in {"head", "order", "accumulate", "final", "report", "ended", "threw"}
    PROVE  ParentsAreThePopulation' /\ CandidatesFit' /\ BestIsKept'
BY DEF ParentsAreThePopulation, CandidatesFit, BestIsKept, Breeding

LEMMA LoopHeadKeeps == GenerationInv /\ LoopHead => GenerationInv'
<1> SUFFICES ASSUME GenerationInv, LoopHead PROVE GenerationInv'
  OBVIOUS
<1>1. LoopTypes /\ PopulationIsThere /\ FoundIsAccumulated
  BY TypesAre DEF GenerationInv
<1>2. /\ stage = "head" /\ stage' \in {"final", "order"}
      /\ OutOfGenerations \/ Spent <=> stage' = "final"
      /\ ended_by' = IF OutOfGenerations THEN "generations"
                     ELSE IF Spent THEN reason("generations") ELSE ended_by
      /\ UNCHANGED <<gen, accumulated, output, stopped_by, found, breedVars, scoredVars, budgetVars>>
  BY DEF LoopHead, Spent
<1>3. LoopTypeOK'
  <2>1. Generations \in Nat /\ Generations' = Generations
    BY <1>1, <1>2, SettingIs DEF LoopTypes, budgetVars, Generations
  <2>2. stage' = "order" => gen' < Generations'
    BY <1>1, <1>2, <2>1 DEF OutOfGenerations, LoopTypes
  <2>3. LoopTypes'
    BY <1>1, <1>2, <2>1, <2>2 DEF LoopTypes, budgetVars, breedVars, scoredVars, Running, Breeding, Over
  <2> QED BY <2>3, TypesAreNext
<1>4. PopulationIsThere'
  BY <1>1, <1>2, PopulationStays DEF budgetVars
<1>5. ParentsAreThePopulation' /\ CandidatesFit' /\ BestIsKept'
  BY <1>2, NotBreeding
<1>6. FoundIsAccumulated'
  BY <1>1, <1>2, FoundStays
<1>7. EndIsExplained'
  <2>1. reason("generations")' = reason("generations")
    BY <1>2, BudgetStays
  <2> QED BY <1>2, <2>1 DEF EndIsExplained
<1> QED BY <1>3, <1>4, <1>5, <1>6, <1>7 DEF GenerationInv

LEMMA OrderParentsKeeps == GenerationInv /\ OrderParents => GenerationInv'
<1> SUFFICES ASSUME GenerationInv, OrderParents PROVE GenerationInv'
  OBVIOUS
<1>1. LoopTypes /\ PopulationIsThere /\ FoundIsAccumulated
  BY TypesAre DEF GenerationInv
<1>2. /\ stage = "order" /\ stage' = "breed" /\ candidates' = <<>>
      /\ sorted_parents' \in Orders(search_population)
      /\ UNCHANGED <<loopVars, pre_filter, scoredVars, budgetVars>>
  BY DEF OrderParents
<1>3. /\ sorted_parents' \in Seq(Searchable) /\ Len(sorted_parents') = Len(search_population)
      /\ Members(sorted_parents') = Members(search_population)
      /\ ~Nsga2 => \A k \in DOMAIN sorted_parents' :
                      Fitness(sorted_parents'[1]) >= Fitness(sorted_parents'[k])
  BY <1>1, <1>2, OrdersAre DEF LoopTypes
<1>4. LoopTypeOK'
  <2>1. Generations' = Generations
    BY <1>2 DEF budgetVars, Generations
  <2>2. <<>> \in Seq(Searchable)
    OBVIOUS
  <2>3. LoopTypes'
    BY <1>1, <1>2, <1>3, <2>1, <2>2 DEF LoopTypes, budgetVars, loopVars, scoredVars, Running, Breeding, Over
  <2> QED BY <2>3, TypesAreNext
<1>5. PopulationIsThere'
  BY <1>1, <1>2, PopulationStays DEF budgetVars, loopVars
<1>6. ParentsAreThePopulation'
  <2>1. Nsga2' = Nsga2 /\ search_population' = search_population
    BY <1>2 DEF budgetVars, Nsga2, scoredVars
  <2> QED BY <1>3, <2>1 DEF ParentsAreThePopulation
<1>7. CandidatesFit'
  <2>1. offspring_n' = offspring_n
    BY <1>2, SizesStay DEF budgetVars, scoredVars
  <2>2. offspring_n \in Nat
    <3>1. Len(search_population) \in Nat
      BY <1>1 DEF LoopTypes
    <3>2. top_n \in Nat /\ offspring_n \in 0 .. top_n
      BY <1>1, <3>1, SizesAre DEF LoopTypes
    <3> QED BY <3>2
  <2>3. Len(candidates') <= offspring_n'
    BY <1>2, <2>1, <2>2
  <2> QED BY <1>2, <2>3 DEF CandidatesFit
<1>8. BestIsKept' /\ EndIsExplained'
  BY <1>2, EndIsAhead DEF BestIsKept
<1>9. FoundIsAccumulated'
  BY <1>1, <1>2, FoundStays DEF loopVars
<1> QED BY <1>4, <1>5, <1>6, <1>7, <1>8, <1>9 DEF GenerationInv

\* The sizes of the generation in hand.
LEMMA SizesHold ==
    ASSUME LoopTypes, PopulationIsThere
    PROVE  /\ top_n \in Nat \ {0} /\ top_n <= TargetSize /\ top_n <= Len(search_population)
           /\ elite_n \in Nat /\ offspring_n \in Nat /\ elite_n + offspring_n = top_n
           /\ TargetSize \in Nat \ {0}
<1>1. search_setting \in SearchSettings /\ Len(search_population) \in Nat \ {0}
  BY DEF LoopTypes, PopulationIsThere
<1>2. /\ top_n \in Nat \ {0} /\ top_n <= TargetSize /\ top_n <= Len(search_population)
      /\ elite_n \in 0 .. top_n /\ offspring_n \in 0 .. top_n /\ elite_n + offspring_n = top_n
  BY <1>1, SizesAre
<1> HIDE DEF top_n, elite_n, offspring_n, TargetSize
<1> QED BY <1>2, TargetIs

LEMMA BreedSlotKeeps == GenerationInv /\ BreedSlot => GenerationInv'
<1> SUFFICES ASSUME GenerationInv, BreedSlot PROVE GenerationInv'
  OBVIOUS
<1>1. LoopTypes /\ PopulationIsThere /\ ParentsAreThePopulation /\ FoundIsAccumulated
  BY TypesAre DEF GenerationInv
<1>2. /\ stage = "breed" /\ stage' = "breed" /\ Len(candidates) < offspring_n
      /\ UNCHANGED <<stage, loopVars, sorted_parents, pre_filter, scoredVars, search_setting,
                     past_deadline>>
  BY DEF BreedSlot
<1>3. PICK o \in Offspring[Parent] \cup {Parent} :
         /\ candidates' = Append(candidates, o)
         /\ m_bred' = IF active /\ o # Parent THEN m_bred + 1 ELSE m_bred
  BY DEF BreedSlot
<1>4. /\ top_n \in Nat \ {0} /\ top_n <= Len(search_population)
      /\ elite_n \in Nat /\ offspring_n \in Nat /\ elite_n + offspring_n = top_n
  BY <1>1, SizesHold
<1>5. Parent \in Searchable
  <2>1. Len(sorted_parents) = Len(search_population) /\ sorted_parents \in Seq(Searchable)
    BY <1>1, <1>2 DEF ParentsAreThePopulation, LoopTypes, Breeding
  <2>2. Len(candidates) \in Nat
    BY <1>1 DEF LoopTypes
  <2>3. Len(candidates) + 1 \in 1 .. Len(sorted_parents)
    <3>1. Len(sorted_parents) \in Nat
      BY <2>1
    <3> QED BY <1>2, <1>4, <2>1, <2>2, <3>1
  <2> QED BY <2>1, <2>3 DEF Parent
<1>6. o \in Searchable
  BY <1>3, <1>5, GenerationAssumption
<1>7. candidates' \in Seq(Searchable) /\ Len(candidates') = Len(candidates) + 1
  BY <1>1, <1>3, <1>6 DEF LoopTypes
<1>8. LoopTypeOK'
  <2>1. Generations' = Generations
    BY <1>2 DEF Generations
  <2>2. m_bred' \in Nat
    BY <1>1, <1>3 DEF LoopTypes
  <2>3. LoopTypes'
    BY <1>1, <1>2, <1>7, <2>1, <2>2 DEF LoopTypes, loopVars, scoredVars
  <2> QED BY <2>3, TypesAreNext
<1>9. PopulationIsThere'
  BY <1>1, <1>2, PopulationStays DEF loopVars
<1>10. ParentsAreThePopulation'
  BY <1>1, <1>2, ParentsStay DEF Breeding, scoredVars
<1>11. CandidatesFit'
  <2>1. offspring_n' = offspring_n
    BY <1>2, SizesStay DEF scoredVars
  <2>2. Len(candidates') <= offspring_n'
    <3>1. Len(candidates) \in Nat
      BY <1>1 DEF LoopTypes
    <3> QED BY <1>2, <1>4, <1>7, <2>1, <3>1
  <2> QED BY <1>2, <2>2 DEF CandidatesFit
<1>12. BestIsKept' /\ EndIsExplained'
  BY <1>2, EndIsAhead DEF BestIsKept
<1>13. FoundIsAccumulated'
  BY <1>1, <1>2, FoundStays DEF loopVars
<1> QED BY <1>8, <1>9, <1>10, <1>11, <1>12, <1>13 DEF GenerationInv

LEMMA BreedEndsKeeps == GenerationInv /\ BreedEnds => GenerationInv'
<1> SUFFICES ASSUME GenerationInv, BreedEnds PROVE GenerationInv'
  OBVIOUS
<1>1. /\ LoopTypes /\ PopulationIsThere /\ ParentsAreThePopulation /\ CandidatesFit
      /\ FoundIsAccumulated
  BY TypesAre DEF GenerationInv
<1>2. /\ stage = "breed" /\ stage' = "filter" /\ pre_filter' = candidates
      /\ Len(candidates) = offspring_n \/ Spent
      /\ UNCHANGED <<loopVars, sorted_parents, candidates, scoredVars, budgetVars>>
  BY DEF BreedEnds, BreedingStops, Spent
<1>3. LoopTypeOK'
  <2>1. Generations' = Generations
    BY <1>2 DEF Generations, budgetVars
  <2>2. LoopTypes'
    BY <1>1, <1>2, <2>1 DEF LoopTypes, loopVars, scoredVars, budgetVars, Running, Breeding
  <2> QED BY <2>2, TypesAreNext
<1>4. PopulationIsThere'
  BY <1>1, <1>2, PopulationStays DEF loopVars, budgetVars
<1>5. ParentsAreThePopulation'
  BY <1>1, <1>2, ParentsStay DEF Breeding, scoredVars, budgetVars
<1>6. CandidatesFit'
  <2>1. offspring_n' = offspring_n
    BY <1>2, SizesStay DEF scoredVars, budgetVars
  <2>2. Spent' <=> Spent
    BY <1>2, BudgetStays DEF Spent
  <2>3. Len(candidates) <= offspring_n
    BY <1>1, <1>2 DEF CandidatesFit
  <2>4. candidates = <<>> => Len(candidates) = 0
    OBVIOUS
  <2>5. pre_filter' = <<>> => offspring_n' = 0 \/ Spent'
    BY <1>2, <2>1, <2>2, <2>4
  <2> QED BY <1>2, <2>1, <2>3, <2>5 DEF CandidatesFit
<1>7. BestIsKept' /\ EndIsExplained'
  BY <1>2, EndIsAhead DEF BestIsKept
<1>8. FoundIsAccumulated'
  BY <1>1, <1>2, FoundStays DEF loopVars
<1> QED BY <1>3, <1>4, <1>5, <1>6, <1>7, <1>8 DEF GenerationInv

LEMMA FilterKeeps == GenerationInv /\ Filter => GenerationInv'
<1> SUFFICES ASSUME GenerationInv, Filter PROVE GenerationInv'
  OBVIOUS
<1>1. /\ LoopTypes /\ PopulationIsThere /\ ParentsAreThePopulation /\ CandidatesFit
      /\ FoundIsAccumulated
  BY TypesAre DEF GenerationInv
<1>2. /\ stage = "filter" /\ stage' = "fallback"
      /\ candidates' = Keep(Dedup(candidates), (Correct \ Bloated) \ Doomed)
      /\ UNCHANGED <<loopVars, sorted_parents, pre_filter, scoredVars, budgetVars>>
  BY DEF Filter
<1>3. /\ candidates' \in Seq(Searchable) /\ Len(candidates') <= Len(candidates)
      /\ Members(candidates') \subseteq Correct
  <2> DEFINE once == Dedup(candidates)
             good == (Correct \ Bloated) \ Doomed
  <2>1. candidates \in Seq(Searchable)
    BY <1>1 DEF LoopTypes
  <2>2. once \in Seq(Searchable) /\ Len(once) <= Len(candidates)
    BY <2>1, DedupIs
  <2> HIDE DEF once, good
  <2>3. /\ Keep(once, good) \in Seq(Searchable) /\ Len(Keep(once, good)) <= Len(once)
        /\ Members(Keep(once, good)) = Members(once) \cap good
    BY <2>2, KeepIs
  <2>4. candidates' = Keep(once, good)
    BY <1>2 DEF once, good
  <2>5. good \subseteq Correct
    BY DEF good
  <2>6. Len(candidates) \in Nat /\ Len(once) \in Nat /\ Len(Keep(once, good)) \in Nat
    BY <2>1, <2>2, <2>3
  <2> QED BY <2>2, <2>3, <2>4, <2>5, <2>6
<1>4. LoopTypeOK'
  <2>1. Generations' = Generations
    BY <1>2 DEF Generations, budgetVars
  <2>2. LoopTypes'
    BY <1>1, <1>2, <1>3, <2>1 DEF LoopTypes, loopVars, scoredVars, budgetVars, Running, Breeding
  <2> QED BY <2>2, TypesAreNext
<1>5. PopulationIsThere'
  BY <1>1, <1>2, PopulationStays DEF loopVars, budgetVars
<1>6. ParentsAreThePopulation'
  BY <1>1, <1>2, ParentsStay DEF Breeding, scoredVars, budgetVars
<1>7. CandidatesFit'
  <2>1. offspring_n' = offspring_n /\ offspring_n \in Nat
    BY <1>1, <1>2, SizesStay, SizesHold DEF scoredVars, budgetVars
  <2>2. Spent' <=> Spent
    BY <1>2, BudgetStays DEF Spent
  <2>3. /\ Len(candidates) <= offspring_n /\ Len(pre_filter) <= offspring_n
        /\ pre_filter = <<>> => offspring_n = 0 \/ Spent
    BY <1>1, <1>2 DEF CandidatesFit
  <2>4. Len(candidates') <= offspring_n'
    <3>1. Len(candidates) \in Nat /\ Len(candidates') \in Nat
      BY <1>1, <1>3 DEF LoopTypes
    <3> QED BY <1>3, <2>1, <2>3, <3>1
  <2>5. pre_filter' = pre_filter
    BY <1>2
  <2> QED BY <1>2, <1>3, <2>1, <2>2, <2>3, <2>4, <2>5 DEF CandidatesFit
<1>8. BestIsKept' /\ EndIsExplained'
  BY <1>2, EndIsAhead DEF BestIsKept
<1>9. FoundIsAccumulated'
  BY <1>1, <1>2, FoundStays DEF loopVars
<1> QED BY <1>4, <1>5, <1>6, <1>7, <1>8, <1>9 DEF GenerationInv

\* What the rescue lets back: correct ones.
LEMMA RescuedIs ==
    ASSUME LoopTypes
    PROVE  /\ Rescued \in Seq(Searchable) /\ Len(Rescued) <= Len(pre_filter)
           /\ Members(Rescued) = Members(pre_filter) \cap Correct
BY KeepIs DEF LoopTypes, Rescued

LEMMA FilterFallbackKeeps == GenerationInv /\ FilterFallback => GenerationInv'
<1> SUFFICES ASSUME GenerationInv, FilterFallback PROVE GenerationInv'
  OBVIOUS
<1>1. /\ LoopTypes /\ PopulationIsThere /\ ParentsAreThePopulation /\ CandidatesFit
      /\ FoundIsAccumulated
  BY TypesAre DEF GenerationInv
<1>2. /\ stage = "fallback" /\ stage' = "elites" /\ pre_filter' = <<>>
      /\ candidates' = IF candidates # <<>> THEN candidates
                       ELSE IF Rescued # <<>> THEN Rescued
                       ELSE IF RestoresUnscreened THEN pre_filter ELSE <<>>
      /\ UNCHANGED <<loopVars, sorted_parents, scoredVars, budgetVars>>
  BY DEF FilterFallback
<1>3. /\ Rescued \in Seq(Searchable) /\ Len(Rescued) <= Len(pre_filter)
      /\ candidates \in Seq(Searchable) /\ pre_filter \in Seq(Searchable)
      /\ <<>> \in Seq(Searchable)
  BY <1>1, RescuedIs DEF LoopTypes
<1>4. /\ offspring_n \in Nat /\ Len(candidates) <= offspring_n /\ Len(pre_filter) <= offspring_n
      /\ pre_filter = <<>> => offspring_n = 0 \/ Spent
  BY <1>1, <1>2, SizesHold DEF CandidatesFit
<1>5. /\ candidates' \in Seq(Searchable) /\ Len(candidates') <= offspring_n
      /\ candidates' = <<>> => elite_n # 0 \/ pre_filter = <<>>
  <2>1. /\ Len(Rescued) \in Nat /\ Len(candidates) \in Nat /\ Len(pre_filter) \in Nat
        /\ Len(<<>>) = 0
    BY <1>3
  <2>2. CASE candidates # <<>>
    BY <1>2, <1>3, <1>4, <2>2
  <2>3. CASE candidates = <<>> /\ Rescued # <<>>
    BY <1>2, <1>3, <1>4, <2>1, <2>3
  <2>4. CASE candidates = <<>> /\ Rescued = <<>> /\ RestoresUnscreened
    BY <1>2, <1>3, <1>4, <2>4
  <2>5. CASE candidates = <<>> /\ Rescued = <<>> /\ ~RestoresUnscreened
    BY <1>2, <1>3, <1>4, <2>1, <2>5 DEF RestoresUnscreened
  <2> QED BY <2>2, <2>3, <2>4, <2>5
<1>6. LoopTypeOK'
  <2>1. Generations' = Generations
    BY <1>2 DEF Generations, budgetVars
  <2>2. pre_filter' \in Seq(Searchable) /\ stage' \in Running /\ stage \in Running
    BY <1>2, <1>3 DEF Running, Breeding
  <2>3. LoopTypes'
    BY <1>1, <1>2, <1>5, <2>1, <2>2 DEF LoopTypes, loopVars, scoredVars, budgetVars
  <2> QED BY <2>3, TypesAreNext
<1>7. PopulationIsThere'
  BY <1>1, <1>2, PopulationStays DEF loopVars, budgetVars
<1>8. ParentsAreThePopulation'
  BY <1>1, <1>2, ParentsStay DEF Breeding, scoredVars, budgetVars
<1>9. CandidatesFit'
  <2>1. offspring_n' = offspring_n /\ elite_n' = elite_n
    BY <1>2, SizesStay DEF scoredVars, budgetVars
  <2>2. Spent' <=> Spent
    BY <1>2, BudgetStays DEF Spent
  <2> QED BY <1>2, <1>4, <1>5, <2>1, <2>2 DEF CandidatesFit
<1>10. BestIsKept' /\ EndIsExplained'
  BY <1>2, EndIsAhead DEF BestIsKept
<1>11. FoundIsAccumulated'
  BY <1>1, <1>2, FoundStays DEF loopVars
<1> QED BY <1>6, <1>7, <1>8, <1>9, <1>10, <1>11 DEF GenerationInv

LEMMA RestoreElitesKeeps == GenerationInv /\ RestoreElites => GenerationInv'
<1> SUFFICES ASSUME GenerationInv, RestoreElites PROVE GenerationInv'
  OBVIOUS
<1>1. /\ LoopTypes /\ PopulationIsThere /\ ParentsAreThePopulation /\ CandidatesFit
      /\ FoundIsAccumulated
  BY TypesAre DEF GenerationInv
<1>2. /\ stage = "elites" /\ stage' = "pad" /\ candidates' = candidates \o Elites
      /\ UNCHANGED <<loopVars, sorted_parents, pre_filter, scoredVars, budgetVars>>
  BY DEF RestoreElites
<1>3. /\ top_n \in Nat \ {0} /\ top_n <= Len(search_population)
      /\ elite_n \in Nat /\ offspring_n \in Nat /\ elite_n + offspring_n = top_n
  BY <1>1, SizesHold
<1>4. /\ candidates \in Seq(Searchable) /\ sorted_parents \in Seq(Searchable)
      /\ Len(sorted_parents) = Len(search_population) /\ Len(search_population) \in Nat
      /\ Len(candidates) <= offspring_n /\ Len(candidates) \in Nat
      /\ candidates = <<>> => offspring_n = 0 \/ elite_n # 0 \/ Spent
  BY <1>1, <1>2 DEF LoopTypes, ParentsAreThePopulation, CandidatesFit, Breeding
<1>5. /\ Elites \in Seq(Searchable) /\ Len(Elites) = elite_n
      /\ Members(Elites) = {sorted_parents[i] : i \in 1 .. elite_n}
  <2>1. elite_n \in 0 .. Len(sorted_parents)
    BY <1>3, <1>4
  <2> HIDE DEF elite_n
  <2> QED BY <1>4, <2>1, HeadIs DEF Elites
<1>6. /\ candidates' \in Seq(Searchable) /\ Len(candidates') = Len(candidates) + elite_n
      /\ Members(candidates') = Members(candidates) \cup Members(Elites)
  <2> DEFINE joined == candidates \o Elites
  <2> HIDE DEF Elites
  <2>1. /\ joined \in Seq(Searchable) /\ Len(joined) = Len(candidates) + Len(Elites)
        /\ Members(joined) = Members(candidates) \cup Members(Elites)
    BY <1>4, <1>5, JoinIs
  <2>2. candidates' = joined
    BY <1>2
  <2> HIDE DEF joined
  <2>3. Len(joined) = Len(candidates) + elite_n
    BY Zenon, <1>5, <2>1
  <2> QED BY Zenon, <2>1, <2>2, <2>3
<1>7. LoopTypeOK'
  <2>1. Generations' = Generations
    BY <1>2 DEF Generations, budgetVars
  <2>2. stage' \in Running /\ stage \in Running
    BY <1>2 DEF Running, Breeding
  <2>3. LoopTypes'
    BY <1>1, <1>2, <1>6, <2>1, <2>2 DEF LoopTypes, loopVars, scoredVars, budgetVars
  <2> QED BY <2>3, TypesAreNext
<1>8. PopulationIsThere'
  BY <1>1, <1>2, PopulationStays DEF loopVars, budgetVars
<1>9. ParentsAreThePopulation'
  BY <1>1, <1>2, ParentsStay DEF Breeding, scoredVars, budgetVars
<1>10. CandidatesFit'
  <2>1. offspring_n' = offspring_n /\ elite_n' = elite_n /\ top_n' = top_n
    BY <1>2, SizesStay DEF scoredVars, budgetVars
  <2>2. Spent' <=> Spent
    BY <1>2, BudgetStays DEF Spent
  <2>3. Len(candidates') <= top_n
    BY <1>3, <1>4, <1>6
  <2>4. ASSUME candidates' = <<>> PROVE elite_n = 0 /\ Spent
    <3>1. Len(candidates') = 0
      BY <2>4
    <3>2. Len(candidates) = 0 /\ elite_n = 0 /\ offspring_n # 0
      <4> DEFINE n == Len(candidates)
      <4>1. n \in Nat /\ n + elite_n = 0
        BY Zenon, <1>4, <1>6, <3>1
      <4> HIDE DEF n
      <4>2. n = 0 /\ elite_n = 0 /\ offspring_n # 0
        BY <1>3, <4>1
      <4> QED BY <4>2 DEF n
    <3>3. candidates = <<>>
      BY <1>4, <3>2
    <3> QED BY <1>4, <3>2, <3>3
  <2> QED BY <1>2, <2>1, <2>2, <2>3, <2>4 DEF CandidatesFit
<1>11. BestIsKept'
  <2>1. elite_n' = elite_n /\ sorted_parents' = sorted_parents
    BY <1>2, SizesStay DEF scoredVars, budgetVars
  <2>2. elite_n > 0 => sorted_parents[1] \in Members(candidates')
    BY <1>3, <1>5, <1>6
  <2> QED BY <1>2, <2>1, <2>2 DEF BestIsKept
<1>12. FoundIsAccumulated' /\ EndIsExplained'
  BY <1>1, <1>2, FoundStays, EndIsAhead DEF loopVars
<1> QED BY <1>7, <1>8, <1>9, <1>10, <1>11, <1>12 DEF GenerationInv

LEMMA PadKeeps == GenerationInv /\ Pad => GenerationInv'
<1> SUFFICES ASSUME GenerationInv, Pad PROVE GenerationInv'
  OBVIOUS
<1>1. /\ LoopTypes /\ PopulationIsThere /\ ParentsAreThePopulation /\ CandidatesFit
      /\ BestIsKept /\ FoundIsAccumulated
  BY TypesAre DEF GenerationInv
<1>2. /\ stage = "pad"
      /\ UNCHANGED <<loopVars, sorted_parents, pre_filter, scoredVars, budgetVars>>
      /\ candidates = <<>> => stage' = "crashed" /\ UNCHANGED candidates
      /\ candidates # <<>> =>
           /\ stage' = "score"
           /\ candidates' = [i \in 1 .. Max({Len(candidates), TargetSize}) |->
                               candidates[((i - 1) % Len(candidates)) + 1]]
  BY DEF Pad
<1>3. /\ TargetSize \in Nat \ {0} /\ Len(candidates) <= TargetSize
      /\ candidates \in Seq(Searchable) /\ Len(candidates) \in Nat
      /\ candidates = <<>> => elite_n = 0 /\ Spent
  <2>1. top_n \in Nat /\ top_n <= TargetSize /\ TargetSize \in Nat \ {0}
    BY <1>1, SizesHold
  <2>2. /\ Len(candidates) <= top_n /\ candidates \in Seq(Searchable)
        /\ candidates = <<>> => elite_n = 0 /\ Spent
    BY <1>1, <1>2 DEF CandidatesFit, LoopTypes
  <2>3. Len(candidates) \in Nat
    BY <2>2
  <2> QED BY <2>1, <2>2, <2>3
<1>4. ASSUME candidates # <<>>
      PROVE  /\ candidates' \in Seq(Searchable) /\ Len(candidates') = TargetSize
             /\ Members(candidates) \subseteq Members(candidates')
  <2> DEFINE n == Len(candidates)
             m == TargetSize
  <2>1. n \in Nat \ {0} /\ m \in Nat \ {0} /\ n <= m /\ candidates \in [1 .. n -> Searchable]
    BY <1>3, <1>4
  <2>2. candidates' = [i \in 1 .. Max({n, m}) |-> candidates[((i - 1) % n) + 1]]
    BY <1>2, <1>4
  <2>3. DOMAIN candidates = 1 .. n
    BY <1>3
  <2> HIDE DEF n, m
  <2>4. Max({n, m}) = m
    <3>1. {n, m} \in SUBSET Int /\ {n, m} # {}
      BY <2>1
    <3>2. IsFiniteSet({n, m})
      <4>1. IsFiniteSet({n}) /\ {n, m} = {n} \cup {m}
        BY FS_Singleton
      <4> QED BY <4>1, FS_AddElement
    <3>3. Max({n, m}) \in {n, m} /\ Max({n, m}) >= m
      BY <3>1, <3>2, MaxIs
    <3> QED BY <2>1, <3>3
  <2>5. \A i \in 1 .. m : ((i - 1) % n) + 1 \in 1 .. n
    BY <2>1
  <2>6. candidates' \in [1 .. m -> Searchable] /\ DOMAIN candidates' = 1 .. m
    BY <2>1, <2>2, <2>4, <2>5
  <2>7. ASSUME NEW i \in 1 .. n PROVE i \in 1 .. m /\ candidates'[i] = candidates[i]
    <3>1. i \in 1 .. m
      BY <2>1
    <3>2. \A a \in Nat : a < n => a % n = a
      BY <2>1
    <3> DEFINE a == i - 1
    <3>3. a \in Nat /\ a < n /\ a + 1 = i
      BY <2>1
    <3>4. candidates'[i] = candidates[(a % n) + 1]
      BY <2>2, <2>4, <3>1
    <3> HIDE DEF a
    <3> QED BY <3>1, <3>2, <3>3, <3>4
  <2>8. Members(candidates) \subseteq Members(candidates')
    BY <2>3, <2>6, <2>7 DEF Members
  <2>9. candidates' \in Seq(Searchable) /\ Len(candidates') = m
    BY <2>1, <2>6
  <2> QED BY <2>8, <2>9 DEF m
<1>5. LoopTypeOK'
  <2>1. Generations' = Generations
    BY <1>2 DEF Generations, budgetVars
  <2>2. candidates' \in Seq(Searchable)
    BY <1>2, <1>3, <1>4
  <2>3. stage' \in {"crashed", "score"}
    BY <1>2
  <2>4. /\ stage' \in Running \cup Over \cup {"head", "final", "report"}
        /\ stage' \in Running => gen < Generations
    BY <1>1, <1>2, <2>3 DEF LoopTypes, Running, Breeding, Over
  <2>5. LoopTypes'
    BY <1>1, <1>2, <2>1, <2>2, <2>4 DEF LoopTypes, loopVars, scoredVars, budgetVars
  <2> QED BY <2>5, TypesAreNext
<1>6. stage' \in {"crashed", "score"} /\ (stage' = "crashed" <=> candidates = <<>>)
  BY <1>2
<1>7. PopulationIsThere'
  BY <1>1, <1>2, <1>6, PopulationStays DEF loopVars, budgetVars
<1>8. ParentsAreThePopulation'
  BY <1>1, <1>2, ParentsStay DEF Breeding, scoredVars, budgetVars
<1>9. CandidatesFit'
  <2>1. elite_n' = elite_n
    BY <1>2, SizesStay DEF scoredVars, budgetVars
  <2>2. Spent' <=> Spent
    BY <1>2, BudgetStays DEF Spent
  <2>3. stage' = "crashed" => elite_n' = 0 /\ Spent'
    BY <1>3, <1>6, <2>1, <2>2
  <2>4. stage' = "score" => candidates' # <<>> /\ Len(candidates') <= TargetSize
    <3>1. candidates # <<>> => Len(candidates') # 0 /\ Len(candidates') <= TargetSize
      BY <1>3, <1>4
    <3>2. Len(<<>>) = 0
      OBVIOUS
    <3> QED BY <1>6, <3>1, <3>2
  <2> QED BY <1>6, <2>3, <2>4 DEF CandidatesFit
<1>10. BestIsKept'
  <2>1. elite_n' = elite_n /\ sorted_parents' = sorted_parents
    BY <1>2, SizesStay DEF scoredVars, budgetVars
  <2>2. elite_n > 0 => sorted_parents[1] \in Members(candidates)
    BY <1>1, <1>2 DEF BestIsKept
  <2> QED BY <1>4, <1>6, <2>1, <2>2 DEF BestIsKept
<1>11. FoundIsAccumulated' /\ EndIsExplained'
  BY <1>1, <1>2, <1>6, FoundStays, EndIsAhead DEF loopVars
<1> QED BY <1>5, <1>7, <1>8, <1>9, <1>10, <1>11 DEF GenerationInv

LEMMA ScoreKeeps == GenerationInv /\ Score => GenerationInv'
<1> SUFFICES ASSUME GenerationInv, Score PROVE GenerationInv'
  OBVIOUS
<1>1. /\ LoopTypes /\ PopulationIsThere /\ ParentsAreThePopulation /\ CandidatesFit
      /\ BestIsKept /\ FoundIsAccumulated
  BY TypesAre DEF GenerationInv
<1>2. PICK dropped \in SUBSET ((Members(candidates) \cap MayFailToScore) \ fitness_cache) :
         LET ok == Keep(candidates, Searchable \ dropped)
         IN  /\ fitness_cache' = fitness_cache \cup Members(ok)
             /\ IF Len(candidates) - Len(ok) > Tolerated(Len(candidates))
                  THEN stage' = "threw" /\ search_scored' = <<>>
                  ELSE stage' = "select" /\ search_scored' = ok
  BY DEF Score
<1>3. /\ stage = "score" /\ candidates' = <<>>
      /\ UNCHANGED <<loopVars, sorted_parents, pre_filter, search_population, budgetVars>>
  BY DEF Score
<1> DEFINE ok == Keep(candidates, Searchable \ dropped)
<1>4. /\ fitness_cache' = fitness_cache \cup Members(ok)
      /\ \/ stage' = "threw" /\ search_scored' = <<>>
         \/ /\ stage' = "select" /\ search_scored' = ok
            /\ ~(Len(candidates) - Len(ok) > Tolerated(Len(candidates)))
  BY <1>2
<1>5. /\ candidates \in Seq(Searchable) /\ candidates # <<>> /\ Len(candidates) <= TargetSize
      /\ TargetSize \in Nat
  BY <1>1, <1>3, SizesHold DEF LoopTypes, CandidatesFit
<1>6. /\ ok \in Seq(Searchable) /\ Len(ok) <= Len(candidates)
      /\ Members(ok) = Members(candidates) \cap (Searchable \ dropped)
  BY <1>5, KeepIs
<1> HIDE DEF ok
<1>7. Members(ok) \subseteq Searchable /\ <<>> \in Seq(Searchable) /\ Members(<<>>) = {}
  BY <1>6 DEF Members
<1>8. LoopTypeOK'
  <2>1. Generations' = Generations
    BY <1>3 DEF Generations, budgetVars
  <2>2. search_scored' \in Seq(Searchable) /\ fitness_cache' \subseteq Searchable
    BY <1>1, <1>4, <1>6, <1>7 DEF LoopTypes
  <2>3. stage' \in {"threw", "select"}
    BY <1>4
  <2>4. /\ stage' \in Running \cup Over \cup {"head", "final", "report"}
        /\ stage' \in Running => gen < Generations
    BY <1>1, <1>3, <2>3 DEF LoopTypes, Running, Breeding, Over
  <2>5. LoopTypes'
    BY <1>1, <1>3, <1>7, <2>1, <2>2, <2>4 DEF LoopTypes, loopVars, budgetVars
  <2> QED BY <2>5, TypesAreNext
<1>9. PopulationIsThere'
  <2>1. Members(search_population) \subseteq fitness_cache
    BY <1>1 DEF PopulationIsThere
  <2>2. Members(search_scored') \subseteq fitness_cache'
    BY <1>4, <1>7
  <2>3. /\ search_population' = search_population /\ gen' = gen /\ Nsga2' = Nsga2
        /\ stage # "accumulate" /\ stage' # "accumulate" /\ fitness_cache \subseteq fitness_cache'
    BY <1>3, <1>4 DEF loopVars, budgetVars, Nsga2
  <2> QED BY <1>1, <2>1, <2>2, <2>3 DEF PopulationIsThere
<1>10. ParentsAreThePopulation'
  BY <1>1, <1>3, ParentsStay DEF Breeding, budgetVars
<1>11. CandidatesFit'
  <2>1. ASSUME stage' = "select" PROVE search_scored' # <<>> /\ Len(search_scored') <= TargetSize
    <3> DEFINE n == Len(candidates)
               k == Len(ok)
    <3>1. search_scored' = ok /\ ~(n - k > Tolerated(n))
      BY <1>4, <2>1
    <3>2. n \in Nat \ {0} /\ k \in Nat /\ k <= n /\ n <= TargetSize
      BY <1>5, <1>6
    <3> HIDE DEF n, k
    <3>3. Tolerated(n) \in Int /\ Tolerated(n) <= n - 1
      <4> DEFINE p == (SearchFailurePercent * n) \div 100
      <4>1. p \in Nat
        <5> DEFINE q == SearchFailurePercent * n
        <5>1. q \in Nat
          BY <3>2, GenerationAssumption
        <5> HIDE DEF q
        <5>2. q \div 100 \in Nat
          BY <5>1
        <5> QED BY <5>2 DEF q
      <4> HIDE DEF p
      <4>2. Max({1, p}) \in Int
        <5>1. {1, p} \in SUBSET Int /\ {1, p} # {}
          BY <4>1
        <5>2. IsFiniteSet({1, p})
          <6>1. IsFiniteSet({p}) /\ {1, p} = {p} \cup {1}
            BY FS_Singleton
          <6> QED BY <6>1, FS_AddElement
        <5>3. Max({1, p}) \in {1, p}
          BY <5>1, <5>2, MaxIs
        <5> QED BY <5>1, <5>3
      <4>3. Tolerated(n) = Min2(n - 1, Max({1, p}))
        BY DEF Tolerated, p
      <4> QED BY <3>2, <4>2, <4>3 DEF Min2
    <3>4. k >= 1 /\ k <= TargetSize
      BY <1>5, <3>1, <3>2, <3>3
    <3>5. ok # <<>>
      BY <3>4 DEF k
    <3> QED BY <3>1, <3>4, <3>5 DEF k
  <2>2. stage' \in {"threw", "select"}
    BY <1>4
  <2> QED BY <2>1, <2>2 DEF CandidatesFit
<1>12. BestIsKept'
  <2>1. elite_n' = elite_n /\ sorted_parents' = sorted_parents
    BY <1>3, SizesStay DEF budgetVars
  <2>2. ASSUME elite_n > 0, stage' = "select"
        PROVE  sorted_parents[1] \in Members(search_scored')
    <3>1. sorted_parents[1] \in Members(candidates)
      BY <1>1, <1>3, <2>2 DEF BestIsKept
    <3>2. sorted_parents[1] \in fitness_cache
      <4>1. sorted_parents \in Seq(Searchable) /\ Len(sorted_parents) = Len(search_population)
            /\ search_population # <<>> /\ search_population \in Seq(Searchable)
            /\ Members(sorted_parents) = Members(search_population)
            /\ Members(search_population) \subseteq fitness_cache
        BY <1>1, <1>3 DEF LoopTypes, ParentsAreThePopulation, PopulationIsThere, Breeding
      <4>2. 1 \in DOMAIN sorted_parents
        BY <4>1
      <4> QED BY <4>1, <4>2 DEF Members
    <3>3. sorted_parents[1] \in Members(ok)
      <4>1. sorted_parents[1] \in Searchable
        BY <1>5, <3>1, EmptyIs
      <4> QED BY <1>2, <1>6, <3>1, <3>2, <4>1
    <3> QED BY <1>4, <2>2, <3>3
  <2>3. stage' \in {"threw", "select"}
    BY <1>4
  <2> QED BY <2>1, <2>2, <2>3 DEF BestIsKept
<1>13. FoundIsAccumulated' /\ EndIsExplained'
  <2>1. stage' \notin {"final", "report", "ended"}
    BY <1>4
  <2> QED BY <1>1, <1>3, <2>1, FoundStays, EndIsAhead DEF loopVars
<1> QED BY <1>8, <1>9, <1>10, <1>11, <1>12, <1>13 DEF GenerationInv

\* The pool is what there was and what was scored, each once.
LEMMA PoolIs ==
    ASSUME LoopTypes, PopulationIsThere
    PROVE  /\ Pool \in Seq(Searchable) /\ Pool # <<>> /\ NoRepeats(Pool)
           /\ Members(Pool) = Members(search_population) \cup Members(search_scored)
<1> DEFINE both == search_population \o search_scored
<1>1. /\ search_population \in Seq(Searchable) /\ search_scored \in Seq(Searchable)
      /\ search_population # <<>>
  BY DEF LoopTypes, PopulationIsThere
<1>2. /\ both \in Seq(Searchable)
      /\ Members(both) = Members(search_population) \cup Members(search_scored)
  BY <1>1, JoinIs
<1> HIDE DEF both
<1>3. Dedup(both) \in Seq(Searchable) /\ Members(Dedup(both)) = Members(both) /\ NoRepeats(Dedup(both))
  BY <1>2, DedupIs
<1>4. Pool = Dedup(both)
  BY DEF Pool, both
<1>5. Members(search_population) # {}
  BY <1>1, EmptyIs
<1>6. Pool # <<>>
  BY <1>2, <1>3, <1>4, <1>5, EmptyIs
<1> QED BY <1>2, <1>3, <1>4, <1>6

\* What Select makes of the population, under either scheme.
LEMMA SelectMakes ==
    ASSUME LoopTypes, PopulationIsThere, CandidatesFit, Select
    PROVE  /\ search_population' \in Seq(Searchable) /\ search_population' # <<>>
           /\ Len(search_population') <= TargetSize
           /\ Nsga2 => Len(search_population') = TargetSize
           /\ Members(search_population')
                \subseteq Members(search_population) \cup Members(search_scored)
           /\ ~Nsga2 => Members(search_population') = Members(search_scored)
<1>1. /\ search_scored \in Seq(Searchable) /\ search_scored # <<>>
      /\ Len(search_scored) <= TargetSize /\ TargetSize \in Nat \ {0}
  BY SizesHold DEF LoopTypes, CandidatesFit, Select
<1>2. CASE Nsga2
  <2>1. PICK o \in Orders(Pool) : search_population' = Selected(o)
    BY <1>2 DEF Select
  <2>2. /\ Pool \in Seq(Searchable) /\ Pool # <<>> /\ NoRepeats(Pool)
        /\ Members(Pool) = Members(search_population) \cup Members(search_scored)
    BY PoolIs
  <2> HIDE DEF Pool, Selected
  <2>3. /\ Selected(o) \in Seq(Searchable) /\ Len(Selected(o)) = TargetSize
        /\ Members(Selected(o)) \subseteq Members(Pool)
    BY <1>2, <2>2, SelectedIs
  <2>4. search_population' # <<>>
    <3>1. Len(search_population') = TargetSize
      BY <2>1, <2>3
    <3> QED BY <1>1, <3>1
  <2> QED BY <1>1, <1>2, <2>1, <2>2, <2>3, <2>4
<1>3. CASE ~Nsga2
  <2>1. search_population' \in Orders(search_scored)
    BY <1>3 DEF Select
  <2>2. /\ search_population' \in Seq(Searchable)
        /\ Len(search_population') = Len(search_scored)
        /\ Members(search_population') = Members(search_scored)
    BY <1>1, <2>1, OrdersAre
  <2>3. search_population' # <<>>
    BY <1>1, <2>2
  <2> QED BY <1>1, <1>3, <2>2, <2>3
<1> QED BY <1>2, <1>3

LEMMA SelectKeeps == GenerationInv /\ Select => GenerationInv'
<1> SUFFICES ASSUME GenerationInv, Select PROVE GenerationInv'
  OBVIOUS
<1>1. LoopTypes /\ PopulationIsThere /\ CandidatesFit /\ FoundIsAccumulated
  BY TypesAre DEF GenerationInv
<1>2. /\ stage = "select" /\ stage' = "accumulate" /\ search_scored' = <<>>
      /\ UNCHANGED <<loopVars, breedVars, fitness_cache, budgetVars>>
  BY DEF Select
<1>3. /\ search_population' \in Seq(Searchable) /\ search_population' # <<>>
      /\ Len(search_population') <= TargetSize
      /\ Nsga2 => Len(search_population') = TargetSize
      /\ Members(search_population')
           \subseteq Members(search_population) \cup Members(search_scored)
  BY <1>1, SelectMakes
<1>4. LoopTypeOK'
  <2>1. Generations' = Generations
    BY <1>2 DEF Generations, budgetVars
  <2>2. <<>> \in Seq(Searchable)
    OBVIOUS
  <2>3. stage \in Running /\ stage' \in Running
    BY <1>2 DEF Running, Breeding
  <2>4. LoopTypes'
    BY <1>1, <1>2, <1>3, <2>1, <2>2, <2>3 DEF LoopTypes, loopVars, breedVars, budgetVars
  <2> QED BY <2>4, TypesAreNext
<1>5. PopulationIsThere'
  <2>1. Members(search_population') \subseteq fitness_cache' /\ Members(search_scored') = {}
    <3>1. Members(<<>>) = {}
      BY DEF Members
    <3> QED BY <1>1, <1>2, <1>3, <3>1 DEF PopulationIsThere
  <2>2. Nsga2' = Nsga2 /\ TargetSize' = TargetSize
    BY <1>2 DEF Nsga2, budgetVars, TargetSize
  <2> QED BY <1>3, <2>1, <2>2 DEF PopulationIsThere
<1>6. ParentsAreThePopulation' /\ CandidatesFit' /\ BestIsKept'
  BY <1>2, NotBreeding
<1>7. FoundIsAccumulated' /\ EndIsExplained'
  BY <1>1, <1>2, FoundStays, EndIsAhead DEF loopVars
<1> QED BY <1>4, <1>5, <1>6, <1>7 DEF GenerationInv

LEMMA AccumulateKeeps == GenerationInv /\ Accumulate => GenerationInv'
<1> SUFFICES ASSUME GenerationInv, Accumulate PROVE GenerationInv'
  OBVIOUS
<1>1. LoopTypes /\ PopulationIsThere /\ FoundIsAccumulated
  BY TypesAre DEF GenerationInv
<1>2. /\ stage = "accumulate" /\ stage' = "head" /\ gen' = gen + 1
      /\ accumulated' = Dedup(accumulated \o Keep(search_population, Realizable))
      /\ found' = found \cup (Members(search_population) \cap Realizable)
      /\ UNCHANGED <<output, stopped_by, ended_by, breedVars, scoredVars, budgetVars>>
  BY DEF Accumulate, NextGeneration
<1>3. /\ accumulated' \in Seq(Searchable)
      /\ Members(accumulated') = Members(accumulated) \cup (Members(search_population) \cap Realizable)
  <2> DEFINE passing == Keep(search_population, Realizable)
             both == accumulated \o passing
  <2>1. accumulated \in Seq(Searchable) /\ search_population \in Seq(Searchable)
    BY <1>1 DEF LoopTypes
  <2>2. passing \in Seq(Searchable) /\ Members(passing) = Members(search_population) \cap Realizable
    BY <2>1, KeepIs
  <2> HIDE DEF passing
  <2>3. both \in Seq(Searchable) /\ Members(both) = Members(accumulated) \cup Members(passing)
    BY <2>1, <2>2, JoinIs
  <2> HIDE DEF both
  <2>4. Dedup(both) \in Seq(Searchable) /\ Members(Dedup(both)) = Members(both)
    BY <2>3, DedupIs
  <2>5. accumulated' = Dedup(both)
    BY <1>2 DEF both, passing
  <2> QED BY <2>2, <2>3, <2>4, <2>5
<1>4. LoopTypeOK'
  <2>1. Generations' = Generations /\ Generations \in Nat
    BY <1>1, <1>2, SettingIs DEF Generations, budgetVars, LoopTypes
  <2>2. gen' \in 0 .. Generations
    BY <1>1, <1>2, <2>1 DEF LoopTypes, Running
  <2>3. stage' \notin Running /\ stage' \in Running \cup Over \cup {"head", "final", "report"}
    BY <1>2 DEF Running, Breeding
  <2>4. found' \subseteq Searchable
    <3>1. Members(search_population) \subseteq Searchable
      BY <1>1, EmptyIs DEF LoopTypes
    <3> QED BY <1>1, <1>2, <3>1 DEF LoopTypes
  <2>5. LoopTypes'
    BY <1>1, <1>2, <1>3, <2>1, <2>2, <2>3, <2>4 DEF LoopTypes, breedVars, scoredVars, budgetVars
  <2> QED BY <2>5, TypesAreNext
<1>5. PopulationIsThere'
  <2>1. Nsga2' = Nsga2 /\ TargetSize' = TargetSize
    BY <1>2 DEF Nsga2, budgetVars, TargetSize
  <2> QED BY <1>1, <1>2, <2>1 DEF PopulationIsThere, scoredVars
<1>6. ParentsAreThePopulation' /\ CandidatesFit' /\ BestIsKept'
  BY <1>2, NotBreeding
<1>7. FoundIsAccumulated'
  <2>1. found' \subseteq Members(accumulated') /\ Members(accumulated') \subseteq Realizable
    BY <1>1, <1>2, <1>3 DEF FoundIsAccumulated
  <2> QED BY <1>2, <2>1 DEF FoundIsAccumulated, NothingFoundIsLost
<1>8. EndIsExplained'
  BY <1>2, EndIsAhead
<1> QED BY <1>4, <1>5, <1>6, <1>7, <1>8 DEF GenerationInv

LEMMA FinishSearchKeeps == GenerationInv /\ FinishSearch => GenerationInv'
<1> SUFFICES ASSUME GenerationInv, FinishSearch PROVE GenerationInv'
  OBVIOUS
<1>1. LoopTypes /\ PopulationIsThere /\ FoundIsAccumulated /\ EndIsExplained
  BY TypesAre DEF GenerationInv
<1>2. /\ stage = "final" /\ stage' = "report"
      /\ output' = Merged(Dedup(Keep(search_population, Realizable)))
      /\ UNCHANGED <<gen, accumulated, stopped_by, ended_by, found, breedVars, scoredVars, budgetVars>>
  BY DEF FinishSearch
<1>3. /\ output' \in Seq(Searchable) /\ NoRepeats(output')
      /\ Members(output') = (Members(search_population) \cap Realizable) \cup Members(accumulated)
  <2> DEFINE passing == Keep(search_population, Realizable)
             once == Dedup(passing)
             both == once \o accumulated
  <2>1. accumulated \in Seq(Searchable) /\ search_population \in Seq(Searchable)
    BY <1>1 DEF LoopTypes
  <2>2. passing \in Seq(Searchable) /\ Members(passing) = Members(search_population) \cap Realizable
    BY <2>1, KeepIs
  <2> HIDE DEF passing
  <2>3. once \in Seq(Searchable) /\ Members(once) = Members(passing)
    BY <2>2, DedupIs
  <2> HIDE DEF once
  <2>4. both \in Seq(Searchable) /\ Members(both) = Members(once) \cup Members(accumulated)
    BY <2>1, <2>3, JoinIs
  <2> HIDE DEF both
  <2>5. /\ Dedup(both) \in Seq(Searchable) /\ Members(Dedup(both)) = Members(both)
        /\ NoRepeats(Dedup(both))
    BY <2>4, DedupIs
  <2>6. output' = Dedup(both)
    BY <1>2 DEF both, once, passing, Merged
  <2> QED BY <2>2, <2>3, <2>4, <2>5, <2>6
<1>4. LoopTypeOK'
  <2>1. Generations' = Generations
    BY <1>2 DEF Generations, budgetVars
  <2>2. stage' \notin Running /\ stage' \in Running \cup Over \cup {"head", "final", "report"}
    BY <1>2 DEF Running, Breeding
  <2>3. LoopTypes'
    BY <1>1, <1>2, <1>3, <2>1, <2>2 DEF LoopTypes, breedVars, scoredVars, budgetVars
  <2> QED BY <2>3, TypesAreNext
<1>5. PopulationIsThere'
  BY <1>1, <1>2, PopulationStays DEF budgetVars
<1>6. ParentsAreThePopulation' /\ CandidatesFit' /\ BestIsKept'
  BY <1>2, NotBreeding
<1>7. FoundIsAccumulated'
  <2>1. found' \subseteq Members(output') /\ Members(output') \subseteq Realizable
    BY <1>1, <1>2, <1>3 DEF FoundIsAccumulated
  <2> QED BY <1>1, <1>2, <1>3, <2>1 DEF FoundIsAccumulated, NothingFoundIsLost
<1>8. EndIsExplained'
  <2>1. reason("generations")' = reason("generations")
    BY <1>2, BudgetStays
  <2> QED BY <1>1, <1>2, <2>1 DEF EndIsExplained
<1> QED BY <1>4, <1>5, <1>6, <1>7, <1>8 DEF GenerationInv

LEMMA WriteManifestKeeps == GenerationInv /\ WriteManifest => GenerationInv'
<1> SUFFICES ASSUME GenerationInv, WriteManifest PROVE GenerationInv'
  OBVIOUS
<1>1. LoopTypes /\ PopulationIsThere /\ FoundIsAccumulated /\ EndIsExplained
  BY TypesAre DEF GenerationInv
<1>2. /\ stage = "report" /\ stage' = "ended" /\ stopped_by' = reason("generations")
      /\ UNCHANGED <<gen, accumulated, output, ended_by, found, breedVars, scoredVars, budgetVars>>
  BY DEF WriteManifest
<1>3. LoopTypeOK'
  <2>1. Generations' = Generations
    BY <1>2 DEF Generations, budgetVars
  <2>2. stage' \notin Running /\ stage' \in Running \cup Over \cup {"head", "final", "report"}
    BY <1>2 DEF Running, Breeding, Over
  <2>3. LoopTypes'
    BY <1>1, <1>2, <2>1, <2>2 DEF LoopTypes, breedVars, scoredVars, budgetVars
  <2> QED BY <2>3, TypesAreNext
<1>4. PopulationIsThere'
  BY <1>1, <1>2, PopulationStays DEF budgetVars
<1>5. ParentsAreThePopulation' /\ CandidatesFit' /\ BestIsKept'
  BY <1>2, NotBreeding
<1>6. FoundIsAccumulated'
  BY <1>1, <1>2 DEF FoundIsAccumulated, NothingFoundIsLost
<1>7. EndIsExplained'
  <2>1. reason("generations")' = reason("generations")
    BY <1>2, BudgetStays
  <2> QED BY <1>1, <1>2, <2>1 DEF EndIsExplained
<1> QED BY <1>3, <1>4, <1>5, <1>6, <1>7 DEF GenerationInv

\* A deadline that passes spends the budget; one already spent by individuals
\* is still explained by them.
LEMMA DeadlinePassesKeeps == GenerationInv /\ DeadlinePasses => GenerationInv'
<1> SUFFICES ASSUME GenerationInv, DeadlinePasses PROVE GenerationInv'
  OBVIOUS
<1>1. /\ LoopTypes /\ PopulationIsThere /\ ParentsAreThePopulation /\ CandidatesFit
      /\ BestIsKept /\ FoundIsAccumulated /\ EndIsExplained
  BY TypesAre DEF GenerationInv
<1>2. /\ ~past_deadline /\ past_deadline' = TRUE /\ stage \notin Over /\ stage' = stage
      /\ UNCHANGED <<search_setting, stage, loopVars, breedVars, scoredVars, m_bred>>
  BY DEF DeadlinePasses
<1>3. LoopTypeOK'
  <2>1. Generations' = Generations
    BY <1>2 DEF Generations
  <2>2. LoopTypes'
    BY <1>1, <1>2, <2>1 DEF LoopTypes, breedVars, scoredVars, loopVars
  <2> QED BY <2>2, TypesAreNext
<1>4. PopulationIsThere'
  BY <1>1, <1>2 DEF PopulationIsThere, loopVars, scoredVars, Nsga2, TargetSize
<1>5. ParentsAreThePopulation'
  BY <1>1, <1>2 DEF ParentsAreThePopulation, breedVars, scoredVars, Nsga2
<1>6. /\ top_n' = top_n /\ elite_n' = elite_n /\ offspring_n' = offspring_n
  BY <1>2, SizesStay DEF scoredVars
<1>7. Spent => Spent'
  BY <1>1, <1>2, BudgetGrows DEF LoopTypes, Spent
<1>8. CandidatesFit'
  <2>1. UNCHANGED <<candidates, pre_filter, search_scored, stage>> /\ TargetSize' = TargetSize
    BY <1>2 DEF breedVars, scoredVars, TargetSize
  <2> QED BY <1>1, <1>6, <1>7, <2>1 DEF CandidatesFit
<1>9. BestIsKept'
  BY <1>1, <1>2, <1>6 DEF BestIsKept, breedVars, scoredVars
<1>10. FoundIsAccumulated'
  BY <1>1, <1>2 DEF FoundIsAccumulated, NothingFoundIsLost, loopVars
<1>11. EndIsExplained'
  <2>1. ended_by' = ended_by /\ stage \notin {"ended"} /\ stage' = stage
    BY <1>2 DEF loopVars, Over
  <2>2. individuals_spent' <=> individuals_spent
    BY <1>2 DEF individuals_spent, MaxIndividuals
  <2>3. reason("generations") # "generations" => reason("generations")' = reason("generations")
    BY <1>2, <2>2 DEF reason
  <2> QED BY <1>1, <2>1, <2>3 DEF EndIsExplained
<1> QED BY <1>3, <1>4, <1>5, <1>8, <1>9, <1>10, <1>11 DEF GenerationInv

LEMMA GenerationInvHolds == GenerationInv /\ [GenerationNext]_generationVars => GenerationInv'
<1> SUFFICES ASSUME GenerationInv, [GenerationNext]_generationVars PROVE GenerationInv'
  OBVIOUS
<1>1. CASE RunStep
  BY <1>1, LoopHeadKeeps, OrderParentsKeeps, BreedSlotKeeps, BreedEndsKeeps, FilterKeeps,
     FilterFallbackKeeps, RestoreElitesKeeps, PadKeeps, ScoreKeeps, SelectKeeps, AccumulateKeeps,
     FinishSearchKeeps, WriteManifestKeeps DEF RunStep
<1>2. CASE DeadlinePasses
  BY <1>2, DeadlinePassesKeeps
<1>3. CASE UNCHANGED generationVars
  <2>1. /\ LoopTypes /\ PopulationIsThere /\ ParentsAreThePopulation /\ CandidatesFit
        /\ BestIsKept /\ FoundIsAccumulated /\ EndIsExplained
    BY TypesAre DEF GenerationInv
  <2>2. /\ UNCHANGED <<search_setting, stage, gen, search_population, sorted_parents, candidates,
                       pre_filter, search_scored, fitness_cache, m_bred, past_deadline>>
        /\ UNCHANGED <<accumulated, output, stopped_by, ended_by, found>>
    BY <1>3 DEF generationVars
  <2>3. Nsga2' = Nsga2 /\ TargetSize' = TargetSize /\ Generations' = Generations
    BY <2>2 DEF Nsga2, TargetSize, Generations
  <2>4. top_n' = top_n /\ elite_n' = elite_n /\ offspring_n' = offspring_n
    BY <2>2, SizesStay
  <2>5. (Spent' <=> Spent) /\ reason("generations")' = reason("generations")
    BY <2>2, BudgetStays DEF Spent, budgetVars
  <2>6. LoopTypeOK'
    <3>1. LoopTypes'
      BY <2>1, <2>2, <2>3 DEF LoopTypes
    <3> QED BY <3>1, TypesAreNext
  <2>7. PopulationIsThere'
    BY <2>1, <2>2, <2>3 DEF PopulationIsThere
  <2>8. ParentsAreThePopulation'
    BY <2>1, <2>2, <2>3 DEF ParentsAreThePopulation
  <2>9. CandidatesFit'
    BY <2>1, <2>2, <2>3, <2>4, <2>5 DEF CandidatesFit
  <2>10. BestIsKept'
    BY <2>1, <2>2, <2>4 DEF BestIsKept
  <2>11. FoundIsAccumulated'
    BY <2>1, <2>2 DEF FoundIsAccumulated, NothingFoundIsLost
  <2>12. EndIsExplained'
    BY <2>1, <2>2, <2>5 DEF EndIsExplained
  <2> QED BY <2>6, <2>7, <2>8, <2>9, <2>10, <2>11, <2>12 DEF GenerationInv
<1> QED BY <1>1, <1>2, <1>3 DEF GenerationNext

LEMMA GenerationInvAlways == GenerationSpec => []GenerationInv
BY GenerationStarts, GenerationInvHolds, PTL DEF GenerationSpec

-----------------------------------------------------------------------------
(* What the invariant gives *)

\* Every specification that passed the gate in any generation comes out once,
\* whatever was bred, dropped or cut short (RepairAccumulator::insert,
\* merge_accumulated).
THEOREM FindsAreReported == GenerationSpec => []NothingFoundIsLost
<1>1. GenerationInv => NothingFoundIsLost
  BY DEF GenerationInv, FoundIsAccumulated
<1> QED BY <1>1, GenerationInvAlways, PTL

LEMMA ScreenedNow == GenerationInv => GenerationTypeOK /\ PadHasSomething /\ PopulationIsScoredAndSized
<1> SUFFICES ASSUME GenerationInv
             PROVE  GenerationTypeOK /\ PadHasSomething /\ PopulationIsScoredAndSized
  OBVIOUS
<1>1. LoopTypes /\ PopulationIsThere /\ CandidatesFit /\ GenerationTypeOK
  BY TypesAre DEF GenerationInv, LoopTypeOK
<1>2. PadHasSomething
  BY <1>1 DEF PadHasSomething, CandidatesFit, Spent
<1>3. PopulationIsScoredAndSized
  <2>1. search_population \in Seq(Searchable) /\ search_population # <<>>
    BY <1>1 DEF LoopTypes, PopulationIsThere
  <2>2. Len(search_population) >= 1
    BY <2>1
  <2> QED BY <1>1, <2>2 DEF PopulationIsThere, PopulationIsScoredAndSized
<1> QED BY <1>1, <1>2, <1>3

LEMMA FallbackScreens ==
    ASSUME GenerationInv, [GenerationNext]_generationVars,
           stage = "fallback", stage' = "elites", NEW s \in Members(candidates')
    PROVE  s \in Correct \/ (elite_n = 0 /\ Members(pre_filter) \cap Correct = {})
<1>1. LoopTypes /\ CandidatesFit
  BY TypesAre DEF GenerationInv
<1>2. FilterFallback
  BY DEF GenerationNext, RunStep, DeadlinePasses, LoopHead, OrderParents, BreedSlot, BreedEnds,
         Filter, RestoreElites, Pad, Score, Select, Accumulate, FinishSearch, WriteManifest,
         generationVars
<1>3. candidates' = IF candidates # <<>> THEN candidates
                    ELSE IF Rescued # <<>> THEN Rescued
                    ELSE IF RestoresUnscreened THEN pre_filter ELSE <<>>
  BY <1>2 DEF FilterFallback
<1>4. Members(candidates) \subseteq Correct
  BY <1>1 DEF CandidatesFit
<1>5. Rescued \in Seq(Searchable) /\ Members(Rescued) = Members(pre_filter) \cap Correct
  BY <1>1, RescuedIs
<1>6. Rescued = <<>> <=> Members(pre_filter) \cap Correct = {}
  BY <1>5, EmptyIs
<1>7. Members(<<>>) = {}
  BY DEF Members
<1>8. CASE candidates # <<>>
  BY <1>3, <1>4, <1>8
<1>9. CASE candidates = <<>> /\ Rescued # <<>>
  BY <1>3, <1>5, <1>9
<1>10. CASE candidates = <<>> /\ Rescued = <<>> /\ RestoresUnscreened
  BY <1>6, <1>10 DEF RestoresUnscreened
<1>11. CASE candidates = <<>> /\ Rescued = <<>> /\ ~RestoresUnscreened
  BY <1>3, <1>7, <1>11
<1> QED BY <1>8, <1>9, <1>10, <1>11

\* Every generation starts from a population that is there, scored and of the
\* right size, and the fallback lets back nothing unscreened but in a run with
\* no elites that bred nothing correct (stage_filter_fallback, stage_pad,
\* stage_score, stage_select).
THEOREM PopulationsAreScreened == GenerationSpec => PopulationIsScreened
<1>1. GenerationInv /\ [GenerationNext]_generationVars
        => [stage = "fallback" /\ stage' = "elites" =>
              \A s \in Members(candidates') :
                 \/ s \in Correct
                 \/ elite_n = 0 /\ Members(pre_filter) \cap Correct = {}]_generationVars
  BY FallbackScreens
<1>2. GenerationSpec => FallbackIsScreened
  BY <1>1, GenerationInvAlways, PTL DEF GenerationSpec, FallbackIsScreened
<1>3. GenerationSpec => [](GenerationTypeOK /\ PadHasSomething /\ PopulationIsScoredAndSized)
  BY ScreenedNow, GenerationInvAlways, PTL
<1> QED BY <1>2, <1>3 DEF PopulationIsScreened

LEMMA BestStays ==
    ASSUME GenerationInv, GenerationNext, stage = "select", ~Nsga2, elite_n > 0
    PROVE  \E s \in Members(search_population') :
              \A t \in Members(search_population) : Fitness(s) >= Fitness(t)
<1>1. /\ LoopTypes /\ PopulationIsThere /\ ParentsAreThePopulation /\ CandidatesFit
      /\ BestIsKept
  BY TypesAre DEF GenerationInv
<1> DEFINE best == sorted_parents[1]
<1>2. /\ sorted_parents \in Seq(Searchable) /\ Members(sorted_parents) = Members(search_population)
      /\ \A k \in DOMAIN sorted_parents : Fitness(best) >= Fitness(sorted_parents[k])
  BY <1>1 DEF LoopTypes, ParentsAreThePopulation, Breeding
<1>3. \A t \in Members(search_population) : Fitness(best) >= Fitness(t)
  <2> HIDE DEF best
  <2> QED BY <1>2 DEF Members
<1>4. best \in Members(search_scored)
  BY <1>1 DEF BestIsKept
<1>5. best \in Members(search_population')
  <2>1. CASE Select
    BY <1>1, <1>4, <2>1, SelectMakes
  <2>2. CASE ~Select
    <3>1. DeadlinePasses
      BY <2>2 DEF GenerationNext, RunStep, LoopHead, OrderParents, BreedSlot, BreedEnds, Filter,
         FilterFallback, RestoreElites, Pad, Score, Accumulate, FinishSearch, WriteManifest
    <3>2. search_population' = search_population
      BY <3>1 DEF DeadlinePasses, scoredVars
    <3>3. best \in Members(sorted_parents)
      <4>1. 1 \in DOMAIN sorted_parents
        <5>1. /\ Len(sorted_parents) = Len(search_population) /\ search_population # <<>>
              /\ search_population \in Seq(Searchable)
          BY <1>1 DEF ParentsAreThePopulation, PopulationIsThere, LoopTypes, Breeding
        <5> QED BY <1>2, <5>1
      <4> QED BY <4>1 DEF Members
    <3> QED BY <1>2, <3>2, <3>3
  <2> QED BY <2>1, <2>2
<1> QED BY <1>3, <1>5

LEMMA NonDominatedStay ==
    ASSUME GenerationInv, GenerationNext, stage = "select", Nsga2,
           LET pool == Members(search_population) \cup Members(search_scored)
           IN  Cardinality({s \in pool : \A t \in pool : ~Dominates(t, s)}) <= TargetSize,
           NEW s \in Members(search_population)
    PROVE  \E t \in Members(search_population') : t = s \/ Dominates(t, s)
<1>1. LoopTypes /\ PopulationIsThere
  BY TypesAre DEF GenerationInv
<1> DEFINE pool == Members(search_population) \cup Members(search_scored)
           first == {u \in pool : \A t \in pool : ~Dominates(t, u)}
<1>2. CASE Select
  <2>1. PICK o \in Orders(Pool) : search_population' = Selected(o)
    BY <1>2 DEF Select
  <2>2. /\ Pool \in Seq(Searchable) /\ Pool # <<>> /\ NoRepeats(Pool) /\ Members(Pool) = pool
    BY <1>1, PoolIs
  <2>3. pool \in SUBSET Searchable /\ IsFiniteSet(pool)
    BY <2>2, EmptyIs, MembersFinite
  <2>4. Cardinality(first) <= TargetSize
    OBVIOUS
  <2>5. s \in pool
    OBVIOUS
  <2> HIDE DEF pool, Pool, Selected
  <2>6. first \subseteq Members(Selected(o))
    <3>1. first = {u \in Members(Pool) : \A t \in Members(Pool) : ~Dominates(t, u)}
      BY <2>2
    <3> HIDE DEF first
    <3> QED BY <2>2, <2>4, <3>1, SelectedIs
  <2>7. PICK t \in pool : (t = s \/ Dominates(t, s)) /\ \A u \in pool : ~Dominates(u, t)
    BY <2>3, <2>5, SomeUndominated
  <2>8. t \in first
    BY <2>7
  <2> QED BY <2>1, <2>6, <2>7, <2>8
<1>3. CASE ~Select
  <2>1. DeadlinePasses
    BY <1>3 DEF GenerationNext, RunStep, LoopHead, OrderParents, BreedSlot, BreedEnds, Filter,
       FilterFallback, RestoreElites, Pad, Score, Accumulate, FinishSearch, WriteManifest
  <2>2. search_population' = search_population
    BY <2>1 DEF DeadlinePasses, scoredVars
  <2> QED BY <2>2
<1> QED BY <1>2, <1>3

\* Under the average the best fitness never falls while a run has an elite;
\* under NSGA-II, as far as the first front fits the target, every member
\* survives or is dominated by a survivor (stage_select, stage_restore_elites).
THEOREM SelectionIsElitist == GenerationSpec => SelectionKeepsTheBest
<1>1. GenerationInv /\ [GenerationNext]_generationVars
        => [stage = "select" /\ ~Nsga2 /\ elite_n > 0 =>
              \E s \in Members(search_population') :
                 \A t \in Members(search_population) : Fitness(s) >= Fitness(t)]_generationVars
  BY BestStays
<1>2. GenerationInv /\ [GenerationNext]_generationVars
        => [stage = "select" /\ Nsga2 =>
              LET pool == Members(search_population) \cup Members(search_scored)
                  first == {s \in pool : \A t \in pool : ~Dominates(t, s)}
              IN  Cardinality(first) <= TargetSize =>
                    \A s \in Members(search_population) :
                       \E t \in Members(search_population') : t = s \/ Dominates(t, s)]_generationVars
  BY NonDominatedStay
<1>3. GenerationSpec => BestNeverFalls
  BY <1>1, GenerationInvAlways, PTL DEF GenerationSpec, BestNeverFalls
<1>4. GenerationSpec => NonDominatedAreKept
  BY <1>2, GenerationInvAlways, PTL DEF GenerationSpec, NonDominatedAreKept
<1> QED BY <1>3, <1>4 DEF SelectionKeepsTheBest

\* Nothing is bred past the budget, and the manifest names the test that ended
\* the loop, or the run was complete when the budget ran out
\* (breed_offspring, SearchBudget::reason).
THEOREM BudgetsAreKept == GenerationSpec => BudgetIsKept
<1>1. GenerationInv /\ [GenerationNext]_generationVars
        => [Len(candidates') > Len(candidates) /\ stage = "breed" =>
              ~(active /\ exhausted)]_generationVars
  <2> SUFFICES ASSUME GenerationInv, GenerationNext, stage = "breed",
                      Len(candidates') > Len(candidates), active /\ exhausted
               PROVE  FALSE
    OBVIOUS
  <2>1. candidates' = candidates
    BY DEF GenerationNext, RunStep, LoopHead, OrderParents, BreedSlot, BreedEnds, Filter,
       FilterFallback, RestoreElites, Pad, Score, Select, Accumulate, FinishSearch, WriteManifest,
       DeadlinePasses, BreedingStops, breedVars
  <2>2. Len(candidates) \in Nat
    BY TypesAre DEF GenerationInv, LoopTypes
  <2> QED BY <2>1, <2>2
<1>2. GenerationSpec => NoBreedingPastTheBudget
  BY <1>1, GenerationInvAlways, PTL DEF GenerationSpec, NoBreedingPastTheBudget
<1>3. GenerationInv => StoppedByIsTruthful
  BY DEF GenerationInv, EndIsExplained, StoppedByIsTruthful, reason, exhausted
<1>4. GenerationSpec => []StoppedByIsTruthful
  BY <1>3, GenerationInvAlways, PTL
<1> QED BY <1>2, <1>4 DEF BudgetIsKept
=============================================================================
