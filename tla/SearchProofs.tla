----------------------------- MODULE SearchProofs -----------------------------
(***************************************************************************)
(* What TLAPS proves of one generation's selection: nsga2_sort flags,      *)
(* ranks and anchors what the population and its dominance order say, for  *)
(* populations of any size, any objectives and any relation of proved      *)
(* implications (FrontsAreExact); and score_population answers what a      *)
(* serial sweep would, for any specifications, objectives, populations and *)
(* failures, with the parts landing in any order (ScoringIsSerial).        *)
(***************************************************************************)
EXTENDS ScorePopulation, Nsga2Sort, FiniteSetTheorems, WellFoundedInduction, TLAPS

-----------------------------------------------------------------------------
(* Numbers and finite sets *)

LEMMA LeastOf ==
    ASSUME NEW T \in SUBSET Nat, T # {}
    PROVE  \E x \in T : \A y \in T : x <= y
<1>1. PICK x \in T : \A y \in T : ~ (<<y, x>> \in OpToRel(<, Nat))
  BY NatLessThanWellFounded, WFMin
<1>2. ASSUME NEW y \in T, y < x PROVE FALSE
  <2>1. <<y, x>> \in OpToRel(<, Nat)
    BY <1>2 DEF OpToRel
  <2> QED BY <1>1, <2>1
<1> QED BY <1>2

\* A finite set of integers that has a member has a greatest one.
LEMMA GreatestOf ==
    ASSUME NEW S \in SUBSET Int, IsFiniteSet(S), S # {}
    PROVE  \E x \in S : \A y \in S : x >= y
<1> DEFINE without == {U \in SUBSET S : U # {} /\ \A x \in U : \E y \in U : ~(x >= y)}
<1> SUFFICES ASSUME without # {} PROVE FALSE
  <2>1. S \in without \/ \E x \in S : \A y \in S : x >= y
    OBVIOUS
  <2> QED BY <2>1
<1>1. FiniteSubsetsOf(S) = SUBSET S
  BY FS_FiniteSubsetsOfFinite
<1>2. IsWellFoundedOn(StrictSubsetOrdering(S), SUBSET S)
  BY <1>1, FS_StrictSubsetOrderingWellFounded
<1>3. without \subseteq SUBSET S
  OBVIOUS
<1>4. PICK U \in without : \A V \in without : ~ (<<V, U>> \in StrictSubsetOrdering(S))
  <2> HIDE DEF without
  <2> QED BY <1>2, <1>3, WFMin
<1>5. PICK x \in U : TRUE
  OBVIOUS
<1> DEFINE V == U \ {x}
<1>6. V \subseteq S /\ V \subseteq U /\ V # U /\ U \subseteq S
  BY <1>5
<1>7. V \notin without
  <2>1. <<V, U>> \in StrictSubsetOrdering(S)
    BY <1>6 DEF StrictSubsetOrdering
  <2> QED BY <1>4, <2>1
<1>8. CASE V = {}
  <2>1. \A y \in U : x >= y
    BY <1>5, <1>6, <1>8
  <2> QED BY <1>5, <2>1
<1>9. CASE V # {}
  <2>1. PICK m \in V : \A y \in V : m >= y
    BY <1>6, <1>7, <1>9
  <2>2. m \in Int /\ x \in Int
    BY <1>5, <1>6, <2>1
  <2>3. PICK top \in {m, x} : top >= m /\ top >= x
    BY <2>2
  <2>4. top \in U /\ top \in Int
    BY <1>5, <1>6, <2>1, <2>2, <2>3
  <2>5. ASSUME NEW y \in U PROVE top >= y
    <3>1. y \in Int
      BY <1>6
    <3>2. CASE y = x
      BY <2>3, <3>2
    <3>3. CASE y # x
      <4>1. m >= y
        BY <2>1, <3>3
      <4> QED BY <2>2, <2>3, <2>4, <3>1, <4>1
    <3> QED BY <3>2, <3>3
  <2> QED BY <2>4, <2>5
<1> QED BY <1>8, <1>9

LEMMA MaxIs ==
    ASSUME NEW S \in SUBSET Int, IsFiniteSet(S), S # {}
    PROVE  Max(S) \in S /\ \A y \in S : Max(S) >= y
<1>1. \E x \in S : \A y \in S : x >= y
  BY GreatestOf
<1> QED BY <1>1 DEF Max

LEMMA NoMembers ==
    ASSUME NEW S, IsFiniteSet(S)
    PROVE  Cardinality(S) = 0 <=> S = {}
BY FS_EmptySet

LEMMA CardIsNat ==
    ASSUME NEW S, IsFiniteSet(S)
    PROVE  Cardinality(S) \in Nat
BY FS_CardinalityType

\* The values a function takes on a finite domain.
LEMMA ValuesFinite ==
    ASSUME NEW S, IsFiniteSet(S), NEW T, NEW f \in [S -> T]
    PROVE  IsFiniteSet({f[i] : i \in S})
<1>1. f \in Surjection(S, {f[i] : i \in S})
  <2>1. f \in [S -> {f[i] : i \in S}]
    OBVIOUS
  <2> QED BY <2>1 DEF Surjection
<1> QED BY <1>1, FS_Surjection

-----------------------------------------------------------------------------
(* nsga2_sort: what the dominance order gives *)

LEMMA CandidateFinite == IsFiniteSet(Candidate) /\ Cardinality(Candidate) = Count
<1>1. Count \in Nat \ {0}
  BY SortAssumption
<1> QED BY <1>1, FS_Interval DEF Candidate

LEMMA DominatorsFinite ==
    ASSUME NEW i
    PROVE  /\ IsFiniteSet(Dominators(i))
           /\ Cardinality(Dominators(i)) \in Nat
<1>1. Dominators(i) \in SUBSET Candidate
  BY DEF Dominators
<1> HIDE DEF Dominators
<1>2. IsFiniteSet(Dominators(i))
  BY <1>1, CandidateFinite, FS_Subset
<1> QED BY <1>2, CardIsNat

LEMMA DominationIsStrict ==
    ASSUME objectives \in [Candidate -> [Objective -> Nat]],
           NEW i \in Candidate, NEW j \in Candidate, NEW k \in Candidate
    PROVE  /\ ~dominates(i, i)
           /\ dominates(i, j) /\ dominates(j, k) => dominates(i, k)
<1>1. \A obj \in Objective :
        objectives[i][obj] \in Nat /\ objectives[j][obj] \in Nat /\ objectives[k][obj] \in Nat
  OBVIOUS
<1>2. ~dominates(i, i)
  BY <1>1 DEF dominates
<1>3. ASSUME dominates(i, j), dominates(j, k) PROVE dominates(i, k)
  <2>1. \A obj \in Objective : objectives[i][obj] >= objectives[k][obj]
    BY <1>1, <1>3 DEF dominates
  <2>2. PICK obj \in Objective : objectives[i][obj] > objectives[j][obj]
    BY <1>3 DEF dominates
  <2>3. objectives[i][obj] > objectives[k][obj]
    BY <1>1, <1>3, <2>2 DEF dominates
  <2> QED BY <2>1, <2>3 DEF dominates
<1> QED BY <1>2, <1>3

\* Whoever dominates a candidate has fewer dominators than it.
LEMMA FewerDominators ==
    ASSUME objectives \in [Candidate -> [Objective -> Nat]],
           NEW i \in Candidate, NEW j \in Dominators(i)
    PROVE  Cardinality(Dominators(j)) < Cardinality(Dominators(i))
<1>1. j \in Candidate /\ dominates(j, i)
  BY DEF Dominators
<1>2. Dominators(j) \cup {j} \in SUBSET Dominators(i)
  BY <1>1, DominationIsStrict DEF Dominators
<1>3. j \notin Dominators(j)
  BY <1>1, DominationIsStrict DEF Dominators
<1> HIDE DEF Dominators
<1>4. IsFiniteSet(Dominators(j)) /\ Cardinality(Dominators(j)) \in Nat
      /\ IsFiniteSet(Dominators(i)) /\ Cardinality(Dominators(i)) \in Nat
  BY DominatorsFinite
<1>5. Cardinality(Dominators(j) \cup {j}) = Cardinality(Dominators(j)) + 1
  BY <1>3, <1>4, FS_AddElement
<1>6. Cardinality(Dominators(j) \cup {j}) <= Cardinality(Dominators(i))
  BY <1>2, <1>4, FS_Subset
<1> QED BY <1>4, <1>5, <1>6

LEMMA NotAllDominate ==
    ASSUME objectives \in [Candidate -> [Objective -> Nat]], NEW i \in Candidate
    PROVE  Cardinality(Dominators(i)) < Count
<1>1. Dominators(i) \in SUBSET Candidate /\ i \notin Dominators(i)
  BY DominationIsStrict DEF Dominators
<1> HIDE DEF Dominators
<1>2. IsFiniteSet(Candidate) /\ Cardinality(Candidate) = Count /\ Count \in Nat
  BY CandidateFinite, SortAssumption
<1>3. Cardinality(Dominators(i)) <= Cardinality(Candidate)
      /\ (Cardinality(Dominators(i)) = Cardinality(Candidate) => Candidate = Dominators(i))
  BY <1>1, <1>2, FS_Subset
<1>4. Cardinality(Dominators(i)) \in Nat
  BY DominatorsFinite
<1> QED BY <1>1, <1>2, <1>3, <1>4

LEMMA OrderStays ==
    ASSUME UNCHANGED <<objectives, proved>>
    PROVE  /\ MemberPairs' = MemberPairs
           /\ \A i \in Candidate : StatusRealizable(i)' <=> StatusRealizable(i)
           /\ \A i : Dominators(i)' = Dominators(i)
           /\ \A i, j : proved_stronger(i, j)' <=> proved_stronger(i, j)
<1>1. \A i : StatusRealizable(i)' <=> StatusRealizable(i)
  BY DEF StatusRealizable
<1>2. MemberPairs' = MemberPairs
  BY <1>1 DEF MemberPairs
<1>3. \A i : Dominators(i)' = Dominators(i)
  BY DEF Dominators, dominates
<1>4. \A i, j : proved_stronger(i, j)' <=> proved_stronger(i, j)
  BY DEF proved_stronger, implies
<1> QED BY <1>1, <1>2, <1>3, <1>4

-----------------------------------------------------------------------------
(* The start *)

LEMMA VectorsAreNat == \A v \in Vectors : v \in [Objective -> Nat]
<1> SUFFICES ASSUME NEW v \in Vectors PROVE v \in [Objective -> Nat]
  OBVIOUS
<1> DEFINE M == Max({Levels[o] : o \in Objective})
<1>1. v \in [Objective -> 0 .. M]
  BY DEF Vectors
<1>2. CASE Objective = {}
  BY <1>1, <1>2
<1>3. CASE Objective # {}
  <2>1. IsFiniteSet({Levels[o] : o \in Objective})
    <3>1. Len(Levels) \in Nat /\ Objective = 1 .. Len(Levels) /\ Levels \in [Objective -> Nat]
      BY SortAssumption DEF Objective
    <3>2. IsFiniteSet(1 .. Len(Levels))
      BY <3>1, FS_Interval
    <3>3. IsFiniteSet({Levels[o] : o \in 1 .. Len(Levels)})
      BY <3>1, <3>2, ValuesFinite
    <3> QED BY Zenon, <3>1, <3>3
  <2>2. {Levels[o] : o \in Objective} \in SUBSET Int /\ {Levels[o] : o \in Objective} # {}
    BY <1>3, SortAssumption DEF Objective
  <2>3. M \in Int
    BY <2>1, <2>2, MaxIs
  <2> QED BY <1>1, <2>3
<1> QED BY <1>2, <1>3

\* The inductive part of FrontsAreExact.
SortInv ==
    /\ SortTypeOK
    /\ FlagsFollowThePairs
    /\ CountsAreRemainingDominators /\ RanksFollowTheOrder
    /\ AnchorsFollowTheFronts

LEMMA SortStarts == SortInit => SortInv
<1> SUFFICES ASSUME SortInit PROVE SortInv
  OBVIOUS
<1> USE DEF SortInit
<1>1. objectives \in [Candidate -> [Objective -> Nat]]
  BY VectorsAreNat
<1>2. Count \in Nat
  BY SortAssumption
<1>3. SortTypeOK
  <2>1. domination_count \in [Candidate -> 0 .. Count] /\ ranks \in [Candidate -> 0 .. Count]
    BY <1>2
  <2>2. pairs \subseteq MemberPairs
    BY DEF MemberPairs
  <2> QED BY <1>1, <2>1, <2>2 DEF SortTypeOK
<1>4. FlagsFollowThePairs
  BY DEF FlagsFollowThePairs
<1>5. RanksFollowTheOrder
  BY DEF RanksFollowTheOrder
<1>6. AnchorsFollowTheFronts
  BY DEF AnchorsFollowTheFronts
<1> QED BY <1>3, <1>4, <1>5, <1>6 DEF SortInv, CountsAreRemainingDominators

-----------------------------------------------------------------------------
(* The demotion flags *)

\* Settling a pair flags the weaker side, whatever is flagged before.
LEMMA SettledIs ==
    ASSUME NEW i, NEW j, i # j
    PROVE  demoted \cup Settled(i, j)
             = demoted \cup {k \in {i, j} : \E l \in {i, j} : proved_stronger(l, k)}
<1>1. \A k : ~proved_stronger(k, k)
  BY DEF proved_stronger
<1>2. CASE i \in demoted /\ j \in demoted
  BY <1>2 DEF Settled
<1>3. CASE i \in demoted /\ j \notin demoted
  BY <1>1, <1>3 DEF Settled
<1>4. CASE i \notin demoted /\ j \in demoted
  BY <1>1, <1>4 DEF Settled
<1>5. CASE i \notin demoted /\ j \notin demoted
  <2>1. Settled(i, j) = IF implies(i, j) <=> implies(j, i) THEN {}
                        ELSE {IF implies(i, j) THEN j ELSE i}
    BY <1>5 DEF Settled, implies
  <2> QED BY <1>1, <2>1 DEF proved_stronger
<1> QED BY <1>2, <1>3, <1>4, <1>5

LEMMA SettlePairKeeps == SortInv /\ SettlePair => SortInv'
<1> SUFFICES ASSUME SortInv, SettlePair PROVE SortInv'
  OBVIOUS
<1>1. SortTypeOK /\ FlagsFollowThePairs /\ RanksFollowTheOrder /\ AnchorsFollowTheFronts
  BY DEF SortInv
<1>2. /\ sort_stage = "demote" /\ sort_stage' = "demote"
      /\ UNCHANGED <<objectives, proved, domination_count, ranks, current_front, to_crowd, anchored>>
  BY DEF SettlePair
<1>3. PICK p \in pairs : pairs' = pairs \ {p} /\ demoted' = demoted \cup Settled(p[1], p[2])
  BY DEF SettlePair
<1>4. p \in MemberPairs /\ MaximalityDemotion
  BY <1>1 DEF SortTypeOK, FlagsFollowThePairs
<1>5. p[1] \in Candidate /\ p[2] \in Candidate /\ p[1] # p[2]
      /\ StatusRealizable(p[1]) /\ StatusRealizable(p[2])
  <2>1. p[1] \in Nat /\ p[2] \in Nat /\ p[1] < p[2]
    BY <1>4, SortAssumption DEF MemberPairs, Candidate
  <2> QED BY <1>4, <2>1 DEF MemberPairs
<1> DEFINE Flag == {k \in {p[1], p[2]} : \E l \in {p[1], p[2]} : proved_stronger(l, k)}
<1>6. demoted' = demoted \cup Flag
  BY <1>3, <1>5, SettledIs
<1>7. MemberPairs' = MemberPairs
      /\ (\A i \in Candidate : StatusRealizable(i)' <=> StatusRealizable(i))
      /\ (\A i, j : proved_stronger(i, j)' <=> proved_stronger(i, j))
  BY <1>2, OrderStays
<1>8. FlagsFollowThePairs'
  <2>1. demoted = {i \in Candidate : MaximalityDemotion /\
                    \E q \in MemberPairs \ pairs :
                        i \in {q[1], q[2]} /\ \E j \in {q[1], q[2]} : proved_stronger(j, i)}
    BY <1>1 DEF FlagsFollowThePairs
  <2>2. MemberPairs \ pairs' = (MemberPairs \ pairs) \cup {p}
    BY <1>3, <1>4
  <2>3. demoted' = {i \in Candidate : MaximalityDemotion /\
                    \E q \in MemberPairs \ pairs' :
                        i \in {q[1], q[2]} /\ \E j \in {q[1], q[2]} : proved_stronger(j, i)}
    BY <1>4, <1>5, <1>6, <2>1, <2>2
  <2> QED BY <1>2, <1>4, <1>7, <2>3 DEF FlagsFollowThePairs
<1>9. SortTypeOK'
  <2>1. demoted' \subseteq {i \in Candidate : StatusRealizable(i)}
    BY <1>1, <1>5, <1>6 DEF SortTypeOK
  <2>2. Fronts' = Fronts
    BY <1>2 DEF Fronts
  <2>3. pairs' \subseteq MemberPairs
    BY <1>1, <1>3 DEF SortTypeOK
  <2> QED BY <1>1, <1>2, <1>7, <2>1, <2>2, <2>3 DEF SortTypeOK
<1>10. RanksFollowTheOrder'
  BY <1>1, <1>2 DEF RanksFollowTheOrder
<1>11. AnchorsFollowTheFronts'
  BY <1>1, <1>2 DEF AnchorsFollowTheFronts
<1> QED BY <1>2, <1>8, <1>9, <1>10, <1>11 DEF SortInv, CountsAreRemainingDominators

-----------------------------------------------------------------------------
(* The peeling *)

LEMMA CountDominatorsKeeps == SortInv /\ CountDominators => SortInv'
<1> SUFFICES ASSUME SortInv, CountDominators PROVE SortInv'
  OBVIOUS
<1>1. SortTypeOK /\ FlagsFollowThePairs /\ RanksFollowTheOrder /\ AnchorsFollowTheFronts
  BY DEF SortInv
<1>2. /\ sort_stage = "demote" /\ sort_stage' = "peel" /\ pairs = {}
      /\ UNCHANGED <<objectives, proved, pairs, demoted, ranks, to_crowd, anchored>>
      /\ domination_count' = [i \in Candidate |-> Cardinality(Dominators(i))]
      /\ current_front' = {i \in Candidate : domination_count'[i] = 0}
  BY DEF CountDominators
<1>3. MemberPairs' = MemberPairs
      /\ (\A i \in Candidate : StatusRealizable(i)' <=> StatusRealizable(i))
      /\ (\A i : Dominators(i)' = Dominators(i))
      /\ (\A i, j : proved_stronger(i, j)' <=> proved_stronger(i, j))
  BY <1>2, OrderStays
<1>4. objectives \in [Candidate -> [Objective -> Nat]]
  BY <1>1 DEF SortTypeOK
<1>5. Count \in Nat
  BY SortAssumption
<1>6. \A i \in Candidate : /\ IsFiniteSet(Dominators(i))
                           /\ Cardinality(Dominators(i)) \in Nat
                           /\ Cardinality(Dominators(i)) < Count
  BY <1>4, DominatorsFinite, NotAllDominate
<1>7. SortTypeOK'
  <2>1. domination_count' \in [Candidate -> 0 .. Count]
    BY <1>2, <1>5, <1>6
  <2>2. Fronts' = Fronts
    BY <1>2 DEF Fronts
  <2>3. current_front' \subseteq Candidate
    BY <1>2
  <2> QED BY <1>1, <1>2, <1>3, <2>1, <2>2, <2>3 DEF SortTypeOK
<1>8. FlagsFollowThePairs'
  BY <1>1, <1>2, <1>3 DEF FlagsFollowThePairs
<1>9. CountsAreRemainingDominators'
  <2>1. {j \in Candidate : domination_count'[j] = 0} \ current_front' = {}
    BY <1>2
  <2>2. \A i \in Candidate : domination_count'[i] = Cardinality(Dominators(i) \ {})
    <3>1. \A i : Dominators(i) \ {} = Dominators(i)
      OBVIOUS
    <3> QED BY <1>2, <3>1
  <2> QED BY <1>3, <2>1, <2>2 DEF CountsAreRemainingDominators
<1>10. RanksFollowTheOrder'
  <2>1. \A i \in Candidate : ranks[i] = 0
    BY <1>1, <1>2 DEF RanksFollowTheOrder
  <2>2. \A i \in current_front' : domination_count'[i] = 0
    BY <1>2
  <2>3. \A i \in Candidate : domination_count'[i] = 0 => Dominators(i) = {}
    BY <1>2, <1>6, NoMembers
  <2>4. \A i \in Candidate :
              /\ ranks'[i] <= Cardinality(Dominators(i))
              /\ domination_count'[i] > 0 => ranks'[i] = 0
              /\ domination_count'[i] = 0 => \A j \in Dominators(i) : ranks'[j] < ranks'[i]
              /\ ranks'[i] > 0 => \E j \in Dominators(i) : ranks'[j] = ranks'[i] - 1
    BY <1>2, <1>6, <2>1, <2>3
  <2>5. \A i \in current_front', j \in Candidate :
              domination_count'[j] = 0 => j \in current_front' /\ ranks'[j] = ranks'[i]
    BY <1>2, <2>1
  <2> QED BY <1>2, <1>3, <2>2, <2>4, <2>5 DEF RanksFollowTheOrder
<1>11. AnchorsFollowTheFronts'
  BY <1>1, <1>2 DEF AnchorsFollowTheFronts
<1> QED BY <1>7, <1>8, <1>9, <1>10, <1>11 DEF SortInv

\* When no front is left, every candidate is placed.
LEMMA EveryOneIsPlaced ==
    ASSUME SortTypeOK, CountsAreRemainingDominators, sort_stage = "peel", current_front = {}
    PROVE  \A i \in Candidate : domination_count[i] = 0
<1> SUFFICES ASSUME NEW i0 \in Candidate, domination_count[i0] # 0 PROVE FALSE
  OBVIOUS
<1> DEFINE Left == {i \in Candidate : domination_count[i] # 0}
<1>1. objectives \in [Candidate -> [Objective -> Nat]] /\ domination_count \in [Candidate -> 0 .. Count]
  BY DEF SortTypeOK
<1>2. \A i \in Candidate : /\ IsFiniteSet(Dominators(i)) /\ Cardinality(Dominators(i)) \in Nat
  BY DominatorsFinite
<1>3. PICK least \in {Cardinality(Dominators(i)) : i \in Left} :
            \A n \in {Cardinality(Dominators(i)) : i \in Left} : least <= n
  <2>1. {Cardinality(Dominators(i)) : i \in Left} \in SUBSET Nat
        /\ {Cardinality(Dominators(i)) : i \in Left} # {}
    BY <1>2
  <2> QED BY <2>1, LeastOf
<1>4. PICK i \in Left : Cardinality(Dominators(i)) = least
  BY <1>3
<1>5. domination_count[i] = Cardinality(Dominators(i) \ {j \in Candidate : domination_count[j] = 0})
  <2>1. {j \in Candidate : domination_count[j] = 0} \ current_front
          = {j \in Candidate : domination_count[j] = 0}
    OBVIOUS
  <2> QED BY <1>4, <2>1 DEF CountsAreRemainingDominators
<1>6. PICK j \in Dominators(i) : j \in Left
  <2>1. Dominators(i) \ {j \in Candidate : domination_count[j] = 0} # {}
    BY <1>4, <1>5, FS_EmptySet
  <2>2. Dominators(i) \subseteq Candidate
    BY DEF Dominators
  <2> QED BY <2>1, <2>2
<1>7. Cardinality(Dominators(j)) < Cardinality(Dominators(i))
  BY <1>1, <1>4, <1>6, FewerDominators
<1> QED BY <1>2, <1>3, <1>4, <1>6, <1>7

\* One round takes the current front off every count and places what it was the
\* last dominator of.
LEMMA PeelKeeps == SortInv /\ Peel => SortInv'
<1> SUFFICES ASSUME SortInv, Peel PROVE SortInv'
  OBVIOUS
<1>1. /\ SortTypeOK /\ FlagsFollowThePairs /\ CountsAreRemainingDominators
      /\ RanksFollowTheOrder /\ AnchorsFollowTheFronts
  BY DEF SortInv
<1> DEFINE front_index == ranks[CHOOSE i \in current_front : TRUE]
           finished == {j \in Candidate : domination_count[j] = 0} \ current_front
           next_front == Placed(domination_count')
<1>2. /\ sort_stage = "peel" /\ sort_stage' = "peel" /\ current_front # {}
      /\ UNCHANGED <<objectives, proved, pairs, demoted, to_crowd, anchored>>
      /\ domination_count' = [i \in Candidate |-> domination_count[i] - Released(i)]
      /\ current_front' = next_front
      /\ ranks' = [i \in Candidate |-> IF i \in next_front THEN front_index + 1 ELSE ranks[i]]
  BY DEF Peel
<1>3. MemberPairs' = MemberPairs
      /\ (\A i \in Candidate : StatusRealizable(i)' <=> StatusRealizable(i))
      /\ (\A i : Dominators(i)' = Dominators(i))
      /\ (\A i, j : proved_stronger(i, j)' <=> proved_stronger(i, j))
  BY <1>2, OrderStays
<1>4. /\ objectives \in [Candidate -> [Objective -> Nat]]
      /\ domination_count \in [Candidate -> 0 .. Count]
      /\ ranks \in [Candidate -> 0 .. Count]
      /\ current_front \subseteq Candidate
  BY <1>1 DEF SortTypeOK
<1>5. Count \in Nat
  BY SortAssumption
<1>6. \A i \in Candidate : /\ IsFiniteSet(Dominators(i))
                           /\ Cardinality(Dominators(i)) \in Nat
                           /\ Cardinality(Dominators(i)) < Count
                           /\ Dominators(i) \subseteq Candidate
  BY <1>4, DominatorsFinite, NotAllDominate DEF Dominators
<1>7. /\ \A i \in current_front : domination_count[i] = 0
      /\ \A i \in Candidate :
              /\ ranks[i] <= Cardinality(Dominators(i))
              /\ domination_count[i] > 0 => ranks[i] = 0
              /\ domination_count[i] = 0 => \A j \in Dominators(i) : ranks[j] < ranks[i]
              /\ ranks[i] > 0 => \E j \in Dominators(i) : ranks[j] = ranks[i] - 1
      /\ \A i \in current_front, j \in Candidate :
              domination_count[j] = 0 =>
                ranks[j] < ranks[i] \/ (j \in current_front /\ ranks[j] = ranks[i])
  BY <1>1, <1>2 DEF RanksFollowTheOrder
<1>8. \A i \in Candidate : domination_count[i] = Cardinality(Dominators(i) \ finished)
  BY <1>1, <1>2 DEF CountsAreRemainingDominators
<1>9. PICK first \in current_front : front_index = ranks[first]
  BY <1>2
<1>10. /\ front_index \in 0 .. Count
       /\ \A i \in current_front : ranks[i] = front_index
       /\ \A j \in finished : ranks[j] < front_index
  <2>1. \A i \in current_front : ranks[i] = front_index
    BY <1>4, <1>7, <1>9
  <2>2. \A j \in finished : ranks[j] < front_index
    BY <1>4, <1>7, <1>9
  <2> QED BY <1>4, <1>9, <2>1, <2>2
<1> DEFINE released == finished \cup current_front
<1>11. released = {j \in Candidate : domination_count[j] = 0}
  BY <1>4, <1>7
<1>12. ASSUME NEW i \in Candidate
       PROVE  /\ domination_count'[i] = Cardinality(Dominators(i) \ released)
              /\ domination_count'[i] = domination_count[i] - Released(i)
              /\ domination_count'[i] \in Nat /\ domination_count[i] \in Nat
              /\ Released(i) > 0 => Dominators(i) \cap current_front # {}
              /\ Released(i) \in Nat
  <2>1. IsFiniteSet(Dominators(i) \ finished) /\ Dominators(i) \ finished \subseteq Dominators(i)
    <3>1. IsFiniteSet(Dominators(i))
      BY <1>6
    <3> QED BY <3>1, FS_Difference
  <2>2. (Dominators(i) \ finished) \cap current_front = Dominators(i) \cap current_front
    OBVIOUS
  <2>3. (Dominators(i) \ finished) \ current_front = Dominators(i) \ released
    OBVIOUS
  <2>4. Cardinality(Dominators(i) \ released)
          = Cardinality(Dominators(i) \ finished) - Cardinality(Dominators(i) \cap current_front)
    <3> HIDE DEF finished, released
    <3> QED BY <2>1, <2>2, <2>3, FS_Difference
  <2>5. IsFiniteSet(Dominators(i) \ released) /\ IsFiniteSet(Dominators(i) \cap current_front)
    <3>1. IsFiniteSet(Dominators(i))
      BY <1>6
    <3>2. IsFiniteSet(Dominators(i) \ released)
      BY <3>1, FS_Difference
    <3>3. IsFiniteSet(Dominators(i) \cap current_front)
      BY <3>1, FS_Intersection
    <3> QED BY <3>2, <3>3
  <2>6. Cardinality(Dominators(i) \ released) \in Nat /\ Released(i) \in Nat
        /\ Released(i) = Cardinality(Dominators(i) \cap current_front)
    BY <2>5, CardIsNat DEF Released
  <2>7. domination_count'[i] = Cardinality(Dominators(i) \ released)
    BY <1>2, <1>8, <2>4, <2>6
  <2>8. domination_count'[i] = domination_count[i] - Released(i)
    BY <1>2
  <2>9. Released(i) > 0 => Dominators(i) \cap current_front # {}
    BY <2>5, <2>6, FS_EmptySet
  <2>10. domination_count[i] \in Nat
    BY <1>4, <1>5
  <2> QED BY <2>6, <2>7, <2>8, <2>9, <2>10
<1>13. \A i \in Candidate : i \in next_front <=> domination_count'[i] = 0 /\ domination_count[i] > 0
  BY DEF Placed
<1>14. {j \in Candidate : domination_count'[j] = 0} \ next_front = released
  <2>1. ASSUME NEW j \in Candidate
        PROVE  domination_count'[j] = 0 /\ j \notin next_front <=> domination_count[j] = 0
    <3>1. /\ domination_count'[j] = domination_count[j] - Released(j)
          /\ domination_count'[j] \in Nat /\ domination_count[j] \in Nat /\ Released(j) \in Nat
      BY <1>12
    <3> HIDE DEF next_front
    <3> QED BY <1>13, <3>1
  <2> QED BY <1>11, <2>1
<1>15. ASSUME NEW i \in next_front
       PROVE  /\ i \in Candidate
              /\ \A j \in Dominators(i) : j \in released
              /\ \E j \in Dominators(i) : j \in current_front
  <2>1. i \in Candidate
    BY DEF Placed
  <2>2. Dominators(i) \ released = {}
    <3>1. IsFiniteSet(Dominators(i))
      BY <1>6, <2>1
    <3>2. IsFiniteSet(Dominators(i) \ released)
      BY <3>1, FS_Difference
    <3>3. Cardinality(Dominators(i) \ released) = 0
      BY <1>12, <1>13, <2>1
    <3> HIDE DEF released
    <3> QED BY <3>2, <3>3, NoMembers
  <2>3. Released(i) > 0
    <3>1. /\ domination_count'[i] = domination_count[i] - Released(i)
          /\ domination_count'[i] \in Nat /\ domination_count[i] \in Nat /\ Released(i) \in Nat
      BY <1>12, <2>1
    <3>2. domination_count'[i] = 0 /\ domination_count[i] > 0
      BY <1>13, <2>1
    <3> QED BY <3>1, <3>2
  <2> QED BY <1>12, <2>1, <2>2, <2>3
<1>16. \A j \in released : ranks'[j] = ranks[j] /\ ranks[j] \in Nat /\ ranks[j] <= front_index
  <2>1. ASSUME NEW j \in released
        PROVE  ranks'[j] = ranks[j] /\ ranks[j] \in Nat /\ ranks[j] <= front_index
    <3>1. j \in Candidate /\ j \notin next_front
      BY <1>14
    <3>2. ranks'[j] = ranks[j]
      BY <1>2, <3>1
    <3>3. ranks[j] \in Nat
      BY <1>4, <1>5, <3>1
    <3>4. front_index \in Nat
      BY <1>5, <1>10
    <3> HIDE DEF front_index
    <3>5. ranks[j] <= front_index
      <4>1. CASE j \in finished
        BY <1>10, <3>3, <3>4, <4>1
      <4>2. CASE j \in current_front
        BY <1>10, <3>3, <3>4, <4>2
      <4> QED BY <4>1, <4>2
    <3> QED BY <3>2, <3>3, <3>5
  <2> QED BY <2>1
<1>17. SortTypeOK'
  <2>1. domination_count' \in [Candidate -> 0 .. Count]
    <3>1. ASSUME NEW i \in Candidate PROVE domination_count'[i] \in 0 .. Count
      <4>1. domination_count[i] <= Count
        BY <1>4, <1>5
      <4>2. /\ domination_count'[i] = domination_count[i] - Released(i)
            /\ domination_count'[i] \in Nat /\ domination_count[i] \in Nat /\ Released(i) \in Nat
        BY <1>12
      <4> QED BY <1>5, <4>1, <4>2
    <3> QED BY <1>2, <3>1
  <2>2. current_front' \subseteq Candidate
    BY <1>2 DEF Placed
  <2>3. front_index + 1 <= Count \/ next_front = {}
    <3>1. ASSUME NEW i \in next_front PROVE front_index + 1 <= Count
      <4>1. first \in Candidate /\ front_index <= Cardinality(Dominators(first))
        BY <1>4, <1>7, <1>9
      <4> QED BY <1>5, <1>6, <1>10, <4>1
    <3> QED BY <3>1
  <2>4. ranks' \in [Candidate -> 0 .. Count]
    <3> HIDE DEF front_index, next_front
    <3> QED BY <1>2, <1>4, <1>5, <1>10, <2>3
  <2>5. to_crowd' \subseteq Fronts' \X Objective
    BY <1>1, <1>2 DEF AnchorsFollowTheFronts
  <2> QED BY <1>1, <1>2, <1>3, <2>1, <2>2, <2>4, <2>5 DEF SortTypeOK
<1>18. FlagsFollowThePairs'
  BY <1>1, <1>2, <1>3 DEF FlagsFollowThePairs
<1>19. CountsAreRemainingDominators'
  BY <1>2, <1>3, <1>12, <1>14 DEF CountsAreRemainingDominators
<1>20. RanksFollowTheOrder'
  <2>1. \A i \in next_front : domination_count'[i] = 0
    BY <1>13, <1>15
  <2>2. ASSUME NEW i \in next_front
        PROVE  /\ ranks'[i] = front_index + 1
               /\ ranks'[i] <= Cardinality(Dominators(i))
               /\ domination_count'[i] = 0
               /\ \A j \in Dominators(i) : ranks'[j] < ranks'[i]
               /\ \E j \in Dominators(i) : ranks'[j] = ranks'[i] - 1
    <3>1. ranks'[i] = front_index + 1 /\ i \in Candidate
      BY <1>2, <1>15
    <3>2. PICK j \in Dominators(i) : j \in current_front
      BY <1>15
    <3>3. ranks'[j] = front_index /\ ranks[j] = front_index /\ j \in Candidate
      BY <1>4, <1>10, <1>16, <3>2
    <3>4. Cardinality(Dominators(j)) < Cardinality(Dominators(i))
      BY <1>4, <3>1, <3>2, FewerDominators
    <3>5. ranks[j] <= Cardinality(Dominators(j))
      BY <1>7, <3>3
    <3>6. ranks'[i] <= Cardinality(Dominators(i))
      <4> HIDE DEF front_index
      <4> QED BY <1>6, <1>10, <3>1, <3>3, <3>4, <3>5
    <3>7. \A k \in Dominators(i) : ranks'[k] < ranks'[i]
      <4> SUFFICES ASSUME NEW k \in Dominators(i) PROVE ranks'[k] < ranks'[i]
        OBVIOUS
      <4>1. k \in released /\ k \in Candidate
        BY <1>6, <1>15, <3>1
      <4>2. ranks'[k] = ranks[k] /\ ranks[k] <= front_index /\ ranks[k] \in Nat
        BY <1>16, <4>1
      <4> HIDE DEF front_index
      <4> QED BY <1>10, <3>1, <4>2
    <3>8. ranks'[j] = ranks'[i] - 1
      <4> HIDE DEF front_index
      <4> QED BY <1>10, <3>1, <3>3
    <3> QED BY <2>1, <3>1, <3>2, <3>6, <3>7, <3>8
  <2>3. ASSUME NEW i \in Candidate, i \notin next_front
        PROVE  /\ ranks'[i] = ranks[i]
               /\ domination_count'[i] = 0 => domination_count[i] = 0
               /\ domination_count'[i] > 0 => domination_count[i] > 0
    <3>1. ranks'[i] = ranks[i]
      BY <1>2, <2>3
    <3>2. /\ domination_count'[i] = domination_count[i] - Released(i)
          /\ domination_count'[i] \in Nat /\ domination_count[i] \in Nat /\ Released(i) \in Nat
      BY <1>12
    <3> HIDE DEF next_front
    <3> QED BY <1>13, <2>3, <3>1, <3>2
  <2>4. ASSUME NEW i \in Candidate, domination_count[i] = 0
        PROVE  \A j \in Dominators(i) : j \in released
    <3>1. Dominators(i) \ finished = {}
      <4>1. IsFiniteSet(Dominators(i) \ finished) /\ Cardinality(Dominators(i) \ finished) = 0
        BY <1>6, <1>8, <2>4, FS_Difference
      <4> HIDE DEF finished
      <4> QED BY <4>1, NoMembers
    <3> QED BY <3>1
  <2>5. ASSUME NEW i \in Candidate, i \notin next_front
        PROVE  /\ ranks'[i] <= Cardinality(Dominators(i))
               /\ domination_count'[i] > 0 => ranks'[i] = 0
               /\ domination_count'[i] = 0 => \A j \in Dominators(i) : ranks'[j] < ranks'[i]
               /\ ranks'[i] > 0 => \E j \in Dominators(i) : ranks'[j] = ranks'[i] - 1
    <3>1. domination_count[i] > 0 => ranks'[i] = 0
      BY <1>7, <2>3, <2>5
    <3>2. domination_count[i] = 0 => \A j \in Dominators(i) : ranks'[j] = ranks[j]
      BY <1>16, <2>4
    <3>3. ranks'[i] <= Cardinality(Dominators(i))
      BY <1>7, <2>3, <2>5
    <3>4. domination_count'[i] > 0 => ranks'[i] = 0
      BY <1>7, <2>3, <2>5
    <3>5. domination_count'[i] = 0 => \A j \in Dominators(i) : ranks'[j] < ranks'[i]
      BY <1>7, <2>3, <2>5, <3>2
    <3>6. ranks'[i] > 0 => \E j \in Dominators(i) : ranks'[j] = ranks'[i] - 1
      <4>1. ranks'[i] > 0 => domination_count[i] = 0
        BY <1>4, <2>5, <3>1
      <4> QED BY <1>7, <2>3, <2>5, <3>2, <4>1
    <3> QED BY <3>3, <3>4, <3>5, <3>6
  <2>6. ASSUME NEW i \in next_front, NEW j \in Candidate, domination_count'[j] = 0
        PROVE  ranks'[j] < ranks'[i] \/ (j \in next_front /\ ranks'[j] = ranks'[i])
    <3>1. CASE j \in next_front
      BY <2>2, <3>1
    <3>2. CASE j \notin next_front
      <4>1. j \in released
        BY <1>14, <2>6, <3>2
      <4>2. ranks'[j] = ranks[j] /\ ranks[j] <= front_index /\ ranks[j] \in Nat
        BY <1>16, <4>1
      <4>3. ranks'[i] = front_index + 1
        BY <2>2
      <4> HIDE DEF front_index
      <4> QED BY <1>10, <4>2, <4>3
    <3> QED BY <3>1, <3>2
  <2>7. \A i \in Candidate :
              /\ ranks'[i] <= Cardinality(Dominators(i))
              /\ domination_count'[i] > 0 => ranks'[i] = 0
              /\ domination_count'[i] = 0 => \A j \in Dominators(i) : ranks'[j] < ranks'[i]
              /\ ranks'[i] > 0 => \E j \in Dominators(i) : ranks'[j] = ranks'[i] - 1
    <3> SUFFICES ASSUME NEW i \in Candidate
                 PROVE  /\ ranks'[i] <= Cardinality(Dominators(i))
                        /\ domination_count'[i] > 0 => ranks'[i] = 0
                        /\ domination_count'[i] = 0 => \A j \in Dominators(i) : ranks'[j] < ranks'[i]
                        /\ ranks'[i] > 0 => \E j \in Dominators(i) : ranks'[j] = ranks'[i] - 1
      OBVIOUS
    <3> QED BY <2>2, <2>5
  <2> HIDE DEF next_front
  <2> QED BY <1>2, <1>3, <2>1, <2>6, <2>7 DEF RanksFollowTheOrder
<1>21. AnchorsFollowTheFronts'
  BY <1>1, <1>2 DEF AnchorsFollowTheFronts
<1> QED BY <1>17, <1>18, <1>19, <1>20, <1>21 DEF SortInv

-----------------------------------------------------------------------------
(* The crowding *)

LEMMA DemoteKeeps == SortInv /\ Demote => SortInv'
<1> SUFFICES ASSUME SortInv, Demote PROVE SortInv'
  OBVIOUS
<1>1. /\ SortTypeOK /\ FlagsFollowThePairs /\ RanksFollowTheOrder /\ AnchorsFollowTheFronts
  BY DEF SortInv
<1>2. /\ sort_stage = "peel" /\ sort_stage' = "crowd"
      /\ UNCHANGED <<objectives, proved, pairs, demoted, domination_count, current_front, anchored>>
      /\ ranks' = [i \in Candidate |-> ranks[i] + IF i \in demoted THEN 1 ELSE 0]
      /\ to_crowd' = (0 .. Max({ranks'[i] : i \in Candidate})) \X Objective
  BY DEF Demote
<1>3. MemberPairs' = MemberPairs
      /\ (\A i \in Candidate : StatusRealizable(i)' <=> StatusRealizable(i))
      /\ (\A i, j : proved_stronger(i, j)' <=> proved_stronger(i, j))
  BY <1>2, OrderStays
<1>4. objectives \in [Candidate -> [Objective -> Nat]] /\ ranks \in [Candidate -> 0 .. Count]
  BY <1>1 DEF SortTypeOK
<1>5. \A i \in Candidate : ranks[i] <= Cardinality(Dominators(i))
  BY <1>1, <1>2 DEF RanksFollowTheOrder
<1>6. ASSUME NEW i \in Candidate PROVE ranks'[i] \in 0 .. Count
  <2>1. /\ Count \in Nat /\ Cardinality(Dominators(i)) \in Nat
        /\ Cardinality(Dominators(i)) < Count /\ ranks[i] \in Nat
    BY <1>4, SortAssumption, DominatorsFinite, NotAllDominate
  <2>2. ranks[i] <= Cardinality(Dominators(i))
    BY <1>5
  <2>3. ranks'[i] \in {ranks[i], ranks[i] + 1}
    BY <1>2, <2>1
  <2> QED BY <2>1, <2>2, <2>3
<1>7. to_crowd' = Fronts' \X Objective
  BY <1>2 DEF Fronts
<1>8. SortTypeOK'
  <2>1. ranks' \in [Candidate -> 0 .. Count]
    BY <1>2, <1>6
  <2> QED BY <1>1, <1>2, <1>3, <1>7, <2>1 DEF SortTypeOK
<1>9. FlagsFollowThePairs'
  BY <1>1, <1>2, <1>3 DEF FlagsFollowThePairs
<1>10. AnchorsFollowTheFronts'
  <2>1. anchored' = {}
    BY <1>1, <1>2 DEF AnchorsFollowTheFronts
  <2>2. \A r \in Fronts', obj \in Objective : <<r, obj>> \in to_crowd'
    BY <1>7
  <2> QED BY <1>2, <2>1, <2>2 DEF AnchorsFollowTheFronts
<1> QED
  BY <1>2, <1>8, <1>9, <1>10 DEF SortInv, CountsAreRemainingDominators, RanksFollowTheOrder

LEMMA CrowdKeeps == SortInv /\ Crowd => SortInv'
<1> SUFFICES ASSUME SortInv, Crowd PROVE SortInv'
  OBVIOUS
<1>1. /\ SortTypeOK /\ FlagsFollowThePairs /\ AnchorsFollowTheFronts
  BY DEF SortInv
<1>2. PICK r \in Fronts, obj \in Objective :
         /\ <<r, obj>> \in to_crowd
         /\ to_crowd' = to_crowd \ {<<r, obj>>}
         /\ \/ /\ Front(r) # {}
               /\ obj \in Spread(Front(r))
               /\ \E lo \in Worst(Front(r), obj), hi \in Best(Front(r), obj) :
                    anchored' = anchored \cup {lo, hi}
               /\ UNCHANGED sort_stage
            \/ /\ Front(r) # {}
               /\ obj \notin Spread(Front(r))
               /\ UNCHANGED <<sort_stage, anchored>>
            \/ /\ Front(r) = {}
               /\ sort_stage' = "undefined"
               /\ UNCHANGED anchored
  BY DEF Crowd
<1>3. /\ sort_stage = "crowd" /\ sort_stage' \in {"crowd", "undefined"}
      /\ UNCHANGED <<objectives, proved, pairs, demoted, domination_count, ranks, current_front>>
  <2>1. /\ sort_stage = "crowd"
        /\ UNCHANGED <<objectives, proved, pairs, demoted, domination_count, ranks, current_front>>
    BY DEF Crowd
  <2> QED BY <1>2, <2>1
<1>4. MemberPairs' = MemberPairs
      /\ (\A i \in Candidate : StatusRealizable(i)' <=> StatusRealizable(i))
      /\ (\A i, j : proved_stronger(i, j)' <=> proved_stronger(i, j))
  BY <1>3, OrderStays
<1>5. Fronts' = Fronts
  BY <1>3 DEF Fronts
<1> DEFINE Ends == {i \in Candidate : \E o \in Spread(Front(ranks[i])) :
                        i \in Worst(Front(ranks[i]), o) \cup Best(Front(ranks[i]), o)}
           Measured(q, o) == \/ Flat(Front(q), o)
                             \/ /\ anchored \cap Worst(Front(q), o) # {}
                                /\ anchored \cap Best(Front(q), o) # {}
<1>6. anchored \subseteq Ends
      /\ \A q \in Fronts, o \in Objective : <<q, o>> \in to_crowd \/ Measured(q, o)
  <2>1. anchored \subseteq Ends
    BY <1>1 DEF SortTypeOK, AnchorsFollowTheFronts
  <2>2. \A q \in Fronts, o \in Objective : <<q, o>> \in to_crowd \/ Measured(q, o)
    BY <1>1, <1>3 DEF AnchorsFollowTheFronts
  <2> QED BY <2>1, <2>2
<1>7. \A i \in Front(r) : i \in Candidate /\ ranks[i] = r
  BY DEF Front
<1>8. /\ anchored \subseteq anchored' /\ anchored' \subseteq Ends
      /\ obj \in Spread(Front(r)) /\ Front(r) # {} =>
           anchored' \cap Worst(Front(r), obj) # {} /\ anchored' \cap Best(Front(r), obj) # {}
  <2>1. CASE /\ obj \in Spread(Front(r))
             /\ \E lo \in Worst(Front(r), obj), hi \in Best(Front(r), obj) :
                    anchored' = anchored \cup {lo, hi}
    <3>1. PICK lo \in Worst(Front(r), obj), hi \in Best(Front(r), obj) :
                    anchored' = anchored \cup {lo, hi}
      BY <2>1
    <3>2. lo \in Front(r) /\ hi \in Front(r)
      BY <3>1 DEF Worst, Best
    <3>3. lo \in Ends /\ hi \in Ends
      BY <1>7, <2>1, <3>1, <3>2
    <3> QED BY <1>6, <3>1, <3>3
  <2>2. CASE obj \notin Spread(Front(r)) /\ UNCHANGED anchored
    BY <1>6, <2>2
  <2>3. CASE Front(r) = {} /\ UNCHANGED anchored
    BY <1>6, <2>3
  <2> QED BY <1>2, <2>1, <2>2, <2>3
<1>9. AnchorsFollowTheFronts'
  <2>1. ASSUME NEW q \in Fronts, NEW o \in Objective, <<q, o>> \notin to_crowd', sort_stage' = "crowd"
        PROVE  \/ Flat(Front(q), o)
               \/ /\ anchored' \cap Worst(Front(q), o) # {}
                  /\ anchored' \cap Best(Front(q), o) # {}
    <3>1. CASE <<q, o>> = <<r, obj>>
      <4>1. q = r /\ o = obj /\ Front(r) # {}
        BY <1>2, <2>1, <3>1
      <4> QED BY <1>8, <4>1 DEF Spread
    <3>2. CASE <<q, o>> # <<r, obj>>
      <4>1. <<q, o>> \notin to_crowd
        BY <1>2, <2>1, <3>2
      <4>2. Measured(q, o)
        BY <1>6, <4>1
      <4> QED BY <1>8, <4>2
    <3> QED BY <3>1, <3>2
  <2>2. \A i \in anchored' :
          \E o \in Spread(Front(ranks[i])) :
             i \in Worst(Front(ranks[i]), o) \cup Best(Front(ranks[i]), o)
    BY <1>8
  <2>3. \A i \in anchored' :
          \E o \in Spread(Front(ranks[i]))' :
             i \in (Worst(Front(ranks[i]), o) \cup Best(Front(ranks[i]), o))'
    <3> SUFFICES ASSUME NEW i \in anchored'
                 PROVE  \E o \in Spread(Front(ranks[i]))' :
                          i \in (Worst(Front(ranks[i]), o) \cup Best(Front(ranks[i]), o))'
      OBVIOUS
    <3>1. ranks'[i] = ranks[i]
      BY <1>3
    <3>2. Front(ranks[i])' = Front(ranks[i])
      BY <1>3 DEF Front
    <3>3. Spread(Front(ranks[i]))' = Spread(Front(ranks[i]))
      BY <1>3, <3>2 DEF Spread, Flat
    <3>4. \A o : /\ Worst(Front(ranks[i]), o)' = Worst(Front(ranks[i]), o)
                 /\ Best(Front(ranks[i]), o)' = Best(Front(ranks[i]), o)
      BY <1>3, <3>2 DEF Worst, Best
    <3> QED BY <2>2, <3>3, <3>4
  <2>4. ASSUME sort_stage' = "crowd", NEW q \in Fronts, NEW o \in Objective
        PROVE  (\/ <<q, o>> \in to_crowd
                \/ Flat(Front(q), o)
                \/ /\ anchored \cap Worst(Front(q), o) # {}
                   /\ anchored \cap Best(Front(q), o) # {})'
    <3>1. Front(q)' = Front(q)
      BY <1>3 DEF Front
    <3>2. Flat(Front(q), o)' <=> Flat(Front(q), o)
      BY <1>3, <3>1 DEF Flat
    <3>3. Worst(Front(q), o)' = Worst(Front(q), o) /\ Best(Front(q), o)' = Best(Front(q), o)
      BY <1>3, <3>1 DEF Worst, Best
    <3> QED BY <2>1, <2>4, <3>2, <3>3
  <2> QED BY <1>3, <1>5, <2>3, <2>4 DEF AnchorsFollowTheFronts
<1>10. SortTypeOK'
  <2>1. anchored' \subseteq Candidate
    BY <1>8
  <2>2. to_crowd' \subseteq Fronts \X Objective
    BY <1>1, <1>2 DEF SortTypeOK
  <2> QED BY <1>1, <1>3, <1>4, <1>5, <2>1, <2>2 DEF SortTypeOK
<1>11. FlagsFollowThePairs'
  BY <1>1, <1>3, <1>4 DEF FlagsFollowThePairs
<1> QED
  BY <1>3, <1>9, <1>10, <1>11 DEF SortInv, CountsAreRemainingDominators, RanksFollowTheOrder

LEMMA SortedKeeps == SortInv /\ Sorted => SortInv'
<1> SUFFICES ASSUME SortInv, Sorted PROVE SortInv'
  OBVIOUS
<1>1. /\ SortTypeOK /\ FlagsFollowThePairs /\ AnchorsFollowTheFronts
  BY DEF SortInv
<1>2. /\ sort_stage = "crowd" /\ sort_stage' = "done" /\ to_crowd = {}
      /\ UNCHANGED <<objectives, proved, pairs, demoted, domination_count, ranks,
                     current_front, to_crowd, anchored>>
  BY DEF Sorted
<1>3. MemberPairs' = MemberPairs
      /\ (\A i \in Candidate : StatusRealizable(i)' <=> StatusRealizable(i))
      /\ (\A i, j : proved_stronger(i, j)' <=> proved_stronger(i, j))
  BY <1>2, OrderStays
<1>4. Fronts' = Fronts
  BY <1>2 DEF Fronts
<1>5. SortTypeOK'
  BY <1>1, <1>2, <1>3, <1>4 DEF SortTypeOK
<1>6. FlagsFollowThePairs'
  BY <1>1, <1>2, <1>3 DEF FlagsFollowThePairs
<1>7. AnchorsFollowTheFronts'
  BY <1>1, <1>2 DEF AnchorsFollowTheFronts, Fronts, Front, Spread, Flat, Worst, Best
<1> QED
  BY <1>2, <1>5, <1>6, <1>7 DEF SortInv, CountsAreRemainingDominators, RanksFollowTheOrder

LEMMA SortStutters == SortInv /\ UNCHANGED sortVars => SortInv'
<1> SUFFICES ASSUME SortInv, UNCHANGED sortVars PROVE SortInv'
  OBVIOUS
<1>1. UNCHANGED <<sort_stage, objectives, proved, pairs, demoted, domination_count, ranks,
                  current_front, to_crowd, anchored>>
  BY DEF sortVars
<1>2. MemberPairs' = MemberPairs
      /\ (\A i \in Candidate : StatusRealizable(i)' <=> StatusRealizable(i))
      /\ (\A i : Dominators(i)' = Dominators(i))
      /\ (\A i, j : proved_stronger(i, j)' <=> proved_stronger(i, j))
  BY <1>1, OrderStays
<1>3. Fronts' = Fronts
  BY <1>1 DEF Fronts
<1>4. SortTypeOK'
  BY <1>1, <1>2, <1>3 DEF SortInv, SortTypeOK
<1>5. FlagsFollowThePairs'
  BY <1>1, <1>2 DEF SortInv, FlagsFollowThePairs
<1>6. CountsAreRemainingDominators'
  BY <1>1, <1>2 DEF SortInv, CountsAreRemainingDominators
<1>7. RanksFollowTheOrder'
  BY <1>1, <1>2 DEF SortInv, RanksFollowTheOrder
<1>8. AnchorsFollowTheFronts'
  BY <1>1 DEF SortInv, AnchorsFollowTheFronts, Fronts, Front, Spread, Flat, Worst, Best
<1> QED BY <1>4, <1>5, <1>6, <1>7, <1>8 DEF SortInv

-----------------------------------------------------------------------------
(* What the inductive part amounts to *)

\* With every pair settled the flags are those of the set.
LEMMA FlagsOfTheSet ==
    ASSUME FlagsFollowThePairs, pairs = {}, MaximalityDemotion
    PROVE  demoted = {i \in Candidate : StatusRealizable(i) /\
                        \E j \in Candidate : StatusRealizable(j) /\ proved_stronger(j, i)}
<1>1. demoted = {i \in Candidate :
                    \E p \in MemberPairs :
                        i \in {p[1], p[2]} /\ \E j \in {p[1], p[2]} : proved_stronger(j, i)}
  BY DEF FlagsFollowThePairs
<1>2. ASSUME NEW i \in demoted
      PROVE  StatusRealizable(i) /\ \E j \in Candidate : StatusRealizable(j) /\ proved_stronger(j, i)
  BY <1>1, <1>2 DEF MemberPairs
<1>3. ASSUME NEW i \in Candidate, NEW j \in Candidate,
             StatusRealizable(i), StatusRealizable(j), proved_stronger(j, i)
      PROVE  i \in demoted
  <2>1. i # j /\ i \in Nat /\ j \in Nat
    BY <1>3, SortAssumption DEF proved_stronger, Candidate
  <2> DEFINE p == IF i < j THEN <<i, j>> ELSE <<j, i>>
  <2>2. p \in MemberPairs
    BY <1>3, <2>1 DEF MemberPairs
  <2>3. i \in {p[1], p[2]} /\ j \in {p[1], p[2]}
    OBVIOUS
  <2> QED BY <1>1, <1>3, <2>2, <2>3
<1>4. demoted \subseteq Candidate
  BY <1>1
<1> QED BY <1>2, <1>3, <1>4

\* The ends of a spread objective that are anchored tell the anchored apart.
LEMMA EndsAreApart ==
    ASSUME SortTypeOK, AnchorsFollowTheFronts, sort_stage = "done",
           NEW r \in Fronts, NEW obj \in Objective, ~Flat(Front(r), obj)
    PROVE  ~Flat(anchored \cap Front(r), obj)
<1>1. \A i \in Front(r) : objectives[i][obj] \in Nat
  BY DEF SortTypeOK, Front
<1>2. /\ anchored \cap Worst(Front(r), obj) # {}
      /\ anchored \cap Best(Front(r), obj) # {}
  BY DEF AnchorsFollowTheFronts
<1>3. PICK lo \in anchored : lo \in Worst(Front(r), obj)
  BY <1>2
<1>4. PICK hi \in anchored : hi \in Best(Front(r), obj)
  BY <1>2
<1>5. /\ lo \in Front(r) /\ hi \in Front(r)
      /\ \A j \in Front(r) : objectives[lo][obj] <= objectives[j][obj]
      /\ \A j \in Front(r) : objectives[hi][obj] >= objectives[j][obj]
  BY <1>3, <1>4 DEF Worst, Best
<1>6. PICK i \in Front(r), j \in Front(r) : objectives[i][obj] # objectives[j][obj]
  BY DEF Flat
<1>7. objectives[lo][obj] # objectives[hi][obj]
  BY <1>1, <1>5, <1>6
<1> QED BY <1>3, <1>4, <1>5, <1>7 DEF Flat

LEMMA SortInvIsEnough == SortInv => FrontsAreExact
<1> SUFFICES ASSUME SortInv PROVE FrontsAreExact
  OBVIOUS
<1>1. /\ SortTypeOK /\ FlagsFollowThePairs /\ CountsAreRemainingDominators
      /\ RanksFollowTheOrder /\ AnchorsFollowTheFronts
  BY DEF SortInv
<1>2. FlagsFollowTheSet
  <2>1. ASSUME sort_stage # "demote", MaximalityDemotion
        PROVE  demoted = {i \in Candidate : StatusRealizable(i) /\
                            \E j \in Candidate : StatusRealizable(j) /\ proved_stronger(j, i)}
    <3>1. pairs = {}
      BY <1>1, <2>1 DEF FlagsFollowThePairs
    <3> QED BY <1>1, <2>1, <3>1, FlagsOfTheSet
  <2> QED BY <2>1 DEF FlagsFollowTheSet
<1>3. RanksAreFronts
  <2>1. ASSUME sort_stage = "peel", current_front = {}
        PROVE  \A i \in Candidate : domination_count[i] = 0
    BY <1>1, <2>1, EveryOneIsPlaced
  <2> QED BY <1>1, <2>1 DEF RanksAreFronts, RanksFollowTheOrder
<1>4. AnchorsAreExtremes
  <2>1. ASSUME sort_stage = "done", NEW i \in anchored
        PROVE  \E obj \in Objective :
                 /\ ~Flat(Front(ranks[i]), obj)
                 /\ i \in Worst(Front(ranks[i]), obj) \cup Best(Front(ranks[i]), obj)
    BY <1>1, <2>1 DEF AnchorsFollowTheFronts, Spread
  <2>2. ASSUME sort_stage = "done", NEW r \in Fronts, NEW obj \in Objective, ~Flat(Front(r), obj)
        PROVE  ~Flat(anchored \cap Front(r), obj)
    BY <1>1, <2>2, EndsAreApart
  <2> QED BY <2>1, <2>2 DEF AnchorsAreExtremes
<1> QED BY <1>1, <1>2, <1>3, <1>4 DEF FrontsAreExact

\* Whatever the population, its objectives and what the rules prove: the flags
\* are those of the set of candidates, the counts are the dominators left, the
\* ranks are non-domination fronts, and crowding anchors the ends of every
\* objective that tells a front's members apart, and nothing else.
THEOREM FrontsExact == SortSpec => []FrontsAreExact
<1>1. SortInit => SortInv
  BY SortStarts
<1>2. SortInv /\ [SortNext]_sortVars => SortInv'
  <2> SUFFICES ASSUME SortInv, [SortNext]_sortVars PROVE SortInv'
    OBVIOUS
  <2>1. CASE SettlePair
    BY <2>1, SettlePairKeeps
  <2>2. CASE CountDominators
    BY <2>2, CountDominatorsKeeps
  <2>3. CASE Peel
    BY <2>3, PeelKeeps
  <2>4. CASE Demote
    BY <2>4, DemoteKeeps
  <2>5. CASE Crowd
    BY <2>5, CrowdKeeps
  <2>6. CASE Sorted
    BY <2>6, SortedKeeps
  <2>7. CASE UNCHANGED sortVars
    BY <2>7, SortStutters
  <2> QED BY <2>1, <2>2, <2>3, <2>4, <2>5, <2>6, <2>7 DEF SortNext
<1>3. SortInv => FrontsAreExact
  BY SortInvIsEnough
<1> QED BY <1>1, <1>2, <1>3, PTL DEF SortSpec

-----------------------------------------------------------------------------
(* score_population: slots in ascending order *)

Below(S, i) == {j \in S : j < i}

LEMMA BelowFinite ==
    ASSUME NEW S, IsFiniteSet(S), NEW i
    PROVE  IsFiniteSet(Below(S, i)) /\ Cardinality(Below(S, i)) \in Nat
<1>1. Below(S, i) \in SUBSET S
  BY DEF Below
<1> HIDE DEF Below
<1>2. IsFiniteSet(Below(S, i))
  BY <1>1, FS_Subset
<1> QED BY <1>2, CardIsNat

\* One place up in a set is one more below.
LEMMA BelowGrows ==
    ASSUME NEW S \in SUBSET Nat, IsFiniteSet(S), NEW i \in S, NEW j \in S, i < j
    PROVE  Cardinality(Below(S, i)) < Cardinality(Below(S, j))
<1>1. Below(S, i) \cup {i} \in SUBSET Below(S, j) /\ i \notin Below(S, i)
  <2>1. \A k \in S : k \in Nat
    OBVIOUS
  <2>2. \A k \in S : k < i => k < j
    BY <2>1
  <2>3. ~(i < i)
    BY <2>1
  <2>4. Below(S, i) \subseteq Below(S, j)
    BY <2>2 DEF Below
  <2>5. i \in Below(S, j) /\ i \notin Below(S, i)
    BY <2>3 DEF Below
  <2> QED BY <2>4, <2>5
<1>2. /\ IsFiniteSet(Below(S, i)) /\ Cardinality(Below(S, i)) \in Nat
      /\ IsFiniteSet(Below(S, j)) /\ Cardinality(Below(S, j)) \in Nat
  BY BelowFinite
<1>3. Cardinality(Below(S, i) \cup {i}) = Cardinality(Below(S, i)) + 1
  BY <1>1, <1>2, FS_AddElement
<1>4. Cardinality(Below(S, i) \cup {i}) <= Cardinality(Below(S, j))
  BY <1>1, <1>2, FS_Subset
<1> QED BY <1>2, <1>3, <1>4

\* Every place has a member.
LEMMA EveryPlaceIsTaken ==
    ASSUME NEW S \in SUBSET Nat, IsFiniteSet(S), NEW k \in 1 .. Cardinality(S)
    PROVE  \E i \in S : Cardinality(Below(S, i)) = k - 1
<1> DEFINE free == {n \in 1 .. Cardinality(S) : \A i \in S : Cardinality(Below(S, i)) # n - 1}
<1> SUFFICES ASSUME free # {} PROVE FALSE
  OBVIOUS
<1>1. Cardinality(S) \in Nat
  BY CardIsNat
<1>2. free \in SUBSET Nat
  BY <1>1
<1>3. PICK first \in free : \A n \in free : first <= n
  <2> HIDE DEF free
  <2> QED BY <1>2, LeastOf
<1>4. first \in Nat /\ first >= 1 /\ first <= Cardinality(S)
  BY <1>1, <1>3
<1>5. CASE first = 1
  <2>1. S # {}
    BY <1>1, <1>4, <1>5, FS_EmptySet
  <2>2. PICK i \in S : \A j \in S : i <= j
    BY <2>1, LeastOf
  <2>3. Below(S, i) = {}
    <3>1. \A j \in S : j \in Nat
      OBVIOUS
    <3>2. \A j \in S : ~(j < i)
      BY <2>2, <3>1
    <3> QED BY <3>2 DEF Below
  <2>4. Cardinality(Below(S, i)) = 0
    BY <2>3, FS_EmptySet
  <2> QED BY <1>3, <1>5, <2>2, <2>4
<1>6. CASE first # 1
  <2>1. first - 1 \in 1 .. Cardinality(S) /\ first - 1 \notin free
    BY <1>1, <1>3, <1>4, <1>6
  <2>2. PICK i \in S : Cardinality(Below(S, i)) = first - 2
    BY <1>4, <2>1
  <2> DEFINE upto == Below(S, i) \cup {i}
  <2>3. /\ IsFiniteSet(Below(S, i)) /\ i \notin Below(S, i)
    BY BelowFinite DEF Below
  <2>4. Cardinality(upto) = first - 1
    <3>1. Cardinality(upto) = Cardinality(Below(S, i)) + 1
      BY <2>3, FS_AddElement
    <3> QED BY <1>4, <2>2, <3>1
  <2>5. upto # S /\ upto \subseteq S
    BY <1>1, <1>4, <2>4 DEF Below
  <2>6. PICK m \in S \ upto : \A j \in S \ upto : m <= j
    <3>1. S \ upto \in SUBSET Nat /\ S \ upto # {}
      BY <2>5
    <3> HIDE DEF upto
    <3> QED BY <3>1, LeastOf
  <2>7. Below(S, m) = upto
    <3>1. \A j \in S : j \in Nat
      OBVIOUS
    <3>2. \A j \in S : j \in upto <=> j <= i
      BY <2>2, <3>1 DEF Below
    <3>3. m \in S /\ m \in Nat /\ i < m
      BY <2>2, <2>6, <3>1, <3>2
    <3>4. \A j \in S : j <= i => j < m
      BY <2>2, <3>1, <3>3
    <3>5. \A j \in S : j < m => j \in upto
      BY <2>6, <3>1, <3>3
    <3> HIDE DEF upto
    <3>6. \A j \in S : j \in upto <=> j < m
      BY <3>2, <3>4, <3>5
    <3>7. upto \subseteq S
      BY <2>5
    <3> QED BY <3>6, <3>7 DEF Below
  <2> QED BY <1>3, <1>4, <2>4, <2>6, <2>7
<1> QED BY <1>5, <1>6

LEMMA InOrderIs ==
    ASSUME NEW S \in SUBSET Nat, IsFiniteSet(S)
    PROVE  /\ Cardinality(S) \in Nat
           /\ InOrder(S) \in [1 .. Cardinality(S) -> S]
           /\ \A k, l \in 1 .. Cardinality(S) : k < l => InOrder(S)[k] < InOrder(S)[l]
           /\ \A i \in S : \E k \in 1 .. Cardinality(S) : InOrder(S)[k] = i
<1>1. Cardinality(S) \in Nat
  BY CardIsNat
<1>2. InOrder(S) = [k \in 1 .. Cardinality(S) |->
                      CHOOSE i \in S : Cardinality(Below(S, i)) = k - 1]
  BY DEF InOrder, Below
<1>3. ASSUME NEW k \in 1 .. Cardinality(S)
      PROVE  InOrder(S)[k] \in S /\ Cardinality(Below(S, InOrder(S)[k])) = k - 1
  <2>1. \E i \in S : Cardinality(Below(S, i)) = k - 1
    BY EveryPlaceIsTaken
  <2>2. InOrder(S)[k] = CHOOSE i \in S : Cardinality(Below(S, i)) = k - 1
    BY <1>2
  <2> QED BY <2>1, <2>2
<1>4. ASSUME NEW k \in 1 .. Cardinality(S), NEW l \in 1 .. Cardinality(S), k < l
      PROVE  InOrder(S)[k] < InOrder(S)[l]
  <2>1. InOrder(S)[k] \in S /\ InOrder(S)[l] \in S
        /\ Cardinality(Below(S, InOrder(S)[k])) = k - 1
        /\ Cardinality(Below(S, InOrder(S)[l])) = l - 1
    BY <1>3
  <2>2. k \in Nat /\ l \in Nat
    BY <1>1
  <2>3. InOrder(S)[k] # InOrder(S)[l]
    BY <1>4, <2>1, <2>2
  <2>4. ~(InOrder(S)[l] < InOrder(S)[k])
    <3>1. l - 1 < k - 1 => FALSE
      BY <1>4, <2>2
    <3> QED BY <2>1, <2>2, <3>1, BelowGrows
  <2>5. InOrder(S)[k] \in Nat /\ InOrder(S)[l] \in Nat
    BY <2>1
  <2> QED BY <2>3, <2>4, <2>5
<1>5. ASSUME NEW i \in S PROVE \E k \in 1 .. Cardinality(S) : InOrder(S)[k] = i
  <2> DEFINE k == Cardinality(Below(S, i)) + 1
  <2>1. IsFiniteSet(Below(S, i)) /\ Cardinality(Below(S, i)) \in Nat
    BY BelowFinite
  <2>2. Below(S, i) \in SUBSET S /\ Below(S, i) # S
    BY DEF Below
  <2>3. Cardinality(Below(S, i)) <= Cardinality(S)
        /\ (Cardinality(S) = Cardinality(Below(S, i)) => S = Below(S, i))
    BY <2>2, FS_Subset
  <2>4. k \in 1 .. Cardinality(S)
    BY <1>1, <2>1, <2>2, <2>3
  <2>5. InOrder(S)[k] \in S /\ Cardinality(Below(S, InOrder(S)[k])) = Cardinality(Below(S, i))
    BY <1>3, <2>1, <2>4
  <2>6. ~(InOrder(S)[k] < i) /\ ~(i < InOrder(S)[k])
    <3>1. ASSUME NEW j \in S, Cardinality(Below(S, j)) = Cardinality(Below(S, i))
          PROVE  ~(j < i) /\ ~(i < j)
      <4>1. ~(Cardinality(Below(S, i)) < Cardinality(Below(S, i)))
        BY <2>1
      <4> QED BY <3>1, <4>1, BelowGrows
    <3> HIDE DEF k
    <3> QED BY <2>5, <3>1
  <2>7. InOrder(S)[k] = i
    <3> HIDE DEF k
    <3>1. InOrder(S)[k] \in Nat /\ i \in Nat
      BY <2>5
    <3> QED BY <2>6, <3>1
  <2> QED BY <2>4, <2>7
<1>6. InOrder(S) \in [1 .. Cardinality(S) -> S]
  <2>1. \A k \in 1 .. Cardinality(S) : InOrder(S)[k] \in S
    BY <1>3
  <2> QED BY <1>2, <2>1
<1> QED BY <1>1, <1>4, <1>5, <1>6

-----------------------------------------------------------------------------
(* score_population: what the parts of the invariant give *)

\* The inductive part of ScoringIsSerial.
ScoreInv ==
    /\ ScoreTypeOK /\ PlansAreDistinct /\ PartsAreFiled /\ SlotsAreSettled
    /\ ResultIsSerial /\ CachedScoresAreWhole /\ NoPartRunsTwice
    /\ DropsAreCountedBySlot

LEMMA PartsFinite ==
    ASSUME NEW s \in Spec_
    PROVE  IsFiniteSet(PartsOf(s)) /\ PartsOf(s) \subseteq Address
<1> DEFINE objectives_of == DOMAIN Parts[s]
           of == [o \in objectives_of |-> {o} \X (1 .. Parts[s][o])]
<1>1. Parts[s] \in Seq(Nat) /\ Len(Parts[s]) \in Nat /\ objectives_of = 1 .. Len(Parts[s])
  BY ScoreAssumption
<1>2. IsFiniteSet(objectives_of)
  BY <1>1, FS_Interval
<1>3. ASSUME NEW o \in objectives_of PROVE IsFiniteSet(of[o])
  <2>1. Parts[s][o] \in Nat
    BY <1>1
  <2>2. IsFiniteSet(1 .. Parts[s][o])
    BY <2>1, FS_Interval
  <2>3. IsFiniteSet({o})
    BY FS_Singleton
  <2>4. IsFiniteSet({o} \X (1 .. Parts[s][o]))
    BY <2>2, <2>3, FS_Product
  <2> QED BY <2>4
<1>4. IsFiniteSet({of[o] : o \in objectives_of})
  <2>1. of \in [objectives_of -> {of[o] : o \in objectives_of}]
    OBVIOUS
  <2> HIDE DEF of, objectives_of
  <2> QED BY <1>2, <2>1, ValuesFinite
<1>5. PartsOf(s) = UNION {of[o] : o \in objectives_of}
  BY DEF PartsOf
<1>6. IsFiniteSet(PartsOf(s))
  <2> HIDE DEF of, objectives_of
  <2>1. \A T \in {of[o] : o \in objectives_of} : IsFiniteSet(T)
    BY <1>3
  <2> QED BY <1>4, <1>5, <2>1, FS_UNION
<1>7. PartsOf(s) \subseteq Address
  BY DEF Address
<1> QED BY <1>6, <1>7

LEMMA CandidateIs ==
    ASSUME ScoreTypeOK, NEW c \in DOMAIN planned
    PROVE  /\ planned \in Seq(PlannedCandidate) /\ c \in 1 .. Len(planned)
           /\ planned[c] \in PlannedCandidate /\ planned[c].spec \in Spec_
           /\ planned[c].outstanding \in Nat /\ planned[c].error \in {"none", "error"}
<1>1. planned \in Seq(PlannedCandidate)
  BY DEF ScoreTypeOK
<1>2. c \in 1 .. Len(planned)
  BY <1>1
<1>3. planned[c] \in PlannedCandidate
  BY <1>1, <1>2
<1>4. planned[c].spec \in Spec_ /\ planned[c].outstanding \in Nat
      /\ planned[c].error \in {"none", "error"}
  BY <1>3 DEF PlannedCandidate
<1> QED BY <1>1, <1>2, <1>3, <1>4

LEMMA SlotsAre ==
    ASSUME ScoreTypeOK
    PROVE  /\ Len(to_score) \in Nat /\ DOMAIN to_score = 1 .. Len(to_score)
           /\ idx \in Nat /\ idx >= 1 /\ idx <= Len(to_score) + 1
           /\ Seen \in SUBSET (1 .. Len(to_score))
           /\ \A i \in Seen : to_score[i] \in Spec_
<1>1. to_score \in Seq(Spec_) /\ idx \in 1 .. Len(to_score) + 1
  BY DEF ScoreTypeOK
<1>2. Len(to_score) \in Nat /\ DOMAIN to_score = 1 .. Len(to_score)
      /\ \A i \in 1 .. Len(to_score) : to_score[i] \in Spec_
  BY <1>1
<1>3. idx \in Nat /\ idx >= 1 /\ idx <= Len(to_score) + 1
  BY <1>1, <1>2
<1>4. Seen \in SUBSET (1 .. Len(to_score))
  BY <1>2, <1>3 DEF Seen
<1> QED BY <1>2, <1>3, <1>4

LEMMA SlotsFinite ==
    ASSUME ScoreTypeOK, NEW S \in SUBSET Seen
    PROVE  IsFiniteSet(S) /\ Cardinality(S) \in Nat /\ Cardinality(S) <= Len(to_score)
<1>1. Len(to_score) \in Nat /\ S \in SUBSET (1 .. Len(to_score))
  BY SlotsAre
<1>2. IsFiniteSet(1 .. Len(to_score)) /\ Cardinality(1 .. Len(to_score)) = Len(to_score)
  <2>1. 1 \in Int /\ Len(to_score) \in Int
    BY <1>1
  <2>2. IsFiniteSet(1 .. Len(to_score))
    BY <2>1, FS_Interval
  <2>3. Cardinality(1 .. Len(to_score))
          = IF 1 > Len(to_score) THEN 0 ELSE Len(to_score) - 1 + 1
    BY <2>1, FS_Interval
  <2> QED BY <1>1, <2>2, <2>3
<1>3. IsFiniteSet(S)
  BY <1>1, <1>2, FS_Subset
<1>4. Cardinality(S) <= Cardinality(1 .. Len(to_score))
  BY <1>1, <1>2, FS_Subset
<1> QED BY <1>2, <1>3, <1>4, CardIsNat

\* Nothing is dropped while the population is planned.
LEMMA NoDropsInPlan == pc = "plan" /\ PlansAreDistinct => Dropped = {}
<1> SUFFICES ASSUME pc = "plan", PlansAreDistinct, NEW i \in Dropped PROVE FALSE
  OBVIOUS
<1>1. PICK c \in DOMAIN planned : Waiting(c) = {}
  BY DEF Dropped
<1>2. Waiting(c) = PartsOf(planned[c].spec)
  BY DEF Waiting
<1> QED BY <1>1, <1>2 DEF PlansAreDistinct

\* A call that has planned nothing yet.
Fresh ==
    /\ pc \in {"idle", "plan"} /\ call \in 0 .. Calls
    /\ to_score \in Seq(Spec_) /\ idx = 1
    /\ planned = <<>> /\ running = {}
    /\ DOMAIN scored = {} /\ errors = <<>> /\ done = 0
    /\ DOMAIN asked = {} /\ failed = {}
    /\ DOMAIN cache \subseteq Spec_ /\ n_dropped \in Nat
    /\ CachedScoresAreWhole

LEMMA FreshIsSound == Fresh => ScoreInv
<1> SUFFICES ASSUME Fresh PROVE ScoreInv
  OBVIOUS
<1> USE DEF Fresh
<1>1. Seen = {} /\ DOMAIN planned = {} /\ Len(errors) = 0
  BY DEF Seen
<1>2. Len(to_score) \in Nat
  OBVIOUS
<1>3. ScoreTypeOK
  <2>1. planned \in Seq(PlannedCandidate) /\ errors \in Seq({"error"})
    OBVIOUS
  <2>2. idx \in 1 .. Len(to_score) + 1
    BY <1>2
  <2> QED BY <1>1, <2>1, <2>2 DEF ScoreTypeOK
<1>4. PlansAreDistinct
  BY <1>1 DEF PlansAreDistinct
<1>5. PartsAreFiled
  BY <1>1 DEF PartsAreFiled
<1>6. SlotsAreSettled
  <2>1. Dropped = {}
    BY <1>1 DEF Dropped
  <2>2. Cardinality(Dropped) = 0 /\ Cardinality(DOMAIN scored \cup Dropped) = 0
    BY <2>1, FS_EmptySet
  <2>3. DOMAIN scored = {i \in Seen : to_score[i] \in DOMAIN cache}
    BY <1>1
  <2> QED BY <1>1, <2>2, <2>3 DEF SlotsAreSettled
<1> QED
  BY <1>3, <1>4, <1>5, <1>6
  DEF ScoreInv, ResultIsSerial, NoPartRunsTwice, DropsAreCountedBySlot

LEMMA ScoreStarts == ScoreInit => ScoreInv
<1>1. ScoreInit => Fresh
  <2> SUFFICES ASSUME ScoreInit PROVE Fresh
    OBVIOUS
  <2>1. DOMAIN scored = {} /\ DOMAIN cache = {} /\ DOMAIN asked = {}
    BY DEF ScoreInit
  <2>2. to_score \in Seq(Spec_)
    BY DEF ScoreInit
  <2> QED BY <2>1, <2>2, ScoreAssumption DEF ScoreInit, Fresh, CachedScoresAreWhole
<1> QED BY <1>1, FreshIsSound

LEMMA CallKeeps == ScoreInv /\ Call => ScoreInv'
<1>1. ScoreInv /\ Call => Fresh'
  <2> SUFFICES ASSUME ScoreInv, Call PROVE Fresh'
    OBVIOUS
  <2>1. ScoreTypeOK /\ CachedScoresAreWhole
    BY DEF ScoreInv
  <2>2. DOMAIN scored' = {} /\ DOMAIN asked' = {}
    BY DEF Call
  <2>3. to_score' \in Seq(Spec_)
    BY ScoreAssumption DEF Call
  <2>4. call' \in 0 .. Calls
    BY <2>1, ScoreAssumption DEF Call, ScoreTypeOK
  <2>5. UNCHANGED <<cache, n_dropped>>
    BY DEF Call
  <2>6. CachedScoresAreWhole'
    BY <2>1, <2>5 DEF CachedScoresAreWhole
  <2> QED BY <2>1, <2>2, <2>3, <2>4, <2>5, <2>6 DEF Call, Fresh, ScoreTypeOK
<1> QED BY <1>1, FreshIsSound, PTL

-----------------------------------------------------------------------------
(* score_population: the planning *)

LEMMA PlanIs ==
    ASSUME ScoreInv, pc = "plan"
    PROVE  /\ running = {} /\ failed = {} /\ errors = <<>> /\ DOMAIN asked = {}
           /\ Dropped = {}
           /\ \A c \in DOMAIN planned :
                /\ PartsOf(planned[c].spec) # {}
                /\ planned[c].spec \notin DOMAIN cache
                /\ planned[c].error = "none"
                /\ planned[c].outstanding = Cardinality(PartsOf(planned[c].spec))
                /\ DOMAIN planned[c].values = PartsOf(planned[c].spec)
           /\ DOMAIN scored = {i \in Seen : to_score[i] \in DOMAIN cache}
           /\ done = Cardinality(DOMAIN scored)
<1>1. PlansAreDistinct /\ PartsAreFiled /\ SlotsAreSettled
  BY DEF ScoreInv
<1>2. running = {} /\ failed = {} /\ errors = <<>> /\ DOMAIN asked = {}
  BY <1>1 DEF PlansAreDistinct
<1>3. Dropped = {}
  BY <1>1, NoDropsInPlan
<1>4. DOMAIN scored = {i \in Seen : to_score[i] \in DOMAIN cache}
      /\ done = Cardinality(DOMAIN scored)
  <2>1. DOMAIN scored \cup Dropped = DOMAIN scored
    BY <1>3
  <2> QED BY <1>1, <2>1 DEF SlotsAreSettled
<1>5. ASSUME NEW c \in DOMAIN planned
      PROVE  /\ PartsOf(planned[c].spec) # {}
             /\ planned[c].spec \notin DOMAIN cache
             /\ planned[c].error = "none"
             /\ planned[c].outstanding = Cardinality(PartsOf(planned[c].spec))
             /\ DOMAIN planned[c].values = PartsOf(planned[c].spec)
  <2>1. Waiting(c) = PartsOf(planned[c].spec)
    BY DEF Waiting
  <2>2. PartsOf(planned[c].spec) # {}
    BY <1>1 DEF PlansAreDistinct
  <2>3. /\ DOMAIN planned[c].values = PartsOf(planned[c].spec)
        /\ planned[c].outstanding = Cardinality(Waiting(c))
        /\ planned[c].error = "none" <=> planned[c].spec \notin failed
        /\ planned[c].spec \in DOMAIN cache <=> Waiting(c) = {} /\ planned[c].error = "none"
    BY <1>1 DEF PartsAreFiled
  <2> QED BY <1>2, <2>1, <2>2, <2>3
<1> QED BY <1>2, <1>3, <1>4, <1>5

\* What planning the slot at idx does, whichever way it goes.
PlanStep ==
    /\ pc = "plan" /\ idx <= Len(to_score) /\ idx' = idx + 1
    /\ UNCHANGED <<pc, call, to_score, running, errors, n_dropped, result, asked, failed>>

LEMMA PlanStepIs ==
    ASSUME ScoreInv, PlanStep
    PROVE  /\ idx \in DOMAIN to_score /\ idx \notin Seen /\ Seen' = Seen \cup {idx}
           /\ spec = to_score[idx] /\ spec \in Spec_
           /\ idx' \in 1 .. Len(to_score)' + 1
           /\ idx \in Nat
<1>1. ScoreTypeOK /\ to_score \in Seq(Spec_)
  BY DEF ScoreInv, ScoreTypeOK
<1>2. Len(to_score) \in Nat /\ DOMAIN to_score = 1 .. Len(to_score)
      /\ idx \in Nat /\ idx >= 1 /\ idx <= Len(to_score) + 1
  BY <1>1, SlotsAre
<1>3. idx \in 1 .. Len(to_score)
  BY <1>2 DEF PlanStep
<1>4. spec = to_score[idx] /\ spec \in Spec_
  BY <1>1, <1>3 DEF spec
<1>5. idx \notin Seen /\ Seen' = Seen \cup {idx}
  BY <1>2 DEF PlanStep, Seen
<1>6. idx' \in 1 .. Len(to_score)' + 1
  BY <1>2 DEF PlanStep
<1> QED BY <1>2, <1>3, <1>4, <1>5, <1>6

\* A specification neither cached nor planned is in no slot before.
LEMMA FirstOfItsSpec ==
    ASSUME ScoreInv, PlanStep, ~Cached, Repeat = {}
    PROVE  /\ \A i \in Seen : to_score[i] # spec
           /\ \A c \in DOMAIN planned : planned[c].spec # spec
<1>1. \A c \in DOMAIN planned : planned[c].spec # spec
  BY DEF Repeat
<1>2. \A i \in Seen :
        to_score[i] \in DOMAIN cache \/ \E c \in DOMAIN planned : planned[c].spec = to_score[i]
  BY DEF ScoreInv, PlansAreDistinct
<1> QED BY <1>1, <1>2 DEF Cached

LEMMA PlanStepKeeps ==
    ASSUME ScoreInv, PlanStep
    PROVE  ResultIsSerial' /\ DropsAreCountedBySlot' /\ NoPartRunsTwice'
<1>1. pc' = "plan" /\ running' = {} /\ DOMAIN asked' = {}
  BY PlanIs DEF PlanStep
<1> QED BY <1>1 DEF ResultIsSerial, DropsAreCountedBySlot, NoPartRunsTwice

\* What is left to show of a planning step: its plans, the cache and the slots.
LEMMA PlannedIsEnough ==
    ASSUME ScoreInv, PlanStep,
           planned' \in Seq(PlannedCandidate),
           DOMAIN cache' \subseteq Spec_, CachedScoresAreWhole',
           \A c, d \in DOMAIN planned' : planned'[c].spec = planned'[d].spec => c = d,
           \A c \in DOMAIN planned' :
             /\ planned'[c].indices = {i \in Seen' : to_score[i] = planned'[c].spec}
             /\ planned'[c].indices # {}
             /\ PartsOf(planned'[c].spec) # {}
             /\ DOMAIN planned'[c].values = PartsOf(planned'[c].spec)
             /\ planned'[c].outstanding = Cardinality(PartsOf(planned'[c].spec))
             /\ planned'[c].error = "none"
             /\ planned'[c].spec \notin DOMAIN cache',
           \A i \in Seen' : \/ to_score[i] \in DOMAIN cache'
                            \/ \E c \in DOMAIN planned' : planned'[c].spec = to_score[i],
           DOMAIN scored' = {i \in Seen' : to_score[i] \in DOMAIN cache'},
           \A i \in DOMAIN scored' : scored'[i] = Whole(to_score[i]),
           done' = Cardinality(DOMAIN scored')
    PROVE  ScoreInv'
<1>1. /\ running = {} /\ failed = {} /\ errors = <<>> /\ DOMAIN asked = {}
      /\ pc = "plan"
      /\ UNCHANGED <<pc, call, to_score, running, errors, n_dropped, result, asked, failed>>
  BY PlanIs DEF PlanStep
<1>2. ScoreTypeOK'
  <2>1. ScoreTypeOK
    BY DEF ScoreInv
  <2>2. idx' \in 1 .. Len(to_score)' + 1
    BY PlanStepIs
  <2> QED BY <1>1, <2>1, <2>2 DEF ScoreTypeOK
<1>3. PlansAreDistinct'
  BY <1>1 DEF PlansAreDistinct
<1>4. \A c \in DOMAIN planned' : Waiting(c)' = PartsOf(planned'[c].spec)
  BY <1>1 DEF Waiting
<1>5. PartsAreFiled'
  <2> SUFFICES ASSUME NEW c \in DOMAIN planned'
               PROVE  /\ DOMAIN planned'[c].values = PartsOf(planned'[c].spec)
                      /\ planned'[c].outstanding = Cardinality(Waiting(c)')
                      /\ planned'[c].error = "none" <=> planned'[c].spec \notin failed'
                      /\ planned'[c].error = "none" =>
                           \A a \in PartsOf(planned'[c].spec) \ Waiting(c)' :
                             planned'[c].values[a] = Value(planned'[c].spec, a)
                      /\ planned'[c].spec \in DOMAIN cache'
                           <=> Waiting(c)' = {} /\ planned'[c].error = "none"
    BY DEF PartsAreFiled
  <2> QED BY <1>1, <1>4
<1>6. Dropped' = {}
  <2>1. (pc = "plan" /\ PlansAreDistinct)'
    BY <1>1, <1>3
  <2>2. (pc = "plan" /\ PlansAreDistinct)' => (Dropped = {})'
    BY NoDropsInPlan, PTL
  <2> QED BY <2>1, <2>2
<1>7. SlotsAreSettled'
  <2>1. Cardinality(Dropped') = 0 /\ Len(errors') = 0
    BY <1>1, <1>6, FS_EmptySet
  <2>2. DOMAIN scored' \cup Dropped' = DOMAIN scored'
    BY <1>6
  <2> QED BY <1>1, <2>1, <2>2 DEF SlotsAreSettled
<1> QED BY <1>2, <1>3, <1>5, <1>7, PlanStepKeeps DEF ScoreInv

LEMMA PlanCachedKeeps == ScoreInv /\ PlanCached => ScoreInv'
<1> SUFFICES ASSUME ScoreInv, PlanCached PROVE ScoreInv'
  OBVIOUS
<1>1. PlanStep /\ Cached /\ UNCHANGED <<planned, cache>>
      /\ scored' = [i \in DOMAIN scored \cup {idx} |-> IF i = idx THEN cache[spec] ELSE scored[i]]
      /\ done' = done + 1
  BY DEF PlanCached, PlanStep
<1>2. ScoreTypeOK /\ PlansAreDistinct /\ SlotsAreSettled /\ CachedScoresAreWhole
  BY DEF ScoreInv
<1>3. /\ idx \in DOMAIN to_score /\ idx \notin Seen /\ Seen' = Seen \cup {idx}
      /\ spec = to_score[idx]
  BY <1>1, PlanStepIs
<1>4. /\ \A c \in DOMAIN planned :
           /\ PartsOf(planned[c].spec) # {}
           /\ planned[c].spec \notin DOMAIN cache
           /\ planned[c].error = "none"
           /\ planned[c].outstanding = Cardinality(PartsOf(planned[c].spec))
           /\ DOMAIN planned[c].values = PartsOf(planned[c].spec)
      /\ DOMAIN scored = {i \in Seen : to_score[i] \in DOMAIN cache}
      /\ done = Cardinality(DOMAIN scored)
  BY <1>1, PlanIs DEF PlanStep
<1>5. spec \in DOMAIN cache /\ cache[spec] = Whole(spec)
  BY <1>1, <1>2 DEF Cached, CachedScoresAreWhole
<1>6. \A c, d \in DOMAIN planned' : planned'[c].spec = planned'[d].spec => c = d
  BY <1>1, <1>2 DEF PlansAreDistinct
<1>7. ASSUME NEW c \in DOMAIN planned'
      PROVE  /\ planned'[c].indices = {i \in Seen' : to_score[i] = planned'[c].spec}
             /\ planned'[c].indices # {}
             /\ PartsOf(planned'[c].spec) # {}
             /\ DOMAIN planned'[c].values = PartsOf(planned'[c].spec)
             /\ planned'[c].outstanding = Cardinality(PartsOf(planned'[c].spec))
             /\ planned'[c].error = "none"
             /\ planned'[c].spec \notin DOMAIN cache'
  <2>1. c \in DOMAIN planned /\ planned'[c] = planned[c]
    BY <1>1
  <2>2. planned[c].indices = {i \in Seen : to_score[i] = planned[c].spec}
        /\ planned[c].indices # {}
    BY <1>2, <2>1 DEF PlansAreDistinct
  <2>3. to_score[idx] # planned[c].spec
    BY <1>3, <1>4, <1>5, <2>1
  <2> QED BY <1>1, <1>3, <1>4, <2>1, <2>2, <2>3
<1>8. \A i \in Seen' : \/ to_score[i] \in DOMAIN cache'
                       \/ \E c \in DOMAIN planned' : planned'[c].spec = to_score[i]
  BY <1>1, <1>2, <1>3, <1>5 DEF PlansAreDistinct
<1>9. DOMAIN scored' = {i \in Seen' : to_score[i] \in DOMAIN cache'}
  BY <1>1, <1>3, <1>4, <1>5
<1>10. \A i \in DOMAIN scored' : scored'[i] = Whole(to_score[i])
  BY <1>1, <1>2, <1>3, <1>5 DEF SlotsAreSettled
<1>11. done' = Cardinality(DOMAIN scored')
  <2>1. IsFiniteSet(DOMAIN scored)
    BY <1>2, <1>4, SlotsFinite
  <2>2. idx \notin DOMAIN scored /\ DOMAIN scored' = DOMAIN scored \cup {idx}
    BY <1>1, <1>3, <1>4
  <2> QED BY <1>1, <1>4, <2>1, <2>2, FS_AddElement
<1>12. planned' \in Seq(PlannedCandidate) /\ DOMAIN cache' \subseteq Spec_
  BY <1>1, <1>2 DEF ScoreTypeOK
<1>13. CachedScoresAreWhole'
  BY <1>1, <1>2 DEF CachedScoresAreWhole
<1> QED
  BY <1>1, <1>6, <1>7, <1>8, <1>9, <1>10, <1>11, <1>12, <1>13, PlannedIsEnough

LEMMA PlanRepeatKeeps == ScoreInv /\ PlanRepeat => ScoreInv'
<1> SUFFICES ASSUME ScoreInv, PlanRepeat PROVE ScoreInv'
  OBVIOUS
<1>1. PlanStep /\ ~Cached /\ UNCHANGED <<scored, done, cache>>
  BY DEF PlanRepeat, PlanStep
<1>2. ScoreTypeOK /\ PlansAreDistinct /\ SlotsAreSettled /\ CachedScoresAreWhole
  BY DEF ScoreInv
<1>3. /\ idx \in DOMAIN to_score /\ idx \notin Seen /\ Seen' = Seen \cup {idx}
      /\ spec = to_score[idx] /\ idx \in Nat
  BY <1>1, PlanStepIs
<1>4. /\ \A c \in DOMAIN planned :
           /\ PartsOf(planned[c].spec) # {}
           /\ planned[c].spec \notin DOMAIN cache
           /\ planned[c].error = "none"
           /\ planned[c].outstanding = Cardinality(PartsOf(planned[c].spec))
           /\ DOMAIN planned[c].values = PartsOf(planned[c].spec)
      /\ DOMAIN scored = {i \in Seen : to_score[i] \in DOMAIN cache}
      /\ done = Cardinality(DOMAIN scored)
  BY <1>1, PlanIs DEF PlanStep
<1>5. PICK r \in DOMAIN planned :
        /\ planned[r].spec = spec
        /\ planned' = [planned EXCEPT ![r].indices = @ \cup {idx}]
  BY DEF PlanRepeat, Repeat
<1>6. /\ r \in 1 .. Len(planned) /\ planned \in Seq(PlannedCandidate)
      /\ planned[r] \in PlannedCandidate
  BY <1>2, CandidateIs
<1> DEFINE joined == [planned[r] EXCEPT !.indices = @ \cup {idx}]
<1>7. /\ joined \in PlannedCandidate
      /\ joined.spec = planned[r].spec /\ joined.indices = planned[r].indices \cup {idx}
      /\ joined.values = planned[r].values /\ joined.outstanding = planned[r].outstanding
      /\ joined.error = planned[r].error
  BY <1>3, <1>6 DEF PlannedCandidate
<1>8. planned' = [planned EXCEPT ![r] = joined]
  BY <1>5
<1> HIDE DEF joined
<1>9. /\ planned' \in Seq(PlannedCandidate) /\ DOMAIN planned' = DOMAIN planned
      /\ planned'[r] = joined /\ \A c \in DOMAIN planned : c # r => planned'[c] = planned[c]
  BY <1>6, <1>7, <1>8
<1>10. \A c \in DOMAIN planned : /\ planned'[c].spec = planned[c].spec
                                 /\ planned'[c].values = planned[c].values
                                 /\ planned'[c].outstanding = planned[c].outstanding
                                 /\ planned'[c].error = planned[c].error
  BY <1>7, <1>9
<1>11. \A c, d \in DOMAIN planned' : planned'[c].spec = planned'[d].spec => c = d
  BY <1>2, <1>9, <1>10 DEF PlansAreDistinct
<1>12. ASSUME NEW c \in DOMAIN planned'
      PROVE  /\ planned'[c].indices = {i \in Seen' : to_score[i] = planned'[c].spec}
             /\ planned'[c].indices # {}
             /\ PartsOf(planned'[c].spec) # {}
             /\ DOMAIN planned'[c].values = PartsOf(planned'[c].spec)
             /\ planned'[c].outstanding = Cardinality(PartsOf(planned'[c].spec))
             /\ planned'[c].error = "none"
             /\ planned'[c].spec \notin DOMAIN cache'
  <2>1. c \in DOMAIN planned
    BY <1>9
  <2>2. planned[c].indices = {i \in Seen : to_score[i] = planned[c].spec}
        /\ planned[c].indices # {}
    BY <1>2, <2>1 DEF PlansAreDistinct
  <2>3. to_score[idx] = planned[c].spec <=> c = r
    BY <1>2, <1>3, <1>5, <2>1 DEF PlansAreDistinct
  <2>4. planned'[c].indices = {i \in Seen' : to_score[i] = planned'[c].spec}
        /\ planned'[c].indices # {}
    <3>1. CASE c = r
      BY <1>3, <1>7, <1>9, <2>2, <2>3, <3>1
    <3>2. CASE c # r
      BY <1>3, <1>9, <2>1, <2>2, <2>3, <3>2
    <3> QED BY <3>1, <3>2
  <2> QED BY <1>1, <1>4, <1>10, <2>1, <2>4
<1>13. \A i \in Seen' : \/ to_score[i] \in DOMAIN cache'
                        \/ \E c \in DOMAIN planned' : planned'[c].spec = to_score[i]
  <2>1. \A i \in Seen : \/ to_score[i] \in DOMAIN cache
                        \/ \E c \in DOMAIN planned : planned[c].spec = to_score[i]
    BY <1>2 DEF PlansAreDistinct
  <2> QED BY <1>1, <1>3, <1>5, <1>9, <1>10, <2>1
<1>14. DOMAIN scored' = {i \in Seen' : to_score[i] \in DOMAIN cache'}
  BY <1>1, <1>3, <1>4 DEF Cached
<1>15. \A i \in DOMAIN scored' : scored'[i] = Whole(to_score[i])
  BY <1>1, <1>2 DEF SlotsAreSettled
<1>16. done' = Cardinality(DOMAIN scored') /\ DOMAIN cache' \subseteq Spec_
  BY <1>1, <1>2, <1>4 DEF ScoreTypeOK
<1>17. CachedScoresAreWhole'
  BY <1>1, <1>2 DEF CachedScoresAreWhole
<1> QED
  BY <1>1, <1>9, <1>11, <1>12, <1>13, <1>14, <1>15, <1>16, <1>17, PlannedIsEnough

LEMMA PlanEmptyKeeps == ScoreInv /\ PlanEmpty => ScoreInv'
<1> SUFFICES ASSUME ScoreInv, PlanEmpty PROVE ScoreInv'
  OBVIOUS
<1>1. /\ PlanStep /\ ~Cached /\ Repeat = {} /\ UNCHANGED planned
      /\ cache' = Stored(spec, Whole(spec))
      /\ scored' = [i \in DOMAIN scored \cup {idx} |-> IF i = idx THEN Whole(spec) ELSE scored[i]]
      /\ done' = done + 1
  BY DEF PlanEmpty, PlanStep
<1>2. ScoreTypeOK /\ PlansAreDistinct /\ SlotsAreSettled /\ CachedScoresAreWhole
  BY DEF ScoreInv
<1>3. /\ idx \in DOMAIN to_score /\ idx \notin Seen /\ Seen' = Seen \cup {idx}
      /\ spec = to_score[idx] /\ spec \in Spec_
  BY <1>1, PlanStepIs
<1>4. /\ \A c \in DOMAIN planned :
           /\ PartsOf(planned[c].spec) # {}
           /\ planned[c].spec \notin DOMAIN cache
           /\ planned[c].error = "none"
           /\ planned[c].outstanding = Cardinality(PartsOf(planned[c].spec))
           /\ DOMAIN planned[c].values = PartsOf(planned[c].spec)
      /\ DOMAIN scored = {i \in Seen : to_score[i] \in DOMAIN cache}
      /\ done = Cardinality(DOMAIN scored)
  BY <1>1, PlanIs DEF PlanStep
<1>5. /\ DOMAIN cache' = DOMAIN cache \cup {spec}
      /\ \A t \in DOMAIN cache : cache'[t] = cache[t]
      /\ spec \notin DOMAIN cache /\ cache'[spec] = Whole(spec)
  BY <1>1 DEF Stored, Cached
<1>6. /\ \A i \in Seen : to_score[i] # spec
      /\ \A c \in DOMAIN planned : planned[c].spec # spec
  BY <1>1, FirstOfItsSpec
<1>7. \A c, d \in DOMAIN planned' : planned'[c].spec = planned'[d].spec => c = d
  BY <1>1, <1>2 DEF PlansAreDistinct
<1>8. ASSUME NEW c \in DOMAIN planned'
      PROVE  /\ planned'[c].indices = {i \in Seen' : to_score[i] = planned'[c].spec}
             /\ planned'[c].indices # {}
             /\ PartsOf(planned'[c].spec) # {}
             /\ DOMAIN planned'[c].values = PartsOf(planned'[c].spec)
             /\ planned'[c].outstanding = Cardinality(PartsOf(planned'[c].spec))
             /\ planned'[c].error = "none"
             /\ planned'[c].spec \notin DOMAIN cache'
  <2>1. c \in DOMAIN planned /\ planned'[c] = planned[c]
    BY <1>1
  <2>2. planned[c].indices = {i \in Seen : to_score[i] = planned[c].spec}
        /\ planned[c].indices # {}
    BY <1>2, <2>1 DEF PlansAreDistinct
  <2>3. to_score[idx] # planned[c].spec
    BY <1>3, <1>6, <2>1
  <2> QED BY <1>3, <1>4, <1>5, <1>6, <2>1, <2>2, <2>3
<1>9. \A i \in Seen' : \/ to_score[i] \in DOMAIN cache'
                       \/ \E c \in DOMAIN planned' : planned'[c].spec = to_score[i]
  BY <1>1, <1>2, <1>3, <1>5 DEF PlansAreDistinct
<1>10. DOMAIN scored' = {i \in Seen' : to_score[i] \in DOMAIN cache'}
  BY <1>1, <1>3, <1>4, <1>5, <1>6
<1>11. \A i \in DOMAIN scored' : scored'[i] = Whole(to_score[i])
  BY <1>1, <1>2, <1>3 DEF SlotsAreSettled
<1>12. done' = Cardinality(DOMAIN scored')
  <2>1. IsFiniteSet(DOMAIN scored)
    BY <1>2, <1>4, SlotsFinite
  <2>2. idx \notin DOMAIN scored /\ DOMAIN scored' = DOMAIN scored \cup {idx}
    BY <1>1, <1>3, <1>4
  <2> QED BY <1>1, <1>4, <2>1, <2>2, FS_AddElement
<1>13. planned' \in Seq(PlannedCandidate) /\ DOMAIN cache' \subseteq Spec_
  BY <1>1, <1>2, <1>3, <1>5 DEF ScoreTypeOK
<1>14. CachedScoresAreWhole'
  BY <1>2, <1>5 DEF CachedScoresAreWhole, Whole, Value
<1> QED
  BY <1>1, <1>7, <1>8, <1>9, <1>10, <1>11, <1>12, <1>13, <1>14, PlannedIsEnough

LEMMA PlanNewKeeps == ScoreInv /\ PlanNew => ScoreInv'
<1> SUFFICES ASSUME ScoreInv, PlanNew PROVE ScoreInv'
  OBVIOUS
<1> DEFINE candidate == [spec |-> spec, indices |-> {idx},
                         values |-> [a \in PartsOf(spec) |-> zero],
                         outstanding |-> Outstanding(spec), error |-> "none"]
<1>1. /\ PlanStep /\ ~Cached /\ Repeat = {} /\ UNCHANGED <<scored, done, cache>>
      /\ PartsOf(spec) # {} /\ planned' = Append(planned, candidate)
  BY DEF PlanNew, PlanStep
<1>2. ScoreTypeOK /\ PlansAreDistinct /\ SlotsAreSettled /\ CachedScoresAreWhole
  BY DEF ScoreInv
<1>3. /\ idx \in DOMAIN to_score /\ idx \notin Seen /\ Seen' = Seen \cup {idx}
      /\ spec = to_score[idx] /\ spec \in Spec_ /\ idx \in Nat
  BY <1>1, PlanStepIs
<1>4. /\ \A c \in DOMAIN planned :
           /\ PartsOf(planned[c].spec) # {}
           /\ planned[c].spec \notin DOMAIN cache
           /\ planned[c].error = "none"
           /\ planned[c].outstanding = Cardinality(PartsOf(planned[c].spec))
           /\ DOMAIN planned[c].values = PartsOf(planned[c].spec)
      /\ DOMAIN scored = {i \in Seen : to_score[i] \in DOMAIN cache}
      /\ done = Cardinality(DOMAIN scored)
  BY <1>1, PlanIs DEF PlanStep
<1>5. /\ \A i \in Seen : to_score[i] # spec
      /\ \A c \in DOMAIN planned : planned[c].spec # spec
  BY <1>1, FirstOfItsSpec
<1>6. /\ candidate \in PlannedCandidate
      /\ candidate.spec = spec /\ candidate.indices = {idx}
      /\ DOMAIN candidate.values = PartsOf(spec)
      /\ candidate.outstanding = Cardinality(PartsOf(spec)) /\ candidate.error = "none"
  <2>1. Outstanding(spec) = Cardinality(PartsOf(spec)) /\ Outstanding(spec) \in Nat
    BY <1>3, PartsFinite, CardIsNat DEF Outstanding
  <2>2. [a \in PartsOf(spec) |-> zero] \in Records
    <3>1. [a \in PartsOf(spec) |-> zero] \in [PartsOf(spec) -> {zero} \cup (Spec_ \X Address)]
      OBVIOUS
    <3> QED BY <1>3, <3>1 DEF Records
  <2> QED BY <1>3, <2>1, <2>2 DEF PlannedCandidate
<1> HIDE DEF candidate
<1>7. planned \in Seq(PlannedCandidate) /\ Len(planned) \in Nat
      /\ DOMAIN planned = 1 .. Len(planned)
  BY <1>2 DEF ScoreTypeOK
<1>8. /\ planned' \in Seq(PlannedCandidate)
      /\ DOMAIN planned' = 1 .. Len(planned) + 1
      /\ \A c \in DOMAIN planned : planned'[c] = planned[c]
      /\ planned'[Len(planned) + 1] = candidate
  BY <1>1, <1>6, <1>7
<1>9. \A c \in DOMAIN planned' :
        \/ c \in DOMAIN planned /\ planned'[c] = planned[c]
        \/ c = Len(planned) + 1 /\ planned'[c] = candidate
  BY <1>7, <1>8
<1>10. DOMAIN planned \subseteq DOMAIN planned' /\ Len(planned) + 1 \in DOMAIN planned'
  BY <1>7, <1>8
<1>11. \A c, d \in DOMAIN planned' : planned'[c].spec = planned'[d].spec => c = d
  BY <1>2, <1>5, <1>6, <1>9 DEF PlansAreDistinct
<1>12. ASSUME NEW c \in DOMAIN planned'
      PROVE  /\ planned'[c].indices = {i \in Seen' : to_score[i] = planned'[c].spec}
             /\ planned'[c].indices # {}
             /\ PartsOf(planned'[c].spec) # {}
             /\ DOMAIN planned'[c].values = PartsOf(planned'[c].spec)
             /\ planned'[c].outstanding = Cardinality(PartsOf(planned'[c].spec))
             /\ planned'[c].error = "none"
             /\ planned'[c].spec \notin DOMAIN cache'
  <2>1. CASE c \in DOMAIN planned /\ planned'[c] = planned[c]
    <3>1. planned[c].indices = {i \in Seen : to_score[i] = planned[c].spec}
          /\ planned[c].indices # {}
      BY <1>2, <2>1 DEF PlansAreDistinct
    <3>2. to_score[idx] # planned[c].spec
      BY <1>3, <1>5, <2>1
    <3> QED BY <1>1, <1>3, <1>4, <2>1, <3>1, <3>2
  <2>2. CASE planned'[c] = candidate
    <3>1. {idx} = {i \in Seen' : to_score[i] = spec}
      BY <1>3, <1>5
    <3> QED BY <1>1, <1>6, <2>2, <3>1 DEF Cached
  <2> QED BY <1>9, <2>1, <2>2
<1>13. \A i \in Seen' : \/ to_score[i] \in DOMAIN cache'
                        \/ \E c \in DOMAIN planned' : planned'[c].spec = to_score[i]
  <2>1. \A i \in Seen : \/ to_score[i] \in DOMAIN cache
                        \/ \E c \in DOMAIN planned : planned[c].spec = to_score[i]
    BY <1>2 DEF PlansAreDistinct
  <2>2. \E c \in DOMAIN planned' : planned'[c].spec = to_score[idx]
    BY <1>3, <1>6, <1>8, <1>10
  <2>3. \A i \in Seen : \/ to_score[i] \in DOMAIN cache'
                        \/ \E c \in DOMAIN planned' : planned'[c].spec = to_score[i]
    BY <1>1, <1>8, <1>10, <2>1
  <2> QED BY <1>3, <2>2, <2>3
<1>14. DOMAIN scored' = {i \in Seen' : to_score[i] \in DOMAIN cache'}
  BY <1>1, <1>3, <1>4 DEF Cached
<1>15. \A i \in DOMAIN scored' : scored'[i] = Whole(to_score[i])
  BY <1>1, <1>2 DEF SlotsAreSettled
<1>16. done' = Cardinality(DOMAIN scored') /\ DOMAIN cache' \subseteq Spec_
  BY <1>1, <1>2, <1>4 DEF ScoreTypeOK
<1>17. CachedScoresAreWhole'
  BY <1>1, <1>2 DEF CachedScoresAreWhole
<1> QED
  BY <1>1, <1>8, <1>11, <1>12, <1>13, <1>14, <1>15, <1>16, <1>17, PlannedIsEnough

\* The region is handed every part of every candidate.
LEMMA DispatchKeeps == ScoreInv /\ Dispatch => ScoreInv'
<1> SUFFICES ASSUME ScoreInv, Dispatch PROVE ScoreInv'
  OBVIOUS
<1>1. /\ pc = "plan" /\ pc' = "collect" /\ idx > Len(to_score)
      /\ running' = UNION {{<<c, a>> : a \in PartsOf(planned[c].spec)} : c \in DOMAIN planned}
      /\ UNCHANGED <<call, to_score, idx, planned, scored, errors, done, cache, n_dropped,
                     result, asked, failed>>
  BY DEF Dispatch
<1>2. ScoreTypeOK /\ PlansAreDistinct /\ PartsAreFiled /\ SlotsAreSettled
      /\ CachedScoresAreWhole
  BY DEF ScoreInv
<1>3. running = {} /\ failed = {} /\ errors = <<>> /\ DOMAIN asked = {} /\ Dropped = {}
  BY <1>1, PlanIs
<1>4. \A e \in running' : \E c \in DOMAIN planned : \E a \in PartsOf(planned[c].spec) : e = <<c, a>>
  BY <1>1
<1>5. ScoreTypeOK'
  <2>1. \A e \in running' : e \in (DOMAIN planned) \X Address /\ e[2] \in PartsOf(planned[e[1]].spec)
    <3> SUFFICES ASSUME NEW e \in running'
                 PROVE  e \in (DOMAIN planned) \X Address /\ e[2] \in PartsOf(planned[e[1]].spec)
      OBVIOUS
    <3>1. PICK c \in DOMAIN planned : \E a \in PartsOf(planned[c].spec) : e = <<c, a>>
      BY <1>4
    <3>2. PICK a \in PartsOf(planned[c].spec) : e = <<c, a>>
      BY <3>1
    <3>3. a \in Address
      BY <1>2, CandidateIs, PartsFinite
    <3> QED BY <3>2, <3>3
  <2> QED BY <1>1, <1>2, <2>1 DEF ScoreTypeOK
<1>6. PlansAreDistinct'
  <2>1. Seen = DOMAIN to_score
    <3>1. Len(to_score) \in Nat /\ DOMAIN to_score = 1 .. Len(to_score)
          /\ idx \in Nat /\ idx <= Len(to_score) + 1
      BY <1>2, SlotsAre
    <3>2. idx - 1 = Len(to_score)
      BY <1>1, <3>1
    <3> QED BY <3>1, <3>2 DEF Seen
  <2> QED BY <1>1, <1>2, <2>1 DEF PlansAreDistinct, Seen
<1>7. ASSUME NEW c \in DOMAIN planned PROVE Waiting(c)' = Waiting(c)
  <2>1. \A a \in PartsOf(planned[c].spec) : <<c, a>> \in running'
    BY <1>1
  <2> QED BY <1>1, <2>1 DEF Waiting
<1>8. PartsAreFiled'
  BY <1>1, <1>2, <1>7 DEF PartsAreFiled
<1>9. Seen' = Seen /\ Dropped' = Dropped
  BY <1>1, <1>7 DEF Seen, Dropped
<1>10. SlotsAreSettled'
  BY <1>1, <1>2, <1>9 DEF SlotsAreSettled
<1>11. NoPartRunsTwice'
  BY <1>1, <1>3 DEF NoPartRunsTwice
<1>12. CachedScoresAreWhole'
  BY <1>1, <1>2 DEF CachedScoresAreWhole
<1> QED
  BY <1>1, <1>5, <1>6, <1>8, <1>10, <1>11, <1>12
  DEF ScoreInv, ResultIsSerial, DropsAreCountedBySlot

-----------------------------------------------------------------------------
(* score_population: a part collected *)

LEMMA DisjointCard ==
    ASSUME NEW S, NEW T, IsFiniteSet(S), IsFiniteSet(T), S \cap T = {}
    PROVE  Cardinality(S \cup T) = Cardinality(S) + Cardinality(T)
<1>1. Cardinality(S \cap T) = 0
  BY FS_EmptySet
<1>2. Cardinality(S) \in Nat /\ Cardinality(T) \in Nat
  BY CardIsNat
<1>3. Cardinality(S \cup T) = Cardinality(S) + Cardinality(T) - Cardinality(S \cap T)
  BY FS_Union
<1> QED BY <1>1, <1>2, <1>3

LEMMA ConcatLen ==
    ASSUME NEW T, NEW left \in Seq(T), NEW right \in Seq(T)
    PROVE  Len(left \o right) = Len(left) + Len(right)
OBVIOUS

LEMMA FiledIs ==
    ASSUME NEW candidate \in PlannedCandidate, candidate.spec \in Spec_,
           DOMAIN candidate.values = PartsOf(candidate.spec),
           NEW a \in PartsOf(candidate.spec),
           candidate.outstanding - 1 \in Nat,
           NEW outcome \in {"ok", "error"}
    PROVE  /\ Filed(candidate, a, outcome) \in PlannedCandidate
           /\ Filed(candidate, a, outcome).spec = candidate.spec
           /\ Filed(candidate, a, outcome).indices = candidate.indices
           /\ Filed(candidate, a, outcome).outstanding = candidate.outstanding - 1
           /\ Filed(candidate, a, outcome).values =
                IF outcome = "ok" THEN [candidate.values EXCEPT ![a] = Value(candidate.spec, a)]
                ELSE candidate.values
           /\ Filed(candidate, a, outcome).error =
                IF outcome = "ok" \/ candidate.error # "none" THEN candidate.error ELSE outcome
<1> DEFINE s == candidate.spec
           kept == IF outcome = "ok"
                     THEN [candidate EXCEPT !.values[a] = Value(s, a)]
                     ELSE [candidate EXCEPT !.error = IF @ = "none" THEN outcome ELSE @]
           Content == {zero} \cup (Spec_ \X Address)
<1>1. candidate.values \in Records /\ candidate.error \in {"none", "error"}
      /\ candidate.indices \in SUBSET Nat
  BY DEF PlannedCandidate
<1>2. candidate.values \in [PartsOf(s) -> Content]
  BY <1>1 DEF Records
<1>3. [candidate.values EXCEPT ![a] = Value(s, a)] \in Records
  <2>1. Value(s, a) \in Content
    BY PartsFinite DEF Value
  <2> HIDE DEF Content, s
  <2>2. [candidate.values EXCEPT ![a] = Value(s, a)] \in [PartsOf(s) -> Content]
    BY <1>2, <2>1
  <2> QED BY <2>2 DEF Records, s, Content
<1>4. /\ kept.spec = s /\ kept.indices = candidate.indices
      /\ kept.outstanding = candidate.outstanding
      /\ kept.values = IF outcome = "ok" THEN [candidate.values EXCEPT ![a] = Value(s, a)]
                       ELSE candidate.values
      /\ kept.error = IF outcome = "ok" \/ candidate.error # "none" THEN candidate.error
                      ELSE outcome
      /\ kept \in PlannedCandidate
  <2>1. CASE outcome = "ok"
    BY <1>1, <1>3, <2>1 DEF PlannedCandidate
  <2>2. CASE outcome = "error"
    BY <1>1, <2>2 DEF PlannedCandidate
  <2> QED BY <2>1, <2>2
<1>5. Filed(candidate, a, outcome) = [kept EXCEPT !.outstanding = @ - 1]
  BY DEF Filed
<1> HIDE DEF kept
<1>6. /\ [kept EXCEPT !.outstanding = @ - 1].spec = kept.spec
      /\ [kept EXCEPT !.outstanding = @ - 1].indices = kept.indices
      /\ [kept EXCEPT !.outstanding = @ - 1].values = kept.values
      /\ [kept EXCEPT !.outstanding = @ - 1].error = kept.error
      /\ [kept EXCEPT !.outstanding = @ - 1].outstanding = kept.outstanding - 1
      /\ [kept EXCEPT !.outstanding = @ - 1] \in PlannedCandidate
  BY <1>4 DEF PlannedCandidate
<1> QED BY <1>4, <1>5, <1>6

\* A candidate that waits for a part has no slot settled.
LEMMA WaitingIsUnsettled ==
    ASSUME ScoreInv, NEW c \in DOMAIN planned, Waiting(c) # {}
    PROVE  /\ planned[c].spec \notin DOMAIN cache
           /\ planned[c].indices \cap (DOMAIN scored \cup Dropped) = {}
<1>1. PlansAreDistinct /\ PartsAreFiled /\ SlotsAreSettled
  BY DEF ScoreInv
<1>2. planned[c].spec \notin DOMAIN cache
  BY <1>1 DEF PartsAreFiled
<1>3. planned[c].indices = {i \in Seen : to_score[i] = planned[c].spec}
  BY <1>1 DEF PlansAreDistinct
<1>4. ASSUME NEW i \in planned[c].indices, i \in Dropped PROVE FALSE
  <2>1. PICK d \in DOMAIN planned : planned[d].spec = to_score[i] /\ Waiting(d) = {}
    BY <1>4 DEF Dropped
  <2>2. d = c
    BY <1>1, <1>3, <2>1 DEF PlansAreDistinct
  <2> QED BY <2>1, <2>2
<1>5. ASSUME NEW i \in planned[c].indices, i \in DOMAIN scored PROVE FALSE
  BY <1>1, <1>2, <1>3, <1>5 DEF SlotsAreSettled
<1> QED BY <1>2, <1>4, <1>5

LEMMA CollectKeeps == ScoreInv /\ Collect => ScoreInv'
<1> SUFFICES ASSUME ScoreInv, Collect PROVE ScoreInv'
  OBVIOUS
<1>1. /\ ScoreTypeOK /\ PlansAreDistinct /\ PartsAreFiled /\ SlotsAreSettled
      /\ CachedScoresAreWhole /\ NoPartRunsTwice
  BY DEF ScoreInv
<1>2. pc = "collect" /\ UNCHANGED <<pc, call, to_score, idx, n_dropped, result>>
  BY DEF Collect
<1>3. PICK c \in DOMAIN planned, a \in UNION {PartsOf(planned[i].spec) : i \in DOMAIN planned},
           outcome \in {"ok", "error"} :
         /\ <<c, a>> \in running
         /\ running' = running \ {<<c, a>>}
         /\ LET s == planned[c].spec
                filed == Filed(planned[c], a, outcome)
                last == filed.outstanding = 0
                commits == last /\ Commits(filed, outcome)
            IN  /\ planned' = [planned EXCEPT ![c] = filed]
                /\ cache' = IF commits THEN Stored(s, filed.values) ELSE cache
                /\ scored' = IF commits
                               THEN [i \in DOMAIN scored \cup filed.indices |->
                                       IF i \in filed.indices THEN cache'[s] ELSE scored[i]]
                               ELSE scored
                /\ errors' = IF last /\ ~commits THEN errors \o ErrorsOf(filed) ELSE errors
                /\ done' = IF last THEN done + Cardinality(filed.indices) ELSE done
                /\ asked' = [x \in DOMAIN asked \cup {<<s, a>>} |->
                               (IF x \in DOMAIN asked THEN asked[x] ELSE 0)
                                 + (IF x = <<s, a>> THEN 1 ELSE 0)]
                /\ failed' = IF outcome = "ok" THEN failed ELSE failed \cup {s}
  BY DEF Collect
<1> DEFINE s == planned[c].spec
           filed == Filed(planned[c], a, outcome)
           slots == planned[c].indices
           last == Waiting(c) \ {a} = {}
           commits == last /\ filed.error = "none"
           drops == last /\ filed.error # "none"
<1>4. /\ planned \in Seq(PlannedCandidate) /\ c \in 1 .. Len(planned)
      /\ planned[c] \in PlannedCandidate /\ s \in Spec_
      /\ planned[c].outstanding \in Nat /\ planned[c].error \in {"none", "error"}
  BY <1>1, CandidateIs
<1>5. a \in PartsOf(s) /\ IsFiniteSet(PartsOf(s)) /\ PartsOf(s) \subseteq Address
  <2>1. a \in PartsOf(s)
    BY <1>1, <1>3 DEF ScoreTypeOK
  <2> QED BY <1>4, <2>1, PartsFinite
<1>6. /\ DOMAIN planned[c].values = PartsOf(s)
      /\ planned[c].outstanding = Cardinality(Waiting(c))
      /\ planned[c].error = "none" <=> s \notin failed
      /\ planned[c].error = "none" =>
           \A x \in PartsOf(s) \ Waiting(c) : planned[c].values[x] = Value(s, x)
  BY <1>1 DEF PartsAreFiled
<1>7. /\ a \in Waiting(c) /\ IsFiniteSet(Waiting(c)) /\ IsFiniteSet(Waiting(c) \ {a})
      /\ Cardinality(Waiting(c) \ {a}) = planned[c].outstanding - 1
      /\ Cardinality(Waiting(c) \ {a}) \in Nat
  <2>1. a \in Waiting(c) /\ Waiting(c) \in SUBSET PartsOf(s)
    BY <1>3, <1>5 DEF Waiting
  <2> HIDE DEF Waiting
  <2>2. IsFiniteSet(Waiting(c))
    BY <1>5, <2>1, FS_Subset
  <2>3. IsFiniteSet(Waiting(c) \ {a})
    BY <2>2, FS_RemoveElement
  <2>4. Cardinality(Waiting(c) \ {a}) = Cardinality(Waiting(c)) - 1
    BY <2>1, <2>2, FS_RemoveElement
  <2> QED BY <1>6, <2>1, <2>2, <2>3, <2>4, CardIsNat
<1>8. /\ filed \in PlannedCandidate /\ filed.spec = s /\ filed.indices = slots
      /\ filed.outstanding = Cardinality(Waiting(c) \ {a})
      /\ filed.values = IF outcome = "ok" THEN [planned[c].values EXCEPT ![a] = Value(s, a)]
                        ELSE planned[c].values
      /\ filed.error = IF outcome = "ok" \/ planned[c].error # "none" THEN planned[c].error
                       ELSE outcome
  BY <1>4, <1>5, <1>6, <1>7, FiledIs
<1>9. filed.outstanding = 0 <=> last
  BY <1>7, <1>8, NoMembers
<1> HIDE DEF filed
<1>10. /\ planned' = [planned EXCEPT ![c] = filed]
       /\ cache' = IF commits THEN Stored(s, filed.values) ELSE cache
       /\ scored' = IF commits
                      THEN [i \in DOMAIN scored \cup slots |->
                              IF i \in slots THEN cache'[s] ELSE scored[i]]
                      ELSE scored
       /\ errors' = IF drops THEN errors \o ErrorsOf(filed) ELSE errors
       /\ done' = IF last THEN done + Cardinality(slots) ELSE done
       /\ asked' = [x \in DOMAIN asked \cup {<<s, a>>} |->
                      (IF x \in DOMAIN asked THEN asked[x] ELSE 0)
                        + (IF x = <<s, a>> THEN 1 ELSE 0)]
       /\ failed' = IF outcome = "ok" THEN failed ELSE failed \cup {s}
  BY <1>3, <1>8, <1>9 DEF Commits, filed
<1>11. /\ planned' \in Seq(PlannedCandidate) /\ DOMAIN planned' = DOMAIN planned
       /\ planned'[c] = filed /\ \A d \in DOMAIN planned : d # c => planned'[d] = planned[d]
       /\ \A d \in DOMAIN planned : planned'[d].spec = planned[d].spec
                                    /\ planned'[d].indices = planned[d].indices
  BY <1>4, <1>8, <1>10
<1>12. /\ Waiting(c)' = Waiting(c) \ {a}
       /\ \A d \in DOMAIN planned : d # c => Waiting(d)' = Waiting(d)
  <2>1. running' = running \ {<<c, a>>}
    BY <1>3
  <2>2. Waiting(c)' = Waiting(c) \ {a}
    BY <1>2, <1>11, <2>1 DEF Waiting
  <2>3. ASSUME NEW d \in DOMAIN planned, d # c PROVE Waiting(d)' = Waiting(d)
    BY <1>2, <1>11, <2>1, <2>3 DEF Waiting
  <2> QED BY <2>2, <2>3
<1>13. /\ slots = {i \in Seen : to_score[i] = s} /\ slots # {} /\ slots \in SUBSET Seen
       /\ s \notin DOMAIN cache /\ slots \cap (DOMAIN scored \cup Dropped) = {}
  <2>1. slots = {i \in Seen : to_score[i] = s} /\ slots # {}
    BY <1>1 DEF PlansAreDistinct
  <2>2. s \notin DOMAIN cache /\ slots \cap (DOMAIN scored \cup Dropped) = {}
    BY <1>7, WaitingIsUnsettled
  <2> QED BY <2>1, <2>2
<1>14. filed.error = "none" <=> s \notin failed'
  BY <1>4, <1>6, <1>8, <1>10
<1>15. commits => filed.values = Whole(s)
  <2> SUFFICES ASSUME commits PROVE filed.values = Whole(s)
    OBVIOUS
  <2>1. outcome = "ok" /\ planned[c].error = "none"
    BY <1>4, <1>8
  <2>2. filed.values = [planned[c].values EXCEPT ![a] = Value(s, a)]
    BY <1>8, <2>1
  <2>3. \A x \in PartsOf(s) : x # a => planned[c].values[x] = Value(s, x)
    BY <1>6, <2>1
  <2>4. planned[c].values \in Records
    BY <1>4 DEF PlannedCandidate
  <2>5. filed.values = [x \in PartsOf(s) |-> IF x = a THEN Value(s, a) ELSE planned[c].values[x]]
    BY <1>6, <2>2, <2>4 DEF Records
  <2>6. \A x \in PartsOf(s) : (IF x = a THEN Value(s, a) ELSE planned[c].values[x]) = Value(s, x)
    BY <2>3
  <2> QED BY <2>5, <2>6 DEF Whole
<1>16. /\ DOMAIN cache' = IF commits THEN DOMAIN cache \cup {s} ELSE DOMAIN cache
       /\ \A t \in DOMAIN cache : cache'[t] = cache[t]
       /\ commits => cache'[s] = Whole(s)
  BY <1>10, <1>13, <1>15 DEF Stored
<1>17. Seen' = Seen
  BY <1>2 DEF Seen
<1>18. Dropped' = IF drops THEN Dropped \cup slots ELSE Dropped
  <2>1. \A i \in Seen : i \in Dropped' <=>
          \E d \in DOMAIN planned : planned[d].spec = to_score[i] /\ Waiting(d)' = {}
                                    /\ planned'[d].error # "none"
    BY <1>2, <1>11, <1>17 DEF Dropped
  <2>2. \A i \in Seen : i \in Dropped <=>
          \E d \in DOMAIN planned : planned[d].spec = to_score[i] /\ Waiting(d) = {}
                                    /\ planned[d].error # "none"
    BY DEF Dropped
  <2>3. Dropped' \subseteq Seen /\ Dropped \subseteq Seen
    BY <1>17 DEF Dropped
  <2>4. ASSUME NEW i \in Seen PROVE i \in Dropped' <=> i \in Dropped \/ (drops /\ i \in slots)
    <3>1. ASSUME NEW d \in DOMAIN planned, d # c
          PROVE  /\ Waiting(d)' = {} <=> Waiting(d) = {}
                 /\ planned'[d].error = planned[d].error
      BY <1>11, <1>12, <3>1
    <3>2. Waiting(c) # {} /\ (Waiting(c)' = {} /\ planned'[c].error # "none" <=> drops)
      BY <1>7, <1>11, <1>12
    <3>3. i \in slots <=> planned[c].spec = to_score[i]
      BY <1>13
    <3> HIDE DEF drops, slots
    <3> QED BY <2>1, <2>2, <3>1, <3>2, <3>3
  <2> QED BY <1>13, <2>3, <2>4
<1>19. DOMAIN scored' = IF commits THEN DOMAIN scored \cup slots ELSE DOMAIN scored
  BY <1>10
<1>20. ScoreTypeOK'
  <2>1. errors' \in Seq({"error"})
    <3>1. errors \in Seq({"error"})
      BY <1>1 DEF ScoreTypeOK
    <3>2. CASE drops
      <4>1. filed.error = "error"
        BY <1>8, <3>2 DEF PlannedCandidate
      <4>2. Cardinality(slots) \in Nat
        BY <1>1, <1>13, SlotsFinite
      <4>3. ErrorsOf(filed) \in Seq({"error"})
        BY <1>8, <4>1, <4>2 DEF ErrorsOf
      <4> QED BY <1>10, <3>1, <3>2, <4>3
    <3>3. CASE ~drops
      BY <1>10, <3>1, <3>3
    <3> QED BY <3>2, <3>3
  <2>2. running' \subseteq (DOMAIN planned') \X Address
        /\ \A e \in running' : e[2] \in PartsOf(planned'[e[1]].spec)
    <3>1. running \subseteq (DOMAIN planned) \X Address
          /\ \A e \in running : e[2] \in PartsOf(planned[e[1]].spec)
      BY <1>1 DEF ScoreTypeOK
    <3>2. \A e \in running : e[1] \in DOMAIN planned
      BY <3>1
    <3> QED BY <1>3, <1>11, <3>1, <3>2
  <2>3. DOMAIN cache' \subseteq Spec_
    BY <1>1, <1>4, <1>16 DEF ScoreTypeOK
  <2>4. failed' \subseteq {planned'[d].spec : d \in DOMAIN planned'}
    <3>1. failed' \subseteq {planned[d].spec : d \in DOMAIN planned}
      BY <1>1, <1>10 DEF ScoreTypeOK
    <3> QED BY <1>11, <3>1
  <2> QED BY <1>1, <1>2, <1>11, <2>1, <2>2, <2>3, <2>4 DEF ScoreTypeOK
<1>21. PlansAreDistinct'
  <2>1. \A d, e \in DOMAIN planned' : planned'[d].spec = planned'[e].spec => d = e
    BY <1>1, <1>11 DEF PlansAreDistinct
  <2>2. \A d \in DOMAIN planned' :
          /\ planned'[d].indices = {i \in Seen' : to_score'[i] = planned'[d].spec}
          /\ planned'[d].indices # {}
          /\ PartsOf(planned'[d].spec) # {}
    BY <1>1, <1>2, <1>11, <1>17 DEF PlansAreDistinct
  <2>3. \A i \in Seen' : \/ to_score'[i] \in DOMAIN cache'
                         \/ \E d \in DOMAIN planned' : planned'[d].spec = to_score'[i]
    <3>1. \A i \in Seen : \/ to_score[i] \in DOMAIN cache
                          \/ \E d \in DOMAIN planned : planned[d].spec = to_score[i]
      BY <1>1 DEF PlansAreDistinct
    <3> QED BY <1>2, <1>11, <1>16, <1>17, <3>1
  <2>4. Seen' = DOMAIN to_score'
    BY <1>1, <1>2, <1>17 DEF PlansAreDistinct
  <2> QED BY <1>2, <2>1, <2>2, <2>3, <2>4 DEF PlansAreDistinct
<1>22. PartsAreFiled'
  <2>1. ASSUME NEW d \in DOMAIN planned, d # c
        PROVE  /\ DOMAIN planned'[d].values = PartsOf(planned'[d].spec)
               /\ planned'[d].outstanding = Cardinality(Waiting(d)')
               /\ planned'[d].error = "none" <=> planned'[d].spec \notin failed'
               /\ planned'[d].error = "none" =>
                    \A x \in PartsOf(planned'[d].spec) \ Waiting(d)' :
                      planned'[d].values[x] = Value(planned'[d].spec, x)
               /\ planned'[d].spec \in DOMAIN cache'
                    <=> Waiting(d)' = {} /\ planned'[d].error = "none"
    <3>1. planned'[d] = planned[d] /\ Waiting(d)' = Waiting(d) /\ planned[d].spec # s
      BY <1>1, <1>11, <1>12, <2>1 DEF PlansAreDistinct
    <3>2. planned[d].spec \in failed' <=> planned[d].spec \in failed
      BY <1>10, <3>1
    <3>3. planned[d].spec \in DOMAIN cache' <=> planned[d].spec \in DOMAIN cache
      BY <1>16, <3>1
    <3> QED BY <1>1, <3>1, <3>2, <3>3 DEF PartsAreFiled
  <2>2. DOMAIN filed.values = PartsOf(s)
    BY <1>6, <1>8
  <2>3. filed.error = "none" =>
          \A x \in PartsOf(s) \ (Waiting(c) \ {a}) : filed.values[x] = Value(s, x)
    <3> SUFFICES ASSUME filed.error = "none", NEW x \in PartsOf(s), x \notin Waiting(c) \ {a}
                 PROVE  filed.values[x] = Value(s, x)
      OBVIOUS
    <3>1. outcome = "ok" /\ planned[c].error = "none"
      BY <1>4, <1>8
    <3>2. x = a \/ (x # a /\ x \notin Waiting(c))
      OBVIOUS
    <3> QED BY <1>6, <1>8, <3>1, <3>2
  <2>4. s \in DOMAIN cache' <=> Waiting(c) \ {a} = {} /\ filed.error = "none"
    BY <1>13, <1>16
  <2>5. /\ DOMAIN planned'[c].values = PartsOf(planned'[c].spec)
        /\ planned'[c].outstanding = Cardinality(Waiting(c)')
        /\ planned'[c].error = "none" <=> planned'[c].spec \notin failed'
        /\ planned'[c].error = "none" =>
             \A x \in PartsOf(planned'[c].spec) \ Waiting(c)' :
               planned'[c].values[x] = Value(planned'[c].spec, x)
        /\ planned'[c].spec \in DOMAIN cache'
             <=> Waiting(c)' = {} /\ planned'[c].error = "none"
    BY <1>8, <1>11, <1>12, <1>14, <2>2, <2>3, <2>4
  <2> SUFFICES ASSUME NEW d \in DOMAIN planned'
        PROVE  /\ DOMAIN planned'[d].values = PartsOf(planned'[d].spec)
               /\ planned'[d].outstanding = Cardinality(Waiting(d)')
               /\ planned'[d].error = "none" <=> planned'[d].spec \notin failed'
               /\ planned'[d].error = "none" =>
                    \A x \in PartsOf(planned'[d].spec) \ Waiting(d)' :
                      planned'[d].values[x] = Value(planned'[d].spec, x)
               /\ planned'[d].spec \in DOMAIN cache'
                    <=> Waiting(d)' = {} /\ planned'[d].error = "none"
    BY DEF PartsAreFiled
  <2> QED BY <1>11, <2>1, <2>5
<1>23. SlotsAreSettled'
  <2>1. DOMAIN scored = {i \in Seen : to_score[i] \in DOMAIN cache}
        /\ (\A i \in DOMAIN scored : scored[i] = Whole(to_score[i]))
        /\ Len(errors) = Cardinality(Dropped)
        /\ done = Cardinality(DOMAIN scored \cup Dropped)
    BY <1>1 DEF SlotsAreSettled
  <2>2. Dropped \in SUBSET Seen /\ DOMAIN scored \cup Dropped \in SUBSET Seen
    BY <2>1 DEF Dropped
  <2>3. /\ IsFiniteSet(slots) /\ Cardinality(slots) \in Nat
        /\ IsFiniteSet(Dropped) /\ Cardinality(Dropped) \in Nat
        /\ IsFiniteSet(DOMAIN scored \cup Dropped)
    BY <1>1, <1>13, <2>2, SlotsFinite
  <2>4. DOMAIN scored' = {i \in Seen' : to_score'[i] \in DOMAIN cache'}
    BY <1>2, <1>13, <1>16, <1>17, <1>19, <2>1
  <2>5. \A i \in DOMAIN scored' : scored'[i] = Whole(to_score'[i])
    <3>1. CASE commits
      <4>1. \A i \in slots : scored'[i] = Whole(to_score[i])
        BY <1>10, <1>13, <1>16, <3>1
      <4>2. \A i \in DOMAIN scored : scored'[i] = Whole(to_score[i])
        BY <1>10, <1>13, <2>1, <3>1
      <4> QED BY <1>2, <1>19, <4>1, <4>2
    <3>2. CASE ~commits
      BY <1>2, <1>10, <2>1, <3>2
    <3> QED BY <3>1, <3>2
  <2>6. Len(errors') = Cardinality(Dropped')
    <3>1. CASE drops
      <4>1. errors \in Seq({"error"}) /\ Len(errors) \in Nat
        BY <1>1 DEF ScoreTypeOK
      <4>2. filed.error = "error"
        BY <1>8, <3>1 DEF PlannedCandidate
      <4>3. ErrorsOf(filed) \in Seq({"error"}) /\ Len(ErrorsOf(filed)) = Cardinality(slots)
        BY <1>8, <2>3, <4>2 DEF ErrorsOf
      <4>4. Len(errors') = Len(errors) + Cardinality(slots)
        <5>1. errors' = errors \o ErrorsOf(filed)
          BY <1>10, <3>1
        <5>2. Len(errors \o ErrorsOf(filed)) = Len(errors) + Len(ErrorsOf(filed))
          BY <4>1, <4>3, ConcatLen
        <5> QED BY <4>3, <5>1, <5>2
      <4>5. Dropped \cap slots = {}
        BY <1>13
      <4>6. Cardinality(Dropped \cup slots) = Cardinality(Dropped) + Cardinality(slots)
        <5> HIDE DEF slots
        <5> QED BY <2>3, <4>5, DisjointCard
      <4> QED BY <1>18, <2>1, <3>1, <4>4, <4>6
    <3>2. CASE ~drops
      BY <1>10, <1>18, <2>1, <3>2
    <3> QED BY <3>1, <3>2
  <2>7. done' = Cardinality(DOMAIN scored' \cup Dropped')
    <3>1. CASE last
      <4>1. DOMAIN scored' \cup Dropped' = (DOMAIN scored \cup Dropped) \cup slots
        BY <1>18, <1>19, <3>1
      <4>2. Cardinality((DOMAIN scored \cup Dropped) \cup slots)
              = Cardinality(DOMAIN scored \cup Dropped) + Cardinality(slots)
        <5>1. (DOMAIN scored \cup Dropped) \cap slots = {}
          BY <1>13
        <5> HIDE DEF slots
        <5> QED BY <2>3, <5>1, DisjointCard
      <4> QED BY <1>10, <2>1, <3>1, <4>1, <4>2
    <3>2. CASE ~last
      BY <1>10, <1>18, <1>19, <2>1, <3>2
    <3> QED BY <3>1, <3>2
  <2> QED BY <1>2, <2>4, <2>5, <2>6, <2>7 DEF SlotsAreSettled
<1>24. CachedScoresAreWhole'
  BY <1>1, <1>16 DEF CachedScoresAreWhole
<1>25. NoPartRunsTwice'
  <2>1. <<s, a>> \notin DOMAIN asked
    <3>1. \A e \in running : <<planned[e[1]].spec, e[2]>> \notin DOMAIN asked
      BY <1>1 DEF NoPartRunsTwice
    <3> QED BY <1>3, <3>1
  <2>2. \A x \in DOMAIN asked' : asked'[x] = 1
    <3>1. \A x \in DOMAIN asked : asked[x] = 1
      BY <1>1 DEF NoPartRunsTwice
    <3> QED BY <1>10, <2>1, <3>1
  <2>3. ASSUME NEW e \in running' PROVE <<planned'[e[1]].spec, e[2]>> \notin DOMAIN asked'
    <3>1. e \in running /\ e # <<c, a>>
      BY <1>3
    <3>2. e = <<e[1], e[2]>> /\ e[1] \in DOMAIN planned
      BY <1>1, <3>1 DEF ScoreTypeOK
    <3>3. <<planned[e[1]].spec, e[2]>> \notin DOMAIN asked
      BY <1>1, <3>1 DEF NoPartRunsTwice
    <3>4. <<planned[e[1]].spec, e[2]>> # <<s, a>>
      <4> SUFFICES ASSUME planned[e[1]].spec = s, e[2] = a PROVE FALSE
        OBVIOUS
      <4>1. e[1] = c
        BY <1>1, <3>2 DEF PlansAreDistinct
      <4> QED BY <3>1, <3>2, <4>1
    <3> QED BY <1>10, <1>11, <3>2, <3>3, <3>4
  <2> QED BY <2>2, <2>3 DEF NoPartRunsTwice
<1> QED
  BY <1>2, <1>20, <1>21, <1>22, <1>23, <1>24, <1>25
  DEF ScoreInv, ResultIsSerial, DropsAreCountedBySlot

-----------------------------------------------------------------------------
(* score_population: the verdict *)

LEMMA MinOfTwo ==
    ASSUME NEW x \in Int, NEW y \in Int
    PROVE  Min({x, y}) \in Int /\ Min({x, y}) <= x /\ Min({x, y}) <= y
<1>1. \E m \in {x, y} : \A n \in {x, y} : m <= n
  <2>1. CASE x <= y
    BY <2>1
  <2>2. CASE y <= x
    BY <2>2
  <2> QED BY <2>1, <2>2
<1>2. Min({x, y}) \in {x, y} /\ \A n \in {x, y} : Min({x, y}) <= n
  BY <1>1 DEF Min
<1> QED BY <1>2

LEMMA ToleratedIs ==
    ASSUME ScoreTypeOK
    PROVE  tolerated \in Int /\ (to_score # <<>> => tolerated <= Len(to_score) - 1)
<1>1. Len(to_score) \in Nat
  BY SlotsAre
<1>2. CASE to_score = <<>>
  BY <1>2 DEF tolerated
<1>3. CASE to_score # <<>>
  <2> DEFINE share == (FailurePercent * Len(to_score)) \div 100
             allowed == Max({1, share})
  <2>1. FailurePercent \in Nat
    BY ScoreAssumption
  <2>2. FailurePercent * Len(to_score) \in Int
    BY <1>1, <2>1
  <2>3. share \in Int
    BY <2>2
  <2> HIDE DEF share
  <2>4. IsFiniteSet({1} \cup {share}) /\ {1} \cup {share} = {1, share}
    <3>1. IsFiniteSet({1})
      BY FS_Singleton
    <3>2. IsFiniteSet({1} \cup {share})
      BY <3>1, FS_AddElement
    <3> QED BY <3>2
  <2>5. allowed \in Int
    <3>1. {1, share} \in SUBSET Int /\ {1, share} # {} /\ IsFiniteSet({1, share})
      BY <2>3, <2>4
    <3>2. Max({1, share}) \in {1, share}
      BY <3>1, MaxIs
    <3> QED BY <2>3, <3>2
  <2>6. tolerated = Min({Len(to_score) - 1, allowed})
    BY <1>3 DEF tolerated, share
  <2> HIDE DEF allowed
  <2>7. Len(to_score) - 1 \in Int
    BY <1>1
  <2> QED BY <2>5, <2>6, <2>7, MinOfTwo
<1> QED BY <1>2, <1>3

LEMMA ScoredIsNotDropped ==
    ASSUME ScoreInv
    PROVE  DOMAIN scored \cap Dropped = {}
<1>1. PlansAreDistinct /\ PartsAreFiled /\ SlotsAreSettled
  BY DEF ScoreInv
<1> SUFFICES ASSUME NEW i \in DOMAIN scored, i \in Dropped PROVE FALSE
  OBVIOUS
<1>2. PICK c \in DOMAIN planned : planned[c].spec = to_score[i] /\ planned[c].error # "none"
  BY DEF Dropped
<1>3. to_score[i] \in DOMAIN cache
  BY <1>1 DEF SlotsAreSettled
<1> QED BY <1>1, <1>2, <1>3 DEF PartsAreFiled

\* With nothing left to collect every slot is settled, by what failed.
LEMMA EverySlotIsSettled ==
    ASSUME ScoreInv, pc \in {"collect", "returned", "threw"}, running = {}
    PROVE  /\ DOMAIN scored \cup Dropped = DOMAIN to_score
           /\ \A i \in DOMAIN to_score : i \in DOMAIN scored <=> to_score[i] \notin failed
<1>1. ScoreTypeOK /\ PlansAreDistinct /\ PartsAreFiled /\ SlotsAreSettled
  BY DEF ScoreInv
<1>2. Seen = DOMAIN to_score
  BY <1>1 DEF PlansAreDistinct
<1>3. \A c \in DOMAIN planned : Waiting(c) = {}
  BY DEF Waiting
<1>4. DOMAIN scored = {i \in Seen : to_score[i] \in DOMAIN cache}
  BY <1>1 DEF SlotsAreSettled
<1>5. \A c \in DOMAIN planned :
        /\ planned[c].spec \in DOMAIN cache <=> planned[c].error = "none"
        /\ planned[c].spec \in DOMAIN cache <=> planned[c].spec \notin failed
  BY <1>1, <1>3 DEF PartsAreFiled
<1>6. ASSUME NEW i \in Seen, to_score[i] \notin DOMAIN cache
      PROVE  i \in Dropped /\ to_score[i] \in failed
  <2>1. PICK c \in DOMAIN planned : planned[c].spec = to_score[i]
    BY <1>1, <1>6 DEF PlansAreDistinct
  <2>2. planned[c].error # "none" /\ planned[c].spec \in failed
    BY <1>5, <1>6, <2>1
  <2> QED BY <1>3, <2>1, <2>2 DEF Dropped
<1>7. ASSUME NEW i \in Seen, to_score[i] \in DOMAIN cache
      PROVE  to_score[i] \notin failed
  <2>1. failed \subseteq {planned[c].spec : c \in DOMAIN planned}
    BY <1>1 DEF ScoreTypeOK
  <2> QED BY <1>5, <1>7, <2>1
<1>8. Dropped \subseteq Seen
  BY DEF Dropped
<1> QED BY <1>2, <1>4, <1>6, <1>7, <1>8

LEMMA JudgeKeeps == ScoreInv /\ Judge => ScoreInv'
<1> SUFFICES ASSUME ScoreInv, Judge PROVE ScoreInv'
  OBVIOUS
<1>1. /\ ScoreTypeOK /\ PlansAreDistinct /\ PartsAreFiled /\ SlotsAreSettled
      /\ CachedScoresAreWhole /\ NoPartRunsTwice
  BY DEF ScoreInv
<1>2. /\ pc = "collect" /\ running = {}
      /\ UNCHANGED <<call, to_score, idx, planned, running, scored, errors, done, cache, asked, failed>>
      /\ \/ /\ Len(errors) > tolerated
            /\ pc' = "threw" /\ UNCHANGED <<n_dropped, result>>
         \/ /\ ~(Len(errors) > tolerated)
            /\ pc' = "returned" /\ n_dropped' = n_dropped + Len(errors) /\ result' = Survivors
  BY DEF Judge
<1>3. /\ Len(to_score) \in Nat /\ DOMAIN to_score = 1 .. Len(to_score)
      /\ tolerated \in Int /\ (to_score # <<>> => tolerated <= Len(to_score) - 1)
  BY <1>1, SlotsAre, ToleratedIs
<1>4. /\ DOMAIN scored \cup Dropped = DOMAIN to_score
      /\ \A i \in DOMAIN to_score : i \in DOMAIN scored <=> to_score[i] \notin failed
  BY <1>2, EverySlotIsSettled
<1>5. DOMAIN scored \in SUBSET Seen /\ Dropped \in SUBSET Seen
  BY <1>1 DEF SlotsAreSettled, Dropped
<1>6. /\ IsFiniteSet(DOMAIN scored) /\ Cardinality(DOMAIN scored) \in Nat
      /\ IsFiniteSet(Dropped) /\ Cardinality(Dropped) \in Nat
  BY <1>1, <1>5, SlotsFinite
<1>7. /\ Len(errors) = Cardinality(Dropped) /\ Len(errors) \in Nat
      /\ Len(to_score) = Cardinality(DOMAIN scored) + Len(errors)
  <2>1. Cardinality(DOMAIN scored \cup Dropped) = Cardinality(DOMAIN scored) + Cardinality(Dropped)
    BY <1>6, ScoredIsNotDropped, DisjointCard
  <2>2. Cardinality(DOMAIN to_score) = Len(to_score)
    <3>1. 1 \in Int /\ Len(to_score) \in Int
      BY <1>3
    <3>2. Cardinality(1 .. Len(to_score))
            = IF 1 > Len(to_score) THEN 0 ELSE Len(to_score) - 1 + 1
      BY <3>1, FS_Interval
    <3> QED BY <1>3, <3>2
  <2>3. Len(errors) = Cardinality(Dropped)
    BY <1>1 DEF SlotsAreSettled
  <2> QED BY <1>4, <1>6, <2>1, <2>2, <2>3
<1> DEFINE kept == InOrder(DOMAIN scored)
           n == Cardinality(DOMAIN scored)
<1>8. /\ kept \in [1 .. n -> DOMAIN scored]
      /\ \A k, l \in 1 .. n : k < l => kept[k] < kept[l]
      /\ \A i \in DOMAIN scored : \E k \in 1 .. n : kept[k] = i
  <2>1. DOMAIN scored \in SUBSET Nat
    BY <1>3, <1>4
  <2> QED BY <1>6, <2>1, InOrderIs
<1>9. Survivors = [k \in 1 .. n |-> <<to_score[kept[k]], scored[kept[k]]>>]
  <2>1. DOMAIN kept = 1 .. n
    BY <1>8
  <2> QED BY <2>1 DEF Survivors
<1>10. Len(Survivors) = n
  <2> DEFINE X == {<<to_score[i], scored[i]>> : i \in DOMAIN scored}
  <2>1. \A k \in 1 .. n : <<to_score[kept[k]], scored[kept[k]]>> \in X
    BY <1>8
  <2>2. Survivors \in [1 .. n -> X]
    BY <1>9, <2>1
  <2> HIDE DEF X, n
  <2>3. n \in Nat
    BY <1>6 DEF n
  <2> QED BY <2>2, <2>3
<1> HIDE DEF kept, n
<1>11. Seen' = Seen
  BY <1>2 DEF Seen
<1>12. \A c \in DOMAIN planned : Waiting(c)' = Waiting(c)
  BY <1>2 DEF Waiting
<1>13. Dropped' = Dropped
  BY <1>2, <1>11, <1>12 DEF Dropped
<1>14. ScoreTypeOK'
  <2>1. n_dropped' \in Nat /\ pc' \in {"returned", "threw"}
    BY <1>1, <1>2, <1>7 DEF ScoreTypeOK
  <2> QED BY <1>1, <1>2, <2>1 DEF ScoreTypeOK
<1>15. PlansAreDistinct'
  BY <1>1, <1>2, <1>11 DEF PlansAreDistinct
<1>16. PartsAreFiled'
  BY <1>1, <1>2, <1>12 DEF PartsAreFiled
<1>17. SlotsAreSettled'
  BY <1>1, <1>2, <1>11, <1>13 DEF SlotsAreSettled
<1>18. CachedScoresAreWhole' /\ NoPartRunsTwice'
  BY <1>1, <1>2 DEF CachedScoresAreWhole, NoPartRunsTwice
<1>19. ResultIsSerial'
  <2> SUFFICES ASSUME pc' = "returned" PROVE ResultIsSerial'
    BY DEF ResultIsSerial
  <2>1. result' = Survivors /\ Len(result') = n
    BY <1>2, <1>10
  <2>2. kept \in [1 .. n -> DOMAIN to_score]
    BY <1>4, <1>8
  <2>3. \A i \in DOMAIN to_score :
          to_score[i] \notin failed <=> \E k \in 1 .. n : kept[k] = i
    BY <1>4, <1>8
  <2>4. result' = [k \in 1 .. n |-> <<to_score[kept[k]], Whole(to_score[kept[k]])>>]
    <3>1. \A i \in DOMAIN scored : scored[i] = Whole(to_score[i])
      BY <1>1 DEF SlotsAreSettled
    <3>2. \A k \in 1 .. n : scored[kept[k]] = Whole(to_score[kept[k]])
      BY <1>8, <3>1
    <3> QED BY <1>9, <2>1, <3>2
  <2>5. to_score' = to_score /\ failed' = failed
    BY <1>2
  <2>6. result' = [k \in 1 .. Len(result') |->
                    <<to_score'[kept[k]], Whole(to_score'[kept[k]])>>]
    BY <2>1, <2>4, <2>5
  <2>7. \A k, l \in 1 .. Len(result') : k < l => kept[k] < kept[l]
    BY <1>8, <2>1
  <2>8. \A i \in DOMAIN to_score' :
          to_score'[i] \notin failed' <=> \E k \in 1 .. Len(result') : kept[k] = i
    BY <2>1, <2>3, <2>5
  <2>9. kept \in [1 .. Len(result') -> DOMAIN to_score']
    BY <2>1, <2>2, <2>5
  <2> HIDE DEF kept, n
  <2> QED BY <2>6, <2>7, <2>8, <2>9 DEF ResultIsSerial
<1>20. DropsAreCountedBySlot'
  <2>1. tolerated' = tolerated
    BY <1>2 DEF tolerated
  <2>2. CASE pc' = "threw"
    <3>1. Len(to_score) - Cardinality(DOMAIN scored) > tolerated
      BY <1>2, <1>3, <1>6, <1>7, <2>2
    <3> QED BY <1>2, <2>1, <2>2, <3>1 DEF DropsAreCountedBySlot
  <2>3. CASE pc' = "returned"
    <3>1. Len(result') = Len(to_score) - Len(errors)
      <4>1. Len(result') = Cardinality(DOMAIN scored)
        BY <1>2, <1>10, <2>3 DEF n
      <4> QED BY <1>3, <1>6, <1>7, <4>1
    <3>2. to_score # <<>> => Len(result') >= 1
      BY <1>2, <1>3, <1>7, <2>3, <3>1
    <3> QED BY <1>2, <2>3, <3>1, <3>2 DEF DropsAreCountedBySlot
  <2> QED BY <1>2, <2>2, <2>3
<1> QED
  BY <1>14, <1>15, <1>16, <1>17, <1>18, <1>19, <1>20 DEF ScoreInv

\* Progress follows from what is settled.
LEMMA ScoreInvIsEnough == ScoreInv => ScoringIsSerial
<1> SUFFICES ASSUME ScoreInv PROVE ProgressCountsIndividuals
  BY DEF ScoreInv, ScoringIsSerial
<1>1. ScoreTypeOK /\ PlansAreDistinct /\ SlotsAreSettled
  BY DEF ScoreInv
<1> DEFINE settled == DOMAIN scored \cup Dropped
<1>2. /\ done = Cardinality(settled) /\ settled \in SUBSET Seen
      /\ Seen \in SUBSET (DOMAIN to_score) /\ DOMAIN to_score = 1 .. Len(to_score)
      /\ Len(to_score) \in Nat
  <2>1. done = Cardinality(settled) /\ settled \in SUBSET Seen
    BY <1>1 DEF SlotsAreSettled, Dropped
  <2> QED BY <1>1, <2>1, SlotsAre
<1>3. /\ IsFiniteSet(DOMAIN to_score) /\ Cardinality(DOMAIN to_score) = Len(to_score)
  <2>1. 1 \in Int /\ Len(to_score) \in Int
    BY <1>2
  <2>2. IsFiniteSet(1 .. Len(to_score))
    BY <2>1, FS_Interval
  <2>3. Cardinality(1 .. Len(to_score))
          = IF 1 > Len(to_score) THEN 0 ELSE Len(to_score) - 1 + 1
    BY <2>1, FS_Interval
  <2> QED BY <1>2, <2>2, <2>3
<1>4. done \in Nat /\ done <= Len(to_score)
      /\ (done = Len(to_score) => settled = DOMAIN to_score)
  <2>1. settled \in SUBSET (DOMAIN to_score)
    BY <1>2
  <2> HIDE DEF settled
  <2>2. IsFiniteSet(settled)
    BY <1>3, <2>1, FS_Subset
  <2>3. Cardinality(settled) <= Cardinality(DOMAIN to_score)
        /\ (Cardinality(DOMAIN to_score) = Cardinality(settled) => DOMAIN to_score = settled)
    BY <1>3, <2>1, FS_Subset
  <2> QED BY <1>2, <1>3, <2>2, <2>3, CardIsNat
<1>5. pc \in {"returned", "threw"} => done = Len(to_score)
  <2> SUFFICES ASSUME pc \in {"returned", "threw"} PROVE done = Len(to_score)
    OBVIOUS
  <2>1. running = {}
    BY <1>1 DEF SlotsAreSettled
  <2> QED BY <1>2, <1>3, <2>1, EverySlotIsSettled
<1>6. pc = "collect" /\ running # {} => done < Len(to_score)
  <2> SUFFICES ASSUME pc = "collect", running # {} PROVE settled # DOMAIN to_score
    BY <1>2, <1>4
  <2>1. PICK e \in running : TRUE
    OBVIOUS
  <2>2. e = <<e[1], e[2]>> /\ e[1] \in DOMAIN planned /\ e[2] \in PartsOf(planned[e[1]].spec)
    BY <1>1, <2>1 DEF ScoreTypeOK
  <2>3. e[2] \in Waiting(e[1])
    BY <2>1, <2>2 DEF Waiting
  <2>4. planned[e[1]].indices \cap settled = {}
    BY <2>2, <2>3, WaitingIsUnsettled
  <2>5. planned[e[1]].indices # {} /\ planned[e[1]].indices \subseteq Seen
    BY <1>1, <2>2 DEF PlansAreDistinct
  <2> QED BY <1>2, <2>4, <2>5
<1> QED BY <1>4, <1>5, <1>6 DEF ProgressCountsIndividuals

\* A step that changes nothing keeps every part.
LEMMA ScoreStutters == ScoreInv /\ UNCHANGED scoreVars => ScoreInv'
<1> SUFFICES ASSUME ScoreInv, UNCHANGED scoreVars PROVE ScoreInv'
  OBVIOUS
<1>1. /\ ScoreTypeOK /\ PlansAreDistinct /\ PartsAreFiled /\ SlotsAreSettled
      /\ ResultIsSerial /\ CachedScoresAreWhole /\ NoPartRunsTwice
      /\ DropsAreCountedBySlot
  BY DEF ScoreInv
<1>2. UNCHANGED <<pc, call, to_score, idx, planned, running, scored, errors, done,
                  cache, n_dropped, result, asked, failed>>
  BY DEF scoreVars
<1>3. Seen' = Seen
  BY <1>2 DEF Seen
<1>4. \A c : Waiting(c)' = Waiting(c)
  BY <1>2 DEF Waiting
<1>5. Dropped' = Dropped
  BY <1>2, <1>3, <1>4 DEF Dropped
<1>6. tolerated' = tolerated
  BY <1>2 DEF tolerated
<1>7. ScoreTypeOK'
  BY <1>1, <1>2 DEF ScoreTypeOK
<1>8. PlansAreDistinct'
  BY <1>1, <1>2, <1>3 DEF PlansAreDistinct
<1>9. PartsAreFiled'
  BY <1>1, <1>2, <1>4 DEF PartsAreFiled, Waiting
<1>10. SlotsAreSettled'
  BY <1>1, <1>2, <1>3, <1>5 DEF SlotsAreSettled
<1>11. ResultIsSerial'
  BY <1>1, <1>2 DEF ResultIsSerial
<1>12. CachedScoresAreWhole'
  BY <1>1, <1>2 DEF CachedScoresAreWhole
<1>13. NoPartRunsTwice'
  BY <1>1, <1>2 DEF NoPartRunsTwice
<1>14. DropsAreCountedBySlot'
  BY <1>1, <1>2, <1>6 DEF DropsAreCountedBySlot
<1> QED
  BY <1>7, <1>8, <1>9, <1>10, <1>11, <1>12, <1>13, <1>14 DEF ScoreInv

\* Whatever the specifications, how they split, the populations, what the cache
\* holds and which parts throw, in whatever order the parts land: a call scores
\* as a serial sweep would, stores only whole scores, runs no part twice, counts
\* what it drops by slot and reports its progress in individuals.
THEOREM ScoresSerially == ScoreSpec => []ScoringIsSerial
<1>1. ScoreInit => ScoreInv
  BY ScoreStarts
<1>2. ScoreInv /\ [ScoreNext]_scoreVars => ScoreInv'
  <2> SUFFICES ASSUME ScoreInv, [ScoreNext]_scoreVars PROVE ScoreInv'
    OBVIOUS
  <2>1. CASE Call
    BY <2>1, CallKeeps
  <2>2. CASE PlanCached
    BY <2>2, PlanCachedKeeps
  <2>3. CASE PlanRepeat
    BY <2>3, PlanRepeatKeeps
  <2>4. CASE PlanEmpty
    BY <2>4, PlanEmptyKeeps
  <2>5. CASE PlanNew
    BY <2>5, PlanNewKeeps
  <2>6. CASE Dispatch
    BY <2>6, DispatchKeeps
  <2>7. CASE Collect
    BY <2>7, CollectKeeps
  <2>8. CASE Judge
    BY <2>8, JudgeKeeps
  <2>9. CASE UNCHANGED scoreVars
    BY <2>9, ScoreStutters
  <2> QED BY <2>1, <2>2, <2>3, <2>4, <2>5, <2>6, <2>7, <2>8, <2>9 DEF ScoreNext
<1>3. ScoreInv => ScoringIsSerial
  BY ScoreInvIsEnough
<1> QED BY <1>1, <1>2, <1>3, PTL DEF ScoreSpec

=============================================================================
