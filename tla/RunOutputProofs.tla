-------------------------- MODULE RunOutputProofs --------------------------
(***************************************************************************)
(* What TLAPS proves of the output directory, for any candidates, preorder *)
(* and climb, any number of generations and of runs in one directory, any  *)
(* failing files, noticed or not, and a kill between any two steps: what   *)
(* DirectoryIsReadable promises a campaign that reads the directory, with  *)
(* what run.json is a witness of and what it is not, and that no whole     *)
(* accumulated file of the run is touched again (AccumulatedFilesSurvive). *)
(***************************************************************************)
EXTENDS RunOutput, FiniteSetTheorems, SequenceTheorems, WellFoundedInduction, TLAPS

-----------------------------------------------------------------------------
(* Lists *)

LEMMA LeastOf ==
    ASSUME NEW T \in SUBSET Nat, T # {}
    PROVE  \E x \in T : \A y \in T : x <= y
<1>1. PICK x \in T : \A y \in T : ~ (<<y, x>> \in OpToRel(<, Nat))
  BY NatLessThanWellFounded, WFMin
<1>2. ASSUME NEW y \in T, y < x PROVE FALSE
  <2>1. <<y, x>> \in OpToRel(<, Nat)
    BY <1>2 DEF OpToRel
  <2> QED BY <1>1, <2>1
<1> QED BY <1>2

LEMMA SeqIs ==
    ASSUME NEW T, NEW list \in Seq(T)
    PROVE  Len(list) \in Nat /\ DOMAIN list = 1 .. Len(list) /\ \A i \in 1 .. Len(list) : list[i] \in T
OBVIOUS

LEMMA RangeType ==
    ASSUME NEW T, NEW list \in Seq(T)
    PROVE  Range(list) \subseteq T
BY SeqIs DEF Range

LEMMA InRange ==
    ASSUME NEW T, NEW list \in Seq(T), NEW i \in 1 .. Len(list)
    PROVE  list[i] \in Range(list)
BY DEF Range

LEMMA FromRange ==
    ASSUME NEW T, NEW list \in Seq(T), NEW s \in Range(list)
    PROVE  \E i \in 1 .. Len(list) : s = list[i]
BY DEF Range

LEMMA RangeFinite ==
    ASSUME NEW T, NEW list \in Seq(T)
    PROVE  IsFiniteSet(Range(list))
<1>1. Len(list) \in Nat /\ DOMAIN list = 1 .. Len(list)
  BY SeqIs
<1>2. IsFiniteSet(1 .. Len(list))
  BY <1>1, FS_Interval
<1>3. list \in Surjection(1 .. Len(list), Range(list))
  BY <1>1 DEF Surjection, Range
<1> QED BY <1>2, <1>3, FS_Surjection

LEMMA SeqFrom ==
    ASSUME NEW T, NEW n \in Nat, NEW f \in [1 .. n -> T]
    PROVE  f \in Seq(T) /\ Len(f) = n
OBVIOUS

\* What Firsts gives: each member once.
LEMMA FirstsIs ==
    ASSUME NEW T, NEW list \in Seq(T), NEW S, NEW sub \in Firsts(S, list)
    PROVE  /\ sub \in Seq(T)
           /\ Range(sub) = S \cap Range(list)
           /\ \A i, j \in 1 .. Len(sub) : i # j => sub[i] # sub[j]
<1> DEFINE found == S \cap Range(list)
<1>1. IsFiniteSet(found) /\ found \subseteq T
  BY RangeType, RangeFinite, FS_Subset
<1>2. Cardinality(found) \in Nat
  BY <1>1, FS_CardinalityType
<1>3. sub \in [1 .. Cardinality(found) -> found] /\ Range(sub) = found
  BY DEF Firsts
<1>4. sub \in Seq(found) /\ DOMAIN sub = 1 .. Len(sub) /\ Len(sub) \in Nat
  <2>1. sub \in Seq(found)
    BY <1>2, <1>3, SeqFrom
  <2> QED BY <2>1, SeqIs
<1>5. \A i, j \in DOMAIN sub : i < j =>
         \E k \in DOMAIN list : list[k] = sub[i] /\ \A l \in 1 .. k : list[l] # sub[j]
  BY DEF Firsts
<1>6. ASSUME NEW i \in 1 .. Len(sub), NEW j \in 1 .. Len(sub), i < j PROVE sub[i] # sub[j]
  <2>1. PICK k \in DOMAIN list : list[k] = sub[i] /\ \A l \in 1 .. k : list[l] # sub[j]
    BY <1>4, <1>5, <1>6
  <2>2. k \in 1 .. k
    OBVIOUS
  <2> QED BY <2>1, <2>2
<1>7. \A i, j \in 1 .. Len(sub) : i # j => sub[i] # sub[j]
  <2> SUFFICES ASSUME NEW i \in 1 .. Len(sub), NEW j \in 1 .. Len(sub), i # j
               PROVE  sub[i] # sub[j]
    OBVIOUS
  <2>1. i < j \/ j < i
    BY <1>4
  <2> QED BY <1>6, <2>1
<1>8. sub \in Seq(T)
  BY <1>1, <1>4
<1> QED BY <1>3, <1>7, <1>8

LEMMA Longer ==
    ASSUME NEW T, NEW a \in Seq(T), NEW b \in Seq(T)
    PROVE  /\ a \o b \in Seq(T) /\ Len(a \o b) = Len(a) + Len(b)
           /\ \A i \in 1 .. Len(a) : (a \o b)[i] = a[i]
           /\ \A j \in 1 .. Len(b) : (a \o b)[Len(a) + j] = b[j]
OBVIOUS

LEMMA RangeOfConcat ==
    ASSUME NEW T, NEW a \in Seq(T), NEW b \in Seq(T)
    PROVE  a \o b \in Seq(T) /\ Range(a \o b) = Range(a) \cup Range(b)
<1>1. a \o b \in Seq(T) /\ Len(a \o b) = Len(a) + Len(b)
  OBVIOUS
<1>2. ASSUME NEW s \in Range(a \o b) PROVE s \in Range(a) \cup Range(b)
  <2>1. PICK i \in 1 .. Len(a \o b) : s = (a \o b)[i]
    BY <1>1, InRange, FromRange
  <2>2. CASE i <= Len(a)
    BY <2>1, <2>2, <1>1, InRange, FromRange
  <2>3. CASE i > Len(a)
    <3>1. i - Len(a) \in 1 .. Len(b) /\ s = b[i - Len(a)]
      BY <2>1, <2>3, <1>1
    <3> QED BY <3>1, InRange, FromRange
  <2> QED BY <2>1, <2>2, <2>3, <1>1
<1>3. ASSUME NEW s \in Range(a) PROVE s \in Range(a \o b)
  <2>1. PICK i \in 1 .. Len(a) : s = a[i]
    BY InRange, FromRange
  <2>2. i \in 1 .. Len(a \o b) /\ s = (a \o b)[i]
    BY <2>1, <1>1
  <2> QED BY <2>2, <1>1, InRange, FromRange
<1>4. ASSUME NEW s \in Range(b) PROVE s \in Range(a \o b)
  <2>1. PICK i \in 1 .. Len(b) : s = b[i]
    BY InRange, FromRange
  <2>2. Len(a) + i \in 1 .. Len(a \o b) /\ s = (a \o b)[Len(a) + i]
    BY <2>1, <1>1
  <2>3. PICK j \in 1 .. Len(a \o b) : s = (a \o b)[j]
    BY <2>2
  <2> QED BY <2>3, <1>1, InRange
<1> QED BY <1>1, <1>2, <1>3, <1>4

LEMMA RangeOfAppend ==
    ASSUME NEW T, NEW a \in Seq(T), NEW x \in T
    PROVE  Append(a, x) \in Seq(T) /\ Range(Append(a, x)) = Range(a) \cup {x}
<1>1. Append(a, x) \in Seq(T) /\ Len(Append(a, x)) = Len(a) + 1
      /\ \A i \in 1 .. Len(a) + 1 : Append(a, x)[i] = IF i = Len(a) + 1 THEN x ELSE a[i]
  OBVIOUS
<1>2. ASSUME NEW s \in Range(Append(a, x)) PROVE s \in Range(a) \cup {x}
  <2>1. PICK i \in 1 .. Len(a) + 1 : s = Append(a, x)[i]
    BY <1>1, FromRange
  <2>2. s = x \/ (i \in 1 .. Len(a) /\ s = a[i])
    BY <2>1, <1>1
  <2> QED BY <2>2, InRange, FromRange
<1>3. ASSUME NEW s \in Range(a) PROVE s \in Range(Append(a, x))
  <2>1. PICK i \in 1 .. Len(a) : s = a[i]
    BY InRange, FromRange
  <2>2. i \in 1 .. Len(a) + 1 /\ s = Append(a, x)[i]
    BY <2>1, <1>1
  <2> QED BY <2>2, <1>1, InRange, FromRange
<1>4. x \in Range(Append(a, x))
  <2>1. Len(a) \in Nat /\ Len(a) + 1 \in 1 .. Len(Append(a, x))
    BY <1>1, SeqIs
  <2>2. Append(a, x)[Len(a) + 1] \in Range(Append(a, x))
    BY <2>1, <1>1, InRange
  <2> QED BY <2>1, <2>2, <1>1
<1> QED BY <1>1, <1>2, <1>3, <1>4

-----------------------------------------------------------------------------
(* The maximal entries of a list *)

LEMMA Preorder ==
    /\ \A s \in Candidates : <<s, s>> \in Implies
    /\ \A s, t, u \in Candidates :
         <<s, t>> \in Implies /\ <<t, u>> \in Implies => <<s, u>> \in Implies
    /\ Climbed \in [Candidates -> Candidates]
    /\ \A s \in Candidates : <<Climbed[s], s>> \in Implies
BY RunOutputAssumption

\* Nothing above an entry is lost: something that stays implies it. Of the
\* entries that imply it, take one that implies as many as any, the first of these.
LEMMA SomethingStays ==
    ASSUME NEW list \in Seq(Entry), NEW i \in Indices(list)
    PROVE  \E entry \in MaximalEntries(list) : <<entry.spec, list[i].spec>> \in Implies
<1> DEFINE n == Len(list)
           Below(j) == {k \in 1 .. n : <<list[j].spec, list[k].spec>> \in Implies}
           above == {j \in 1 .. n : <<list[j].spec, list[i].spec>> \in Implies}
           Lack(j) == n - Cardinality(Below(j))
           lacks == {Lack(j) : j \in above}
<1>1. n \in Nat /\ i \in 1 .. n /\ \A j \in 1 .. n : list[j].spec \in Candidates
  <2>1. n \in Nat /\ \A j \in 1 .. n : list[j] \in Entry
    BY SeqIs
  <2> QED BY <2>1 DEF Indices, Entry
<1> HIDE DEF n
<1>2. \A j \in 1 .. n : IsFiniteSet(Below(j)) /\ Cardinality(Below(j)) \in 0 .. n
  <2> SUFFICES ASSUME NEW j \in 1 .. n
               PROVE  IsFiniteSet(Below(j)) /\ Cardinality(Below(j)) \in 0 .. n
    OBVIOUS
  <2>1. IsFiniteSet(1 .. n) /\ Cardinality(1 .. n) = n
    BY <1>1, FS_Interval
  <2>2. Below(j) \in SUBSET (1 .. n)
    OBVIOUS
  <2>3. IsFiniteSet(Below(j)) /\ Cardinality(Below(j)) <= n
    BY <2>1, <2>2, FS_Subset
  <2> QED BY <2>3, <1>1, FS_CardinalityType
<1>3. i \in above
  BY <1>1, Preorder
<1>l. \A j \in 1 .. n : Lack(j) \in Nat
  <2>1. \A j \in 1 .. n : Cardinality(Below(j)) \in 0 .. n
    BY <1>2
  <2> HIDE DEF Below
  <2> QED BY <2>1, <1>1
<1>a. above \in SUBSET (1 .. n) /\ 1 .. n \in SUBSET Nat
  BY <1>1
<1> HIDE DEF Lack
<1>4. lacks \in SUBSET Nat /\ lacks # {}
  BY <1>3, <1>l, <1>a
<1> HIDE DEF lacks
<1>5. PICK least \in lacks : \A y \in lacks : least <= y
  BY <1>4, LeastOf
<1> DEFINE best == {j \in above : Lack(j) = least}
<1>6. best \in SUBSET Nat /\ best # {}
  BY <1>5, <1>a DEF lacks
<1>7. PICK b \in best : \A j \in best : b <= j
  BY <1>6, LeastOf
<1> HIDE DEF best
<1>8. b \in 1 .. n /\ <<list[b].spec, list[i].spec>> \in Implies
  BY <1>7 DEF best
\* Whatever implies the chosen entry implies the same entries as it does.
<1>9. ASSUME NEW j \in 1 .. n, <<list[j].spec, list[b].spec>> \in Implies
      PROVE  j \in best /\ <<list[b].spec, list[j].spec>> \in Implies
  <2>1. j \in above
    BY <1>1, <1>8, <1>9, Preorder
  <2>2. Below(b) \in SUBSET Below(j)
    BY <1>1, <1>8, <1>9, Preorder
  <2>3. Cardinality(Below(b)) <= Cardinality(Below(j))
    BY <2>2, <1>2, FS_Subset
  <2>4. least <= Lack(j)
    BY <1>5, <2>1 DEF lacks
  <2>5. Lack(b) = least
    BY <1>7 DEF best
  <2>6. Cardinality(Below(b)) = Cardinality(Below(j))
    <3>1. Cardinality(Below(b)) \in 0 .. n /\ Cardinality(Below(j)) \in 0 .. n
      BY <1>2, <1>8, <1>9
    <3> HIDE DEF Below
    <3> QED BY <2>3, <2>4, <2>5, <3>1, <1>1 DEF Lack
  <2>7. Below(b) = Below(j)
    BY <2>2, <2>6, <1>2, FS_Subset
  <2>8. j \in Below(j)
    BY <1>1, Preorder
  <2>9. Lack(j) = least
    BY <2>5, <2>6 DEF Lack
  <2> QED BY <2>1, <2>7, <2>8, <2>9 DEF best
<1>10. Stays(list, b)
  <2> SUFFICES ASSUME NEW j \in 1 .. n, j # b, <<list[j].spec, list[b].spec>> \in Implies
               PROVE  <<list[b].spec, list[j].spec>> \in Implies /\ ~(j < b)
    BY DEF Stays, Strictly, Indices, n
  <2>1. j \in best /\ <<list[b].spec, list[j].spec>> \in Implies
    BY <1>9
  <2>2. b <= j /\ b \in Nat /\ j \in Nat
    BY <2>1, <1>7, <1>6
  <2> QED BY <2>1, <2>2
<1>11. list[b] \in MaximalEntries(list)
  BY <1>8, <1>10 DEF MaximalEntries, Indices, n
<1> QED BY <1>8, <1>11

\* Of two entries that stay neither implies the other.
LEMMA StayingIsAntichain ==
    ASSUME NEW list \in Seq(Entry), NEW i \in Indices(list), NEW j \in Indices(list), i # j,
           Stays(list, i), Stays(list, j)
    PROVE  <<list[i].spec, list[j].spec>> \notin Implies
<1>1. i \in Nat /\ j \in Nat /\ (i < j \/ j < i)
  BY DEF Indices
<1> QED BY <1>1 DEF Stays, Strictly

\* What a merge keeps of a list.
LEMMA MergedIs ==
    ASSUME NEW list \in Seq(Entry), NEW kept \in Firsts(MaximalEntries(list), list)
    PROVE  /\ kept \in Seq(Entry)
           /\ Range(kept) \subseteq Range(list)
           /\ \A e \in Range(list) : \E k \in Range(kept) : <<k.spec, e.spec>> \in Implies
           /\ \A i, j \in Indices(kept) : i # j => <<kept[i].spec, kept[j].spec>> \notin Implies
<1>1. /\ kept \in Seq(Entry)
      /\ Range(kept) = MaximalEntries(list) \cap Range(list)
      /\ \A i, j \in 1 .. Len(kept) : i # j => kept[i] # kept[j]
  BY FirstsIs
<1>2. MaximalEntries(list) \subseteq Range(list)
  BY InRange, FromRange DEF MaximalEntries, Indices
<1>3. \A e \in Range(list) : \E k \in Range(kept) : <<k.spec, e.spec>> \in Implies
  <2> SUFFICES ASSUME NEW e \in Range(list)
               PROVE  \E k \in Range(kept) : <<k.spec, e.spec>> \in Implies
    OBVIOUS
  <2>1. PICK i \in Indices(list) : e = list[i]
    BY InRange, FromRange DEF Indices
  <2> QED BY <2>1, <1>1, <1>2, SomethingStays
<1>4. ASSUME NEW i \in Indices(kept), NEW j \in Indices(kept), i # j
      PROVE  <<kept[i].spec, kept[j].spec>> \notin Implies
  <2>1. kept[i] \in MaximalEntries(list) /\ kept[j] \in MaximalEntries(list) /\ kept[i] # kept[j]
    BY <1>1, <1>4, InRange, FromRange DEF Indices
  <2>2. PICK k \in Indices(list) : Stays(list, k) /\ kept[i] = list[k]
    BY <2>1 DEF MaximalEntries
  <2>3. PICK l \in Indices(list) : Stays(list, l) /\ kept[j] = list[l]
    BY <2>1 DEF MaximalEntries
  <2> QED BY <2>1, <2>2, <2>3, StayingIsAntichain
<1> QED BY <1>1, <1>2, <1>3, <1>4
-----------------------------------------------------------------------------
(* Files *)

\* What a step of the writer opening a file, or of a file's text reaching it, is.
LEMMA OpenedIs ==
    ASSUME TypeOK, OpenFile
    PROVE  /\ DOMAIN files' = DOMAIN files \cup {CurrentName}
           /\ files'[CurrentName] = [doc |-> Accumulating, whole |-> FALSE, run |-> runNumber]
           /\ \A n \in DOMAIN files : n # CurrentName => files'[n] = files[n]
BY DEF OpenFile, With

LEMMA WrittenIs ==
    ASSUME TypeOK, FilesAreNumbered, WriteFile
    PROVE  /\ DOMAIN files' = DOMAIN files
           /\ CurrentName \in OwnFiles /\ ~files[CurrentName].whole
           /\ files'[CurrentName] = [doc |-> Accumulating, whole |-> TRUE, run |-> runNumber]
           /\ \A n \in DOMAIN files : n # CurrentName => files'[n] = files[n]
<1>1. /\ files' = [files EXCEPT ![CurrentName].whole = TRUE]
      /\ CurrentName \in OwnFiles /\ files[CurrentName].doc = Accumulating
      /\ files[CurrentName].whole = FALSE
  BY DEF WriteFile, FilesAreNumbered
<1>2. files[CurrentName] \in [doc : Candidates, whole : BOOLEAN, run : 1 .. runNumber]
  BY <1>1 DEF TypeOK, OwnFiles
<1>3. files[CurrentName] = [doc |-> Accumulating, whole |-> FALSE, run |-> runNumber]
  BY <1>1, <1>2 DEF OwnFiles
<1> QED BY <1>1, <1>3 DEF OwnFiles

-----------------------------------------------------------------------------
(* Every variable keeps its type *)

LEMMA AccumulatingIs ==
    ASSUME TypeOK, WriterIsPlaced, Offering
    PROVE  /\ Len(m_specifications) \in Nat \ {0}
           /\ Accumulating = m_specifications[Len(m_specifications)]
           /\ Accumulating \in Candidates /\ Accumulating \in m_seen
<1>1. m_specifications \in Seq(Candidates) /\ m_specifications # <<>>
  BY DEF TypeOK, WriterIsPlaced
<1>2. Len(m_specifications) \in Nat \ {0}
  BY <1>1
<1>3. m_specifications[Len(m_specifications)] \in Candidates
  BY <1>1, <1>2, SeqIs
<1>4. m_specifications[Len(m_specifications)] \in Range(m_specifications)
  BY <1>1, <1>2, InRange
<1> QED BY <1>2, <1>3, <1>4 DEF Accumulating, Last, m_seen

LEMMA CurrentNameIs ==
    ASSUME TypeOK, WriterIsPlaced, Offering
    PROVE  CurrentName \in FileName /\ CurrentName[2] = m_sequence /\ CurrentName # NoName
<1>1. generation \in 1 .. Generations /\ m_sequence \in Nat
  BY RunOutputAssumption DEF TypeOK, WriterIsPlaced
<1> QED BY <1>1 DEF CurrentName, Name, FileName, NoName

LEMMA CountIs ==
    ASSUME NEW count \in Nat, OwnRepairs = 0 .. count - 1
    PROVE  Cardinality(OwnRepairs) = count
<1>1. CASE count = 0
  <2>1. OwnRepairs = {}
    BY <1>1
  <2> QED BY <1>1, <2>1, FS_EmptySet
<1>2. CASE count # 0
  BY <1>2, FS_Interval
<1> QED BY <1>1, <1>2

\* The next repair is the first that is not opened.
LEMMA NextRepair ==
    ASSUME TypeOK, RepairsAreNumbered, Emitting
    PROVE  /\ Cardinality(OwnRepairs) \in 0 .. Len(output)
           /\ OwnRepairs = 0 .. Cardinality(OwnRepairs) - 1
           /\ pc = "repair" => Cardinality(OwnRepairs) > 0
<1>1. PICK count \in 0 .. Len(output) : OwnRepairs = 0 .. count - 1 /\ (pc = "repair" => count > 0)
  BY DEF RepairsAreNumbered
<1>2. Len(output) \in Nat /\ count \in Nat
  BY SeqIs DEF TypeOK
<1>3. Cardinality(OwnRepairs) = count
  BY <1>1, <1>2, CountIs
<1> QED BY <1>1, <1>3

LEMMA TypeInit == Init => TypeOK
<1> SUFFICES ASSUME Init PROVE TypeOK
  OBVIOUS
<1>1. /\ setting \in Settings /\ pc \in OpenPc /\ coordinator \in {"wait", "list"}
      /\ runNumber \in Nat \ {0} /\ m_sequence \in Nat
  BY DEF Init, OpenPc
<1>6. generation \in 0 .. Generations
  BY RunOutputAssumption DEF Init
<1>7. {m_created, m_failed, m_error, m_any_named, m_listing_failed} \subseteq BOOLEAN
  BY DEF Init
<1>8. manifest \in [run : 0 .. runNumber, n_repairs : Nat, whole : BOOLEAN]
  BY DEF Init
<1>2. {arriving, m_specifications, final, output} \subseteq Seq(Candidates)
  BY DEF Init
<1>3. m_queue \in Seq(Entry) /\ m_members \in Seq(Entry)
  BY DEF Init
<1>4. /\ index \in Seq([kind : {"header", "torn"}, run : 1 .. runNumber] \cup
                       [kind : {"row"}, run : 1 .. runNumber, name : FileName])
      /\ maximal_tsv \in Seq([name : FileName, run : 1 .. runNumber])
  BY DEF Init
<1>5. DOMAIN files = {} /\ DOMAIN repairs = {} /\ IsFiniteSet(DOMAIN repairs)
  BY FS_EmptySet DEF Init
<1> QED BY <1>1, <1>2, <1>3, <1>4, <1>5, <1>6, <1>7, <1>8 DEF TypeOK

\* What a step of the driver is, with each action a case.
LEMMA StepIs ==
    ASSUME Next
    PROVE  \/ Generation \/ Insert \/ OpenFile \/ OpenFails \/ WriteFile \/ WriteFails
           \/ AppendIndexRow \/ AppendFails \/ Sink
           \/ FinishSearch \/ Drained \/ OpenRepair \/ WriteRepair \/ OpenManifest \/ WriteManifest
           \/ (Running /\ Merge) \/ (Running /\ WriteListing) \/ Kill \/ StartAgain
BY DEF Next, Driver, Coordinator

LEMMA FilesTyped ==
    ASSUME TypeOK, WriterIsPlaced, FilesAreNumbered, Next
    PROVE  /\ DOMAIN files' \subseteq FileName
           /\ \A n \in DOMAIN files' :
                files'[n] \in [doc : Candidates, whole : BOOLEAN, run : 1 .. runNumber']
<1>1. CASE OpenFile
  <2>1. runNumber' = runNumber /\ pc = "open" /\ runNumber \in Nat \ {0}
    BY <1>1 DEF OpenFile, search, TypeOK
  <2>2. CurrentName \in FileName /\ Accumulating \in Candidates
    BY <2>1, CurrentNameIs, AccumulatingIs DEF Offering, Writing
  <2>3. DOMAIN files' \subseteq FileName
    BY <1>1, <2>2, OpenedIs DEF TypeOK
  <2>4. files'[CurrentName] \in [doc : Candidates, whole : BOOLEAN, run : 1 .. runNumber']
    <3>1. [doc |-> Accumulating, whole |-> FALSE, run |-> runNumber]
            \in [doc : Candidates, whole : BOOLEAN, run : 1 .. runNumber']
      BY <2>1, <2>2
    <3>2. files'[CurrentName] = [doc |-> Accumulating, whole |-> FALSE, run |-> runNumber]
      BY <1>1, OpenedIs
    <3> QED BY <3>1, <3>2
  <2>5. \A n \in DOMAIN files : n # CurrentName =>
          files'[n] \in [doc : Candidates, whole : BOOLEAN, run : 1 .. runNumber']
    BY <1>1, <2>1, OpenedIs DEF TypeOK
  <2>6. DOMAIN files' = DOMAIN files \cup {CurrentName}
    BY <1>1, OpenedIs
  <2> QED BY <2>3, <2>4, <2>5, <2>6
<1>2. CASE WriteFile
  <2>1. runNumber' = runNumber /\ pc = "write" /\ runNumber \in Nat \ {0}
    BY <1>2 DEF WriteFile, search, TypeOK
  <2>2. Accumulating \in Candidates
    BY <2>1, AccumulatingIs DEF Offering, Writing
  <2>3. DOMAIN files' = DOMAIN files
    BY <1>2, WrittenIs
  <2>4. files'[CurrentName] \in [doc : Candidates, whole : BOOLEAN, run : 1 .. runNumber']
    <3>1. [doc |-> Accumulating, whole |-> TRUE, run |-> runNumber]
            \in [doc : Candidates, whole : BOOLEAN, run : 1 .. runNumber']
      BY <2>1, <2>2
    <3>2. files'[CurrentName] = [doc |-> Accumulating, whole |-> TRUE, run |-> runNumber]
      BY <1>2, WrittenIs
    <3> QED BY <3>1, <3>2
  <2>5. \A n \in DOMAIN files : n # CurrentName =>
          files'[n] \in [doc : Candidates, whole : BOOLEAN, run : 1 .. runNumber']
    BY <1>2, <2>1, WrittenIs DEF TypeOK
  <2> QED BY <2>3, <2>4, <2>5 DEF TypeOK
<1>3. CASE files' = files /\ runNumber' = runNumber
  BY <1>3 DEF TypeOK
<1>4. CASE files' = files /\ runNumber' = runNumber + 1
  <2>1. 1 .. runNumber \subseteq 1 .. runNumber'
    BY <1>4 DEF TypeOK
  <2> QED BY <1>4, <2>1 DEF TypeOK
<1> QED
  BY <1>1, <1>2, <1>3, <1>4, StepIs
     DEF Generation, Insert, OpenFails, WriteFails, AppendIndexRow, AppendFails, Sink,
         FinishSearch, Drained, OpenRepair, WriteRepair, OpenManifest, WriteManifest, Merge,
         WriteListing, Kill, StartAgain, disk, search

LEMMA RepairsTyped ==
    ASSUME TypeOK, RepairsAreNumbered, Next
    PROVE  /\ DOMAIN repairs' \subseteq Nat
           /\ \A n \in DOMAIN repairs' :
                repairs'[n] \in [doc : Candidates, whole : BOOLEAN, run : 1 .. runNumber']
<1>1. CASE OpenRepair
  <2> DEFINE n == Cardinality(OwnRepairs)
  <2>1. runNumber' = runNumber /\ runNumber \in Nat \ {0} /\ n < Len(output)
    BY <1>1 DEF OpenRepair, search, TypeOK
  <2>2. n \in Nat /\ output[n + 1] \in Candidates
    <3>1. n \in 0 .. Len(output)
      BY <1>1, NextRepair DEF OpenRepair, Emitting
    <3>2. output \in Seq(Candidates)
      BY DEF TypeOK
    <3> HIDE DEF n
    <3> QED BY <3>1, <3>2, <2>1, SeqIs
  <2>3. CASE repairs' = With(repairs, n, [doc |-> output[n + 1], whole |-> FALSE, run |-> runNumber])
    <3> HIDE DEF n
    <3>1. /\ DOMAIN repairs \subseteq Nat
          /\ \A k \in DOMAIN repairs :
               repairs[k] \in [doc : Candidates, whole : BOOLEAN, run : 1 .. runNumber]
      BY DEF TypeOK
    <3>2. [doc |-> output[n + 1], whole |-> FALSE, run |-> runNumber]
            \in [doc : Candidates, whole : BOOLEAN, run : 1 .. runNumber]
      BY <2>1, <2>2
    <3> QED BY <2>1, <2>2, <2>3, <3>1, <3>2 DEF With
  <2>4. CASE repairs' = repairs
    BY <2>1, <2>4 DEF TypeOK
  <2> QED BY <1>1, <2>3, <2>4 DEF OpenRepair
<1>2. CASE WriteRepair
  <2> DEFINE n == Cardinality(OwnRepairs) - 1
  <2>1. /\ runNumber' = runNumber
        /\ repairs' = repairs \/ repairs' = [repairs EXCEPT ![n].whole = TRUE]
    BY <1>2 DEF WriteRepair, search
  <2> HIDE DEF n
  <2>2. /\ DOMAIN repairs \subseteq Nat
        /\ \A k \in DOMAIN repairs :
             repairs[k] \in [doc : Candidates, whole : BOOLEAN, run : 1 .. runNumber]
    BY DEF TypeOK
  <2>3. \A k \in DOMAIN repairs :
          [repairs[k] EXCEPT !.whole = TRUE] \in [doc : Candidates, whole : BOOLEAN, run : 1 .. runNumber]
    BY <2>2
  <2> QED BY <2>1, <2>2, <2>3
<1>3. CASE repairs' = repairs /\ runNumber' = runNumber
  BY <1>3 DEF TypeOK
<1>4. CASE repairs' = repairs /\ runNumber' = runNumber + 1
  <2>1. 1 .. runNumber \subseteq 1 .. runNumber'
    BY <1>4 DEF TypeOK
  <2> QED BY <1>4, <2>1 DEF TypeOK
<1> QED
  BY <1>1, <1>2, <1>3, <1>4, StepIs
     DEF Generation, Insert, OpenFile, OpenFails, WriteFile, WriteFails, AppendIndexRow,
         AppendFails, Sink, FinishSearch, Drained, OpenManifest, WriteManifest, Merge,
         WriteListing, Kill, StartAgain, disk, search

LEMMA RepairsFinite ==
    ASSUME TypeOK, Next
    PROVE  IsFiniteSet(DOMAIN repairs')
<1>1. CASE OpenRepair
  <2>1. CASE repairs' = repairs
    BY <2>1 DEF TypeOK
  <2>2. ASSUME NEW n, NEW content, repairs' = With(repairs, n, content)
        PROVE  IsFiniteSet(DOMAIN repairs')
    <3>1. DOMAIN repairs' = DOMAIN repairs \cup {n}
      BY <2>2 DEF With
    <3>2. IsFiniteSet(DOMAIN repairs)
      BY DEF TypeOK
    <3>3. IsFiniteSet(DOMAIN repairs \cup {n})
      BY <3>2, FS_AddElement
    <3> QED BY <3>1, <3>3
  <2> QED BY <1>1, <2>1, <2>2 DEF OpenRepair
<1>2. CASE DOMAIN repairs' = DOMAIN repairs
  BY <1>2 DEF TypeOK
<1> QED
  BY <1>1, <1>2, StepIs
     DEF Generation, Insert, OpenFile, OpenFails, WriteFile, WriteFails, AppendIndexRow,
         AppendFails, Sink, FinishSearch, Drained, WriteRepair, OpenManifest, WriteManifest,
         Merge, WriteListing, Kill, StartAgain, disk

HeaderRow(run) == [kind |-> "header", run |-> run]
FileRow(run, name) == [kind |-> "row", run |-> run, name |-> name]

Row(runs) == [kind : {"header", "torn"}, run : 1 .. runs] \cup
             [kind : {"row"}, run : 1 .. runs, name : FileName]

\* What the writer adds to the index: a row, which is the last of it.
LEMMA LinesAre ==
    ASSUME TypeOK, WriterIsPlaced, pc = "index"
    PROVE  /\ IndexLines \in Seq(Row(runNumber)) /\ TornLine \in Row(runNumber)
           /\ Len(IndexLines) = IF m_sequence = 0 THEN 2 ELSE 1
           /\ IndexLines[Len(IndexLines)] = FileRow(runNumber, CurrentName)
           /\ m_sequence = 0 => IndexLines[1] = HeaderRow(runNumber)
<1> DEFINE head == HeaderRow(runNumber)
           row == FileRow(runNumber, CurrentName)
           T == Row(runNumber)
<1>1. runNumber \in Nat \ {0} /\ CurrentName \in FileName
  BY CurrentNameIs DEF Offering, Writing, TypeOK
<1>2. head \in T /\ TornLine \in T
  <2>1. /\ head \in [kind : {"header", "torn"}, run : 1 .. runNumber]
        /\ TornLine \in [kind : {"header", "torn"}, run : 1 .. runNumber]
    BY <1>1 DEF HeaderRow, TornLine
  <2> QED BY <2>1 DEF Row
<1>3. row \in T
  <2>1. row \in [kind : {"row"}, run : 1 .. runNumber, name : FileName]
    BY <1>1 DEF FileRow
  <2> QED BY <2>1 DEF Row
<1>4. IndexLines = (IF m_sequence = 0 THEN <<head>> ELSE <<>>) \o <<row>>
  BY DEF IndexLines, HeaderRow, FileRow
<1> HIDE DEF head, row, T
<1>5. <<head>> \in Seq(T) /\ <<>> \in Seq(T) /\ <<row>> \in Seq(T)
  BY <1>2, <1>3
<1>6. CASE m_sequence = 0
  <2>1. IndexLines = <<head>> \o <<row>>
    BY <1>4, <1>6
  <2>2. /\ IndexLines \in Seq(T) /\ Len(IndexLines) = 2
        /\ IndexLines[1] = head /\ IndexLines[2] = row
    BY <1>5, <2>1, Longer
  <2> QED BY <1>2, <1>6, <2>2 DEF head, row, T
<1>7. CASE m_sequence # 0
  <2>1. IndexLines = <<>> \o <<row>>
    BY <1>4, <1>7
  <2>2. /\ IndexLines \in Seq(T) /\ Len(IndexLines) = 1 /\ IndexLines[1] = row
    BY <1>5, <2>1, Longer
  <2> QED BY <1>2, <1>7, <2>2 DEF row, T
<1> QED BY <1>6, <1>7

\* A failed append leaves all of the lines, or none of the run's row.
LEMMA LinesReached ==
    ASSUME TypeOK, WriterIsPlaced, AppendFails
    PROVE  \/ index' = index \o IndexLines
           \/ \E rest \in Seq(Row(runNumber)) :
                /\ index' = index \o rest
                /\ \A i \in 1 .. Len(rest) : rest[i].kind # "row"
<1> DEFINE T == Row(runNumber)
<1>1. pc = "index" /\ m_sequence \in Nat
  BY DEF AppendFails, TypeOK
<1>2. /\ TornLine \in T /\ IndexLines \in Seq(T) /\ index \in Seq(T)
      /\ Len(IndexLines) = IF m_sequence = 0 THEN 2 ELSE 1
      /\ m_sequence = 0 => IndexLines[1] = HeaderRow(runNumber)
  BY <1>1, LinesAre DEF TypeOK, Row
<1>3. HeaderRow(runNumber).kind # "row" /\ TornLine.kind # "row"
  BY DEF HeaderRow, TornLine
<1>4. PICK reached \in 0 .. Len(IndexLines) :
        \/ index' = index \o SubSeq(IndexLines, 1, reached)
        \/ /\ reached < Len(IndexLines)
           /\ index' = Append(index \o SubSeq(IndexLines, 1, reached), TornLine)
  BY DEF AppendFails
<1> HIDE DEF T
<1> DEFINE part == SubSeq(IndexLines, 1, reached)
<1>5. /\ part \in Seq(T) /\ Len(part) = reached
      /\ \A i \in 1 .. reached : part[i] = IndexLines[i]
  <2>1. reached \in Nat /\ reached \in Int /\ 1 \in Int
    BY <1>2
  <2>2. \A i \in 1 .. reached : IndexLines[i] \in T
    BY <1>2, <2>1, SeqIs
  <2>3. /\ part \in Seq(T)
        /\ Len(part) = IF 1 <= reached THEN reached - 1 + 1 ELSE 0
        /\ \A i \in 1 .. reached - 1 + 1 : part[i] = IndexLines[1 + i - 1]
    BY <2>1, <2>2, SubSeqProperties
  <2> QED BY <2>1, <2>3
<1> HIDE DEF part
<1>6. CASE reached = Len(IndexLines)
  <2>1. part = IndexLines
    BY <1>2, <1>5, <1>6, SeqEqual
  <2> QED BY <1>4, <1>6, <2>1 DEF part
<1>7. CASE reached < Len(IndexLines)
  <2>1. \A i \in 1 .. Len(part) : part[i].kind # "row"
    <3> SUFFICES ASSUME NEW i \in 1 .. Len(part) PROVE part[i].kind # "row"
      OBVIOUS
    <3>1. i = 1 /\ m_sequence = 0 /\ reached = 1
      BY <1>2, <1>5, <1>7
    <3> QED BY <1>2, <1>3, <1>5, <3>1
  <2>2. Append(index \o part, TornLine) = index \o Append(part, TornLine)
    BY <1>2, <1>5
  <2>3. /\ Append(part, TornLine) \in Seq(T)
        /\ \A i \in 1 .. Len(Append(part, TornLine)) : Append(part, TornLine)[i].kind # "row"
    BY <1>2, <1>3, <1>5, <2>1
  <2>4. index' = index \o part \/ index' = index \o Append(part, TornLine)
    BY <1>4, <2>2 DEF part
  <2> QED BY <1>5, <2>1, <2>3, <2>4 DEF T
<1> QED BY <1>2, <1>6, <1>7

LEMMA IndexTyped ==
    ASSUME TypeOK, WriterIsPlaced, Next
    PROVE  index' \in Seq(Row(runNumber'))
<1>0. index \in Seq(Row(runNumber))
  BY DEF TypeOK, Row
<1>1. CASE AppendIndexRow \/ AppendFails
  <2>1. runNumber' = runNumber /\ pc = "index"
    BY <1>1 DEF AppendIndexRow, AppendFails, search
  <2>2. IndexLines \in Seq(Row(runNumber))
    BY <2>1, LinesAre
  <2>3. \E rest \in Seq(Row(runNumber)) : index' = index \o rest
    BY <1>1, <2>2, LinesReached DEF AppendIndexRow
  <2> QED BY <1>0, <2>1, <2>3
<1>2. CASE index' = index /\ runNumber' = runNumber
  BY <1>0, <1>2
<1>3. CASE index' = index /\ runNumber' = runNumber + 1
  <2>1. Row(runNumber) \subseteq Row(runNumber')
    <3>1. 1 .. runNumber \subseteq 1 .. runNumber'
      BY <1>3 DEF TypeOK
    <3> QED BY <3>1 DEF Row
  <2>2. \A i \in 1 .. Len(index) : index[i] \in Row(runNumber')
    BY <1>0, <2>1, SeqIs
  <2>3. index \in [1 .. Len(index) -> Row(runNumber')] /\ Len(index) \in Nat
    BY <1>0, <2>2, SeqIs
  <2> QED BY <1>3, <2>3, SeqFrom
<1> QED
  BY <1>1, <1>2, <1>3, StepIs
     DEF Generation, Insert, OpenFile, OpenFails, WriteFile, WriteFails,
         Sink, FinishSearch, Drained, OpenRepair, WriteRepair, OpenManifest, WriteManifest,
         Merge, WriteListing, Kill, StartAgain, disk, search

\* What a listing lists: each named member once.
LEMMA ListedIs ==
    ASSUME TypeOK, NEW named \in Firsts(NamedMembers, m_members)
    PROVE  /\ named \in Seq(Entry)
           /\ \A i \in 1 .. Len(named) : /\ named[i] \in Range(m_members) /\ IsNamed(named[i])
                                         /\ named[i].name \in FileName
           /\ \A i, j \in 1 .. Len(named) : i # j => named[i] # named[j]
<1>1. m_members \in Seq(Entry)
  BY DEF TypeOK
<1>2. /\ named \in Seq(Entry)
      /\ Range(named) = NamedMembers \cap Range(m_members)
      /\ \A i, j \in 1 .. Len(named) : i # j => named[i] # named[j]
  BY <1>1, FirstsIs
<1>3. ASSUME NEW i \in 1 .. Len(named)
      PROVE  named[i] \in Range(m_members) /\ IsNamed(named[i]) /\ named[i].name \in FileName
  <2>1. named[i] \in NamedMembers /\ named[i] \in Entry
    BY <1>2, SeqIs, InRange
  <2> QED BY <2>1 DEF NamedMembers, IsNamed, Entry
<1> QED BY <1>2, <1>3

LEMMA ListingTyped ==
    ASSUME TypeOK, Next
    PROVE  maximal_tsv' \in Seq([name : FileName, run : 1 .. runNumber'])
<1>0. maximal_tsv \in Seq([name : FileName, run : 1 .. runNumber]) /\ runNumber \in Nat \ {0}
  BY DEF TypeOK
<1>1. CASE WriteListing
  <2>1. runNumber' = runNumber
    BY <1>1 DEF WriteListing, search
  <2>2. ASSUME NEW named \in Firsts(NamedMembers, m_members),
               maximal_tsv' = [i \in Indices(named) |-> [name |-> named[i].name, run |-> runNumber]]
        PROVE  maximal_tsv' \in Seq([name : FileName, run : 1 .. runNumber])
    <3>1. /\ Len(named) \in Nat
          /\ \A i \in 1 .. Len(named) : named[i].name \in FileName
      BY ListedIs, SeqIs
    <3>2. maximal_tsv' \in [1 .. Len(named) -> [name : FileName, run : 1 .. runNumber]]
      BY <3>1, <2>2, <1>0 DEF Indices
    <3> QED BY <3>1, <3>2, SeqFrom
  <2> QED BY <1>0, <1>1, <2>1, <2>2 DEF WriteListing
<1>2. CASE maximal_tsv' = maximal_tsv /\ runNumber' = runNumber
  BY <1>0, <1>2
<1>3. CASE maximal_tsv' = maximal_tsv /\ runNumber' = runNumber + 1
  <2>1. 1 .. runNumber \subseteq 1 .. runNumber'
    BY <1>0, <1>3
  <2>4. [name : FileName, run : 1 .. runNumber] \subseteq [name : FileName, run : 1 .. runNumber']
    BY <2>1
  <2>2. \A i \in 1 .. Len(maximal_tsv) : maximal_tsv[i] \in [name : FileName, run : 1 .. runNumber']
    BY <1>0, <2>4, SeqIs
  <2>3. /\ maximal_tsv \in [1 .. Len(maximal_tsv) -> [name : FileName, run : 1 .. runNumber']]
        /\ Len(maximal_tsv) \in Nat
    BY <1>0, <2>2, SeqIs
  <2> QED BY <1>3, <2>3, SeqFrom
<1> QED
  BY <1>1, <1>2, <1>3, StepIs
     DEF Generation, Insert, OpenFile, OpenFails, WriteFile, WriteFails, AppendIndexRow,
         AppendFails, Sink, FinishSearch, Drained, OpenRepair, WriteRepair, OpenManifest,
         WriteManifest, Merge, Kill, StartAgain, disk, search

\* The entries a list of specifications makes, none with a file.
Unnamed(list) == [i \in Indices(list) |-> [spec |-> list[i], name |-> NoName]]

LEMMA UnnamedIs ==
    ASSUME NEW list \in Seq(Candidates)
    PROVE  /\ Unnamed(list) \in Seq(Entry)
           /\ \A e \in Range(Unnamed(list)) : e.spec \in Range(list) /\ ~IsNamed(e)
           /\ \A s \in Range(list) : \E e \in Range(Unnamed(list)) : e.spec = s
<1>1. Len(list) \in Nat /\ \A i \in 1 .. Len(list) : list[i] \in Candidates
  BY SeqIs
<1>2. Unnamed(list) \in [1 .. Len(list) -> Entry]
  BY <1>1 DEF Unnamed, Indices, Entry
<1>3. Unnamed(list) \in Seq(Entry) /\ Len(Unnamed(list)) = Len(list)
  BY <1>1, <1>2, SeqFrom
<1>4. \A i \in 1 .. Len(list) : Unnamed(list)[i].spec = list[i] /\ Unnamed(list)[i].name = NoName
  BY DEF Unnamed, Indices
<1>5. ASSUME NEW e \in Range(Unnamed(list)) PROVE e.spec \in Range(list) /\ ~IsNamed(e)
  <2>1. PICK i \in 1 .. Len(list) : e = Unnamed(list)[i]
    BY <1>3, FromRange
  <2> QED BY <2>1, <1>4, InRange DEF IsNamed
<1>6. ASSUME NEW s \in Range(list) PROVE \E e \in Range(Unnamed(list)) : e.spec = s
  <2>1. PICK i \in 1 .. Len(list) : s = list[i]
    BY FromRange
  <2>2. Unnamed(list)[i] \in Range(Unnamed(list))
    BY <1>3, InRange
  <2> QED BY <2>1, <2>2, <1>4
<1> QED BY <1>3, <1>5, <1>6

LEMMA ClimbType ==
    ASSUME NEW list \in Seq(Candidates)
    PROVE  /\ Climb(list) \in Seq(Candidates) /\ Len(Climb(list)) = Len(list)
           /\ \A i \in 1 .. Len(list) : Climb(list)[i] = Climbed[list[i]]
<1>1. Len(list) \in Nat /\ \A i \in 1 .. Len(list) : list[i] \in Candidates
  BY SeqIs
<1>2. Climb(list) \in [1 .. Len(list) -> Candidates]
  BY <1>1, Preorder DEF Climb, Indices
<1> QED BY <1>1, <1>2, SeqFrom DEF Climb, Indices

\* What finish_search screens and what it pushes.
LEMMA FinalIs ==
    ASSUME TypeOK, FinishSearch
    PROVE  /\ final' \in Seq(Candidates) /\ m_seen \subseteq Range(final')
           /\ \E new \in Seq(Candidates) :
                /\ Range(new) = Range(Climb(final')) \ m_seen
                /\ m_queue' = m_queue \o Unnamed(new)
<1>1. PICK population \in Populations :
        final' \in MergeAccumulated(population, m_specifications) /\ PushAll(Climb(final'))
  BY DEF FinishSearch
<1>2. population \in Seq(Candidates) /\ m_specifications \in Seq(Candidates)
  BY RunOutputAssumption DEF TypeOK, Populations
<1>3. PICK added \in Firsts(Range(m_specifications) \ Range(population), m_specifications) :
        final' = population \o added
  BY <1>1 DEF MergeAccumulated
<1>4. /\ added \in Seq(Candidates)
      /\ Range(added) = (Range(m_specifications) \ Range(population)) \cap Range(m_specifications)
  BY <1>2, FirstsIs
<1>5. final' \in Seq(Candidates) /\ m_seen \subseteq Range(final')
  BY <1>2, <1>3, <1>4, RangeOfConcat DEF m_seen
<1> DEFINE list == Climb(final')
<1>6. list \in Seq(Candidates)
  BY <1>5, ClimbType
<1>7. PICK new \in Firsts(Range(list) \ m_seen, list) : m_queue' = m_queue \o Unnamed(new)
  BY <1>1 DEF PushAll, Unnamed
<1>8. new \in Seq(Candidates) /\ Range(new) = (Range(list) \ m_seen) \cap Range(list)
  BY <1>6, FirstsIs
<1> HIDE DEF list
<1>9. Range(new) = Range(list) \ m_seen
  BY <1>8
<1> QED BY <1>5, <1>7, <1>8, <1>9 DEF list

\* The entry Sink pushes.
LEMMA PushedIs ==
    ASSUME TypeOK, WriterIsPlaced, Sink
    PROVE  \E entry \in Entry :
             /\ m_queue' = Append(m_queue, entry)
             /\ entry.spec = Accumulating /\ Offering
             /\ \/ pc = "count" /\ entry.name = CurrentName
                \/ pc = "sink" /\ entry.name = NoName
<1>1. pc \in {"count", "sink"}
  BY DEF Sink
<1>2. Accumulating \in Candidates /\ CurrentName \in FileName /\ Offering
  BY <1>1, AccumulatingIs, CurrentNameIs DEF Offering, Writing
<1>3. CASE pc = "count"
  <2>1. [spec |-> Accumulating, name |-> CurrentName] \in Entry
    BY <1>2 DEF Entry
  <2> QED BY <1>2, <1>3, <2>1 DEF Sink, Push
<1>4. CASE pc = "sink"
  <2>1. [spec |-> Accumulating, name |-> NoName] \in Entry
    BY <1>2 DEF Entry
  <2> QED BY <1>2, <1>4, <2>1 DEF Sink, Push, NameWhereNothingWritten
<1> QED BY <1>1, <1>3, <1>4

LEMMA StreamTyped ==
    ASSUME TypeOK, WriterIsPlaced, Next
    PROVE  m_queue' \in Seq(Entry) /\ m_members' \in Seq(Entry)
<1>0. m_queue \in Seq(Entry) /\ m_members \in Seq(Entry)
  BY DEF TypeOK
<1>1. CASE Sink
  <2>1. m_members' = m_members
    BY <1>1 DEF Sink
  <2>2. m_queue' \in Seq(Entry)
    BY <1>0, <1>1, PushedIs
  <2> QED BY <1>0, <2>1, <2>2
<1>2. CASE FinishSearch
  <2>1. m_members' = m_members
    BY <1>2 DEF FinishSearch
  <2>2. PICK new \in Seq(Candidates) : m_queue' = m_queue \o Unnamed(new)
    BY <1>2, FinalIs
  <2>3. m_queue' \in Seq(Entry)
    BY <1>0, <2>2, UnnamedIs
  <2> QED BY <1>0, <2>1, <2>3
<1>3. CASE Merge
  <2>1. m_queue' = <<>>
    BY <1>3 DEF Merge
  <2>2. m_members \o m_queue \in Seq(Entry)
    BY <1>0
  <2>3. \/ m_members' = m_members
        \/ m_members' \in Firsts(MaximalEntries(m_members \o m_queue), m_members \o m_queue)
    BY <1>3 DEF Merge
  <2>4. m_members' \in Seq(Entry)
    BY <1>0, <2>2, <2>3, MergedIs
  <2> QED BY <2>1, <2>4
<1>4. CASE StartAgain
  <2>1. m_queue' = <<>> /\ m_members' = <<>>
    BY <1>4 DEF StartAgain
  <2> QED BY <2>1
<1>5. CASE m_queue' = m_queue /\ m_members' = m_members
  BY <1>0, <1>5
<1> QED
  BY <1>1, <1>2, <1>3, <1>4, <1>5, StepIs
     DEF Generation, Insert, OpenFile, OpenFails, WriteFile, WriteFails, AppendIndexRow,
         AppendFails, Drained, OpenRepair, WriteRepair, OpenManifest, WriteManifest,
         WriteListing, Kill, stream

LEMMA ListsTyped ==
    ASSUME TypeOK, Next
    PROVE  {arriving', m_specifications', final', output'} \subseteq Seq(Candidates)
<1>0. /\ arriving \in Seq(Candidates) /\ m_specifications \in Seq(Candidates)
      /\ final \in Seq(Candidates) /\ output \in Seq(Candidates) /\ setting \in Settings
  BY DEF TypeOK
<1>1. CASE Generation
  <2>1. arriving' \in Seq(Candidates)
    BY <1>0, <1>1, RunOutputAssumption DEF Generation, Populations
  <2> QED BY <1>0, <1>1, <2>1 DEF Generation, tail
<1>2. CASE Insert
  <2>1. arriving # <<>> /\ arriving' = Tail(arriving) /\ final' = final /\ output' = output
    BY <1>2 DEF Insert, tail
  <2>2. arriving' \in Seq(Candidates) /\ Head(arriving) \in Candidates
    BY <1>0, <2>1
  <2>4. \/ m_specifications' = m_specifications
        \/ m_specifications' = Append(m_specifications, Head(arriving))
    BY <1>2 DEF Insert
  <2>3. m_specifications' \in Seq(Candidates)
    <3>1. Append(m_specifications, Head(arriving)) \in Seq(Candidates)
      BY <1>0, <2>2, RangeOfAppend
    <3> QED BY <1>0, <2>4, <3>1
  <2> QED BY <1>0, <2>1, <2>2, <2>3
<1>3. CASE FinishSearch
  BY <1>0, <1>3, FinalIs DEF FinishSearch, search
<1>4. CASE Drained
  <2>1. Climb(final) \o final \in Seq(Candidates)
    BY <1>0, ClimbType
  <2>2. output' \in Seq(Candidates)
    BY <1>0, <1>4, <2>1, FirstsIs DEF Drained, Emitted
  <2> QED BY <1>0, <1>4, <2>2 DEF Drained, search
<1>5. CASE StartAgain
  <2>1. arriving' = <<>> /\ m_specifications' = <<>> /\ final' = <<>> /\ output' = <<>>
    BY <1>5 DEF StartAgain
  <2> QED BY <2>1
<1>6. CASE UNCHANGED <<arriving, m_specifications, final, output>>
  BY <1>0, <1>6
<1> QED
  BY <1>1, <1>2, <1>3, <1>4, <1>5, <1>6, StepIs
     DEF OpenFile, OpenFails, WriteFile, WriteFails, AppendIndexRow, AppendFails, Sink,
         OpenRepair, WriteRepair, OpenManifest, WriteManifest, Merge, WriteListing, Kill,
         search, tail

LEMMA ScalarsTyped ==
    ASSUME TypeOK, Next
    PROVE  /\ setting' \in Settings /\ pc' \in OpenPc /\ coordinator' \in {"wait", "list"}
           /\ runNumber' \in Nat \ {0} /\ generation' \in 0 .. Generations /\ m_sequence' \in Nat
           /\ manifest' \in [run : 0 .. runNumber', n_repairs : Nat, whole : BOOLEAN]
<1>1. setting' \in Settings
  BY StepIs
     DEF Generation, Insert, OpenFile, OpenFails, WriteFile, WriteFails, AppendIndexRow,
         AppendFails, Sink, FinishSearch, Drained, OpenRepair, WriteRepair, OpenManifest,
         WriteManifest, Merge, WriteListing, Kill, StartAgain, search, TypeOK
<1>2. pc' \in OpenPc
  BY StepIs
     DEF Generation, Insert, OpenFile, OpenFails, WriteFile, WriteFails, AppendIndexRow,
         AppendFails, Sink, FinishSearch, Drained, OpenRepair, WriteRepair, OpenManifest,
         WriteManifest, Merge, WriteListing, Kill, StartAgain, TypeOK, OpenPc, AfterFailure,
         AfterDocument
<1>3. coordinator' \in {"wait", "list"}
  BY StepIs
     DEF Generation, Insert, OpenFile, OpenFails, WriteFile, WriteFails, AppendIndexRow,
         AppendFails, Sink, FinishSearch, Drained, OpenRepair, WriteRepair, OpenManifest,
         WriteManifest, Merge, WriteListing, Kill, StartAgain, TypeOK, stream
<1>4. runNumber' \in Nat \ {0} /\ (runNumber' = runNumber \/ runNumber' = runNumber + 1)
  <2>1. runNumber' = runNumber \/ runNumber' = runNumber + 1
    BY StepIs
       DEF Generation, Insert, OpenFile, OpenFails, WriteFile, WriteFails, AppendIndexRow,
           AppendFails, Sink, FinishSearch, Drained, OpenRepair, WriteRepair, OpenManifest,
           WriteManifest, Merge, WriteListing, Kill, StartAgain, search
  <2>2. runNumber \in Nat \ {0}
    BY DEF TypeOK
  <2> QED BY <2>1, <2>2
<1>5. generation' \in 0 .. Generations
  <2>1. \/ generation' = generation \/ generation' = 0
        \/ generation < Generations /\ generation' = generation + 1
    BY StepIs
       DEF Generation, Insert, OpenFile, OpenFails, WriteFile, WriteFails, AppendIndexRow,
           AppendFails, Sink, FinishSearch, Drained, OpenRepair, WriteRepair, OpenManifest,
           WriteManifest, Merge, WriteListing, Kill, StartAgain, search
  <2> QED BY <2>1, RunOutputAssumption DEF TypeOK
<1>6. m_sequence' \in Nat
  <2>1. m_sequence' = m_sequence \/ m_sequence' = 0 \/ m_sequence' = m_sequence + 1
    BY StepIs
       DEF Generation, Insert, OpenFile, OpenFails, WriteFile, WriteFails, AppendIndexRow,
           AppendFails, Sink, FinishSearch, Drained, OpenRepair, WriteRepair, OpenManifest,
           WriteManifest, Merge, WriteListing, Kill, StartAgain, writer
  <2>2. m_sequence \in Nat
    BY DEF TypeOK
  <2> QED BY <2>1, <2>2
<1>7. /\ manifest \in [run : 0 .. runNumber, n_repairs : Nat, whole : BOOLEAN]
      /\ Cardinality(DOMAIN repairs) \in Nat
  BY FS_CardinalityType DEF TypeOK
<1>8. manifest' \in [run : 0 .. runNumber, n_repairs : Nat, whole : BOOLEAN]
  <2>0. runNumber \in 0 .. runNumber
    BY DEF TypeOK
  <2>1. CASE manifest' = manifest
    BY <1>7, <2>1
  <2>2. CASE OpenManifest
    <3>1. [run |-> runNumber, n_repairs |-> Cardinality(DOMAIN repairs), whole |-> FALSE]
            \in [run : 0 .. runNumber, n_repairs : Nat, whole : BOOLEAN]
      BY <1>7, <2>0
    <3> QED BY <2>1, <2>2, <3>1 DEF OpenManifest
  <2>3. CASE WriteManifest
    BY <1>7, <2>1, <2>3 DEF WriteManifest
  <2> QED
    BY <2>1, <2>2, <2>3, StepIs
       DEF Generation, Insert, OpenFile, OpenFails, WriteFile, WriteFails, AppendIndexRow,
           AppendFails, Sink, FinishSearch, Drained, OpenRepair, WriteRepair,
           Merge, WriteListing, Kill, StartAgain, disk
<1>9. 0 .. runNumber \subseteq 0 .. runNumber'
  BY <1>4 DEF TypeOK
<1>10. manifest' \in [run : 0 .. runNumber', n_repairs : Nat, whole : BOOLEAN]
  BY <1>8, <1>9
<1> QED BY <1>1, <1>2, <1>3, <1>4, <1>5, <1>6, <1>10

LEMMA FlagsTyped ==
    ASSUME TypeOK, Next
    PROVE  /\ m_created' \in BOOLEAN /\ m_failed' \in BOOLEAN /\ m_error' \in BOOLEAN
           /\ m_any_named' \in BOOLEAN /\ m_listing_failed' \in BOOLEAN
<1>0. /\ m_created \in BOOLEAN /\ m_failed \in BOOLEAN /\ m_error \in BOOLEAN
      /\ m_any_named \in BOOLEAN /\ m_listing_failed \in BOOLEAN
  BY DEF TypeOK
<1>1. m_created' \in BOOLEAN /\ m_failed' \in BOOLEAN
  BY <1>0, StepIs
     DEF Generation, Insert, OpenFile, OpenFails, WriteFile, WriteFails, AppendIndexRow,
         AppendFails, Sink, FinishSearch, Drained, OpenRepair, WriteRepair, OpenManifest,
         WriteManifest, Merge, WriteListing, Kill, StartAgain, writer, Warn
<1>2. m_error' \in BOOLEAN /\ m_listing_failed' \in BOOLEAN
  BY <1>0, StepIs
     DEF Generation, Insert, OpenFile, OpenFails, WriteFile, WriteFails, AppendIndexRow,
         AppendFails, Sink, FinishSearch, Drained, OpenRepair, WriteRepair, OpenManifest,
         WriteManifest, Merge, WriteListing, Kill, StartAgain, stream
<1>3. m_any_named' \in BOOLEAN
  BY <1>0, StepIs
     DEF Generation, Insert, OpenFile, OpenFails, WriteFile, WriteFails, AppendIndexRow,
         AppendFails, Sink, FinishSearch, Drained, OpenRepair, WriteRepair, OpenManifest,
         WriteManifest, Merge, WriteListing, Kill, StartAgain, stream
<1> QED BY <1>1, <1>2, <1>3

LEMMA TypeStep ==
    ASSUME TypeOK, WriterIsPlaced, FilesAreNumbered, RepairsAreNumbered, Next
    PROVE  TypeOK'
<1>1. {arriving', m_specifications', final', output'} \subseteq Seq(Candidates)
  BY ListsTyped
<1>2. /\ m_created' \in BOOLEAN /\ m_failed' \in BOOLEAN /\ m_error' \in BOOLEAN
      /\ m_any_named' \in BOOLEAN /\ m_listing_failed' \in BOOLEAN
  BY FlagsTyped
<1>3. {m_created', m_failed', m_error', m_any_named', m_listing_failed'} \subseteq BOOLEAN
  BY <1>2
<1>4. index' \in Seq([kind : {"header", "torn"}, run : 1 .. runNumber'] \cup
                     [kind : {"row"}, run : 1 .. runNumber', name : FileName])
  BY IndexTyped DEF Row
<1> QED
  BY <1>1, <1>3, <1>4, ScalarsTyped, StreamTyped, ListingTyped, FilesTyped, RepairsTyped,
     RepairsFinite
     DEF TypeOK

-----------------------------------------------------------------------------
(* The writer *)

Quiet == UNCHANGED <<pc, search, writer>>

LEMMA WriterStep ==
    ASSUME TypeOK, WriterIsPlaced, Next
    PROVE  WriterIsPlaced'
<1>0. /\ m_failed \in BOOLEAN /\ m_sequence \in Nat /\ generation \in Nat
      /\ m_specifications \in Seq(Candidates) /\ Len(m_specifications) \in Nat
      /\ arriving \in Seq(Candidates)
  BY SeqIs, RunOutputAssumption DEF TypeOK
<1>1. CASE Generation
  BY <1>0, <1>1 DEF Generation, WriterIsPlaced, Offering, Writing, writer
<1>2. CASE Insert
  <2>1. /\ pc = "search" /\ arriving # <<>> /\ generation # 0
        /\ UNCHANGED <<runNumber, generation, m_sequence, m_failed>>
    BY <1>2 DEF Insert, WriterIsPlaced, writer
  <2>2. CASE pc' = pc /\ m_specifications' = m_specifications
    BY <1>0, <2>1, <2>2 DEF WriterIsPlaced, Offering, Writing
  <2>3. CASE /\ m_specifications' = Append(m_specifications, Head(arriving))
             /\ pc' = IF Active THEN "open" ELSE "sink"
    <3>1. Len(m_specifications') = Len(m_specifications) + 1 /\ m_specifications' # <<>>
      BY <1>0, <2>3
    <3>2. CASE m_failed
      BY <1>0, <2>1, <2>3, <3>1, <3>2 DEF WriterIsPlaced, Offering, Writing, Active
    <3>3. CASE ~m_failed
      BY <1>0, <2>1, <2>3, <3>1, <3>3 DEF WriterIsPlaced, Offering, Writing, Active
    <3> QED BY <3>2, <3>3
  <2> QED BY <1>2, <2>2, <2>3 DEF Insert
<1>3. CASE OpenFile \/ WriteFile \/ AppendIndexRow
  <2>1. /\ pc \in {"open", "write", "index"} /\ pc' \in {"write", "index", "count"}
        /\ UNCHANGED <<search, m_sequence, m_failed>>
    BY <1>3 DEF OpenFile, WriteFile, AppendIndexRow, AfterDocument, writer
  <2> QED BY <1>0, <2>1 DEF WriterIsPlaced, Offering, Writing, search
<1>4. CASE OpenFails \/ WriteFails \/ AppendFails
  <2>1. /\ pc \in {"open", "write", "index"} /\ pc' \in {"sink", "count"}
        /\ m_failed' = TRUE /\ UNCHANGED <<search, m_sequence>>
    BY <1>4 DEF OpenFails, WriteFails, AppendFails, AfterFailure, Warn
  <2> QED BY <1>0, <2>1 DEF WriterIsPlaced, Offering, Writing, search
<1>5. CASE Sink
  <2>1. /\ pc' = "search" /\ UNCHANGED <<search, m_failed>>
        /\ \/ pc = "count" /\ m_sequence' = m_sequence + 1
           \/ pc = "sink" /\ m_sequence' = m_sequence
    BY <1>5 DEF Sink, writer
  <2> QED BY <1>0, <2>1 DEF WriterIsPlaced, Offering, Writing, search
<1>6. CASE FinishSearch \/ Drained \/ OpenRepair \/ WriteRepair \/ OpenManifest \/ WriteManifest
  <2>1. /\ pc \in {"search", "drain", "repairs", "repair", "manifest"}
        /\ pc' \in {"drain", "repairs", "repair", "manifest", "done", "fatal"}
        /\ UNCHANGED <<search, writer>>
    BY <1>6 DEF FinishSearch, Drained, OpenRepair, WriteRepair, OpenManifest, WriteManifest
  <2> QED BY <1>0, <2>1 DEF WriterIsPlaced, Offering, Writing, search, writer
<1>7. CASE Kill
  <2>1. pc' = "killed" /\ UNCHANGED <<search, writer>>
    BY <1>7 DEF Kill
  <2>2. m_sequence <= Len(m_specifications)
    BY <1>0 DEF WriterIsPlaced
  <2> QED BY <1>0, <2>1, <2>2 DEF WriterIsPlaced, Offering, Writing, search, writer
<1>8. CASE StartAgain
  <2>1. /\ pc' = "search" /\ m_sequence' = 0 /\ m_specifications' = <<>> /\ m_failed' = FALSE
        /\ generation' = 0 /\ arriving' = <<>>
    BY <1>8 DEF StartAgain
  <2> QED BY <2>1 DEF WriterIsPlaced, Offering, Writing
<1>9. CASE Quiet
  BY <1>9 DEF Quiet, WriterIsPlaced, Offering, Writing, search, writer
<1> QED
  BY <1>1, <1>2, <1>3, <1>4, <1>5, <1>6, <1>7, <1>8, <1>9, StepIs DEF Merge, WriteListing, Quiet

\* The run's whole files, after a step of the run, of either thread, or its death.
LEMMA FilesSurvive ==
    ASSUME TypeOK, WriterIsPlaced, FilesAreNumbered, Next, runNumber' = runNumber,
           NEW n \in OwnFiles, files[n].whole
    PROVE  n \in OwnFiles' /\ files'[n] = files[n]
<1>1. CASE OpenFile
  <2>1. pc = "open" /\ ~m_failed
    BY <1>1 DEF OpenFile, WriterIsPlaced
  <2>2. n[2] < m_sequence
    BY <2>1 DEF FilesAreNumbered
  <2>3. CurrentName[2] = m_sequence /\ m_sequence \in Nat
    BY <2>1, CurrentNameIs DEF Offering, Writing, TypeOK
  <2>4. n # CurrentName
    BY <2>2, <2>3
  <2> QED BY <1>1, <2>4, OpenedIs DEF OwnFiles
<1>2. CASE WriteFile
  BY <1>2, WrittenIs DEF OwnFiles
<1>3. CASE files' = files
  BY <1>3 DEF OwnFiles
<1> QED
  BY <1>1, <1>2, <1>3, StepIs
     DEF Generation, Insert, OpenFails, WriteFails, AppendIndexRow, AppendFails, Sink,
         FinishSearch, Drained, OpenRepair, WriteRepair, OpenManifest, WriteManifest, Merge,
         WriteListing, Kill, StartAgain, disk

LEMMA FilesStep ==
    ASSUME TypeOK, WriterIsPlaced, FilesAreNumbered, Next
    PROVE  FilesAreNumbered'
<1>0. /\ m_failed \in BOOLEAN /\ m_sequence \in Nat
      /\ m_specifications \in Seq(Candidates) /\ Len(m_specifications) \in Nat
  BY SeqIs DEF TypeOK
<1>n. \A n \in DOMAIN files : n[2] \in Nat
  BY DEF TypeOK, FileName
<1>1. CASE Insert
  <2>1. /\ pc = "search" /\ arriving # <<>>
        /\ UNCHANGED <<files, runNumber, generation, m_sequence, m_failed>>
        /\ pc' \in {"search", "open", "sink"}
        /\ \/ m_specifications' = m_specifications
           \/ m_specifications' = Append(m_specifications, Head(arriving))
    BY <1>1 DEF Insert, writer, disk
  <2>2. Len(m_specifications') >= Len(m_specifications)
        /\ \A i \in 1 .. Len(m_specifications) : m_specifications'[i] = m_specifications[i]
    <3>1. arriving \in Seq(Candidates)
      BY DEF TypeOK
    <3> QED BY <1>0, <2>1, <3>1
  <2>3. \A n \in OwnFiles : n[2] + 1 \in 1 .. Len(m_specifications)
    BY <1>0, <1>n DEF FilesAreNumbered, OwnFiles
  <2>4. OwnFiles' = OwnFiles
    BY <2>1 DEF OwnFiles
  <2>5. Len(m_specifications') \in Nat
    BY ListsTyped, SeqIs
  <2>6. \A n \in OwnFiles' : /\ n[2] < Len(m_specifications') /\ n[2] <= m_sequence'
                             /\ files'[n].doc = m_specifications'[n[2] + 1]
    <3> SUFFICES ASSUME NEW n \in OwnFiles
                 PROVE  /\ n[2] < Len(m_specifications') /\ n[2] <= m_sequence'
                        /\ files'[n].doc = m_specifications'[n[2] + 1]
      BY <2>4
    <3>1. n[2] + 1 \in 1 .. Len(m_specifications) /\ n[2] \in Nat
      BY <1>n, <2>3 DEF OwnFiles
    <3>2. n[2] <= m_sequence /\ files[n].doc = m_specifications[n[2] + 1]
      BY DEF FilesAreNumbered
    <3> QED BY <1>0, <2>1, <2>2, <2>5, <3>1, <3>2
  <2> QED BY <2>1, <2>4, <2>6 DEF FilesAreNumbered
<1>2. CASE OpenFile
  <2>1. /\ pc = "open" /\ pc' = "write" /\ runNumber' = runNumber
        /\ UNCHANGED <<generation, m_sequence, m_specifications, m_failed>>
    BY <1>2 DEF OpenFile, search
  <2>2. CurrentName[2] = m_sequence /\ CurrentName' = CurrentName /\ Accumulating' = Accumulating
    BY <2>1, CurrentNameIs DEF Offering, Writing, CurrentName, Name, Accumulating
  <2>3. /\ Len(m_specifications) = m_sequence + 1
        /\ Accumulating = m_specifications[m_sequence + 1]
    BY <1>0, <2>1, AccumulatingIs DEF WriterIsPlaced, Offering, Writing
  <2>4. /\ OwnFiles' = OwnFiles \cup {CurrentName}
        /\ \A n \in OwnFiles : n # CurrentName => files'[n] = files[n]
    BY <1>2, <2>1, OpenedIs DEF OwnFiles
  <2>5. files'[CurrentName] = [doc |-> Accumulating, whole |-> FALSE, run |-> runNumber]
    BY <1>2, OpenedIs
  <2>6. \A n \in OwnFiles' : /\ n[2] < Len(m_specifications) /\ n[2] <= m_sequence
                             /\ files'[n].doc = m_specifications[n[2] + 1]
    <3> SUFFICES ASSUME NEW n \in OwnFiles'
                 PROVE  /\ n[2] < Len(m_specifications) /\ n[2] <= m_sequence
                        /\ files'[n].doc = m_specifications[n[2] + 1]
      OBVIOUS
    <3>1. CASE n = CurrentName
      BY <1>0, <2>2, <2>3, <2>5, <3>1
    <3>2. CASE n # CurrentName
      BY <2>4, <3>2 DEF FilesAreNumbered
    <3> QED BY <3>1, <3>2
  <2>7. CurrentName \in OwnFiles' /\ files'[CurrentName].doc = Accumulating
        /\ files'[CurrentName].whole = FALSE
    BY <2>4, <2>5
  <2> QED BY <2>1, <2>2, <2>6, <2>7 DEF FilesAreNumbered
<1>3. CASE WriteFile
  <2>1. /\ pc = "write" /\ pc' = "index" /\ runNumber' = runNumber
        /\ UNCHANGED <<generation, m_sequence, m_specifications, m_failed>>
    BY <1>3 DEF WriteFile, search, writer, AfterDocument
  <2>2. CurrentName' = CurrentName /\ Accumulating' = Accumulating
    BY <2>1 DEF CurrentName, Name, Accumulating
  <2>3. /\ CurrentName \in OwnFiles /\ OwnFiles' = OwnFiles
        /\ files'[CurrentName] = [doc |-> Accumulating, whole |-> TRUE, run |-> runNumber]
        /\ \A n \in OwnFiles : files'[n].doc = files[n].doc
    BY <1>3, <2>1, WrittenIs DEF OwnFiles, FilesAreNumbered
  <2> QED BY <2>1, <2>2, <2>3 DEF FilesAreNumbered
<1>4. CASE Sink
  <2>1. /\ UNCHANGED <<files, runNumber, m_specifications, m_failed>> /\ pc' = "search"
        /\ \/ pc = "count" /\ m_sequence' = m_sequence + 1
           \/ pc = "sink" /\ m_sequence' = m_sequence
    BY <1>4 DEF Sink, disk, search, writer
  <2>2. OwnFiles' = OwnFiles
    BY <2>1 DEF OwnFiles
  <2>3. \A n \in OwnFiles : n[2] \in Nat
    BY <1>n DEF OwnFiles
  <2>4. CASE pc = "count"
    BY <1>0, <2>1, <2>2, <2>3, <2>4 DEF FilesAreNumbered
  <2>5. CASE pc = "sink"
    BY <1>0, <2>1, <2>2, <2>3, <2>5 DEF FilesAreNumbered, WriterIsPlaced
  <2> QED BY <2>1, <2>4, <2>5
<1>5. CASE StartAgain
  <2>1. /\ runNumber' = runNumber + 1 /\ files' = files /\ pc' = "search"
        /\ runNumber \in Nat
    BY <1>5 DEF StartAgain, disk, TypeOK
  <2>2. OwnFiles' = {}
    BY <2>1 DEF OwnFiles, TypeOK
  <2> QED BY <2>1, <2>2 DEF FilesAreNumbered
<1>6. CASE AppendIndexRow \/ AppendFails
  <2>1. /\ pc = "index" /\ pc' = "count"
        /\ UNCHANGED <<files, search, m_sequence>>
    BY <1>6 DEF AppendIndexRow, AppendFails, disk, writer
  <2>2. OwnFiles' = OwnFiles /\ CurrentName' = CurrentName /\ Accumulating' = Accumulating
    BY <2>1 DEF OwnFiles, CurrentName, Name, Accumulating, search
  <2>3. CurrentName \in OwnFiles /\ files[CurrentName].doc = Accumulating
        /\ files[CurrentName].whole = TRUE
    BY <2>1 DEF FilesAreNumbered
  <2>4. /\ CurrentName' \in OwnFiles' /\ files'[CurrentName'].doc = Accumulating'
        /\ (files'[CurrentName'].whole <=> pc' # "write")
    BY <2>1, <2>2, <2>3
  <2>5. \A n \in OwnFiles : /\ n[2] < Len(m_specifications) /\ n[2] <= m_sequence
                            /\ files[n].doc = m_specifications[n[2] + 1]
    BY DEF FilesAreNumbered
  <2>6. \A n \in OwnFiles' : /\ n[2] < Len(m_specifications') /\ n[2] <= m_sequence'
                             /\ files'[n].doc = m_specifications'[n[2] + 1]
    BY <2>1, <2>2, <2>5 DEF search
  <2>7. pc' \in {"write", "index", "count", "killed"}
    BY <2>1
  <2>8. ~m_failed' /\ pc' \notin {"write", "index", "count", "killed"} =>
          \A n \in OwnFiles' : n[2] < m_sequence'
    BY <2>7
  <2>9. pc' \in {"write", "index", "count"} =>
          /\ CurrentName' \in OwnFiles' /\ files'[CurrentName'].doc = Accumulating'
          /\ (files'[CurrentName'].whole <=> pc' # "write")
    BY <2>4
  <2> QED BY <2>6, <2>8, <2>9 DEF FilesAreNumbered
<1>7. CASE OpenFails \/ WriteFails
  <2>1. /\ pc' = "sink" /\ m_failed' = TRUE
        /\ UNCHANGED <<files, search, m_sequence>>
    BY <1>7 DEF OpenFails, WriteFails, AfterFailure, Warn, disk
  <2>2. OwnFiles' = OwnFiles
    BY <2>1 DEF OwnFiles, search
  <2> QED BY <2>1, <2>2 DEF FilesAreNumbered, search
<1>8. CASE \/ Generation \/ FinishSearch \/ Drained \/ OpenRepair \/ WriteRepair
           \/ OpenManifest \/ WriteManifest \/ Kill
  <2>1. /\ UNCHANGED <<files, runNumber, m_specifications, m_sequence, m_failed>>
        /\ \/ /\ pc \in {"search", "drain", "repairs", "repair", "manifest"}
              /\ pc' \in {"search", "drain", "repairs", "repair", "manifest", "done", "fatal"}
           \/ pc' = "killed"
    BY <1>8 DEF Generation, FinishSearch, Drained, OpenRepair, WriteRepair, OpenManifest,
                WriteManifest, Kill, disk, search, writer
  <2>2. OwnFiles' = OwnFiles
    BY <2>1 DEF OwnFiles
  <2> QED BY <2>1, <2>2 DEF FilesAreNumbered
<1>9. CASE Quiet /\ files' = files
  <2>1. OwnFiles' = OwnFiles /\ CurrentName' = CurrentName /\ Accumulating' = Accumulating
    BY <1>9 DEF OwnFiles, CurrentName, Name, Accumulating, Quiet, search, writer
  <2> QED BY <1>9, <2>1 DEF FilesAreNumbered, Quiet, search, writer
<1> QED
  BY <1>1, <1>2, <1>3, <1>4, <1>5, <1>6, <1>7, <1>8, <1>9, StepIs
     DEF Merge, WriteListing, Quiet, disk

-----------------------------------------------------------------------------
(* The index *)

\* The rows of the run are those after the first `before`, up to the last.
RowsFrom(before, last) ==
    /\ OwnRows = before + 1 .. last
    /\ ~m_failed => last = Len(index)
    /\ \A i \in OwnRows : /\ index[i].name \in OwnFiles
                          /\ index[i].name[2] = i - before - 1
                          /\ files[index[i].name].whole

\* How many they are.
RowsAre(count) ==
    /\ count <= m_sequence + (IF pc \in {"count", "killed"} THEN 1 ELSE 0)
    /\ count <= Len(m_specifications)
    /\ ~m_failed => count + 1 >= Len(m_specifications)
    /\ ~m_failed /\ pc # "killed" => count = m_sequence + (IF pc = "count" THEN 1 ELSE 0)

LEMMA RowsAreSplit ==
    RowsAreNumbered <=> \E last \in 0 .. Len(index) : \E before \in 0 .. last :
                          RowsFrom(before, last) /\ RowsAre(last - before)
BY DEF RowsAreNumbered, RowsFrom, RowsAre

\* A writer that has given up does not come back in the same run.
LEMMA FailedStays ==
    ASSUME TypeOK, Next, runNumber' = runNumber, m_failed
    PROVE  m_failed'
<1>1. ~StartAgain
  BY DEF StartAgain, TypeOK
<1> QED
  BY <1>1, StepIs
     DEF Generation, Insert, OpenFile, OpenFails, WriteFile, WriteFails, AppendIndexRow,
         AppendFails, Sink, FinishSearch, Drained, OpenRepair, WriteRepair, OpenManifest,
         WriteManifest, Merge, WriteListing, Kill, writer, Warn

\* A step that adds no row keeps those there are.
LEMMA RowsStay ==
    ASSUME TypeOK, WriterIsPlaced, FilesAreNumbered, Next, runNumber' = runNumber, index' = index,
           NEW last \in 0 .. Len(index), NEW before \in 0 .. last, RowsFrom(before, last)
    PROVE  RowsFrom(before, last)'
<1>1. OwnRows' = OwnRows
  BY DEF OwnRows
<1>2. ASSUME NEW i \in OwnRows
      PROVE  /\ index[i].name \in OwnFiles' /\ index[i].name[2] = i - before - 1
             /\ files'[index[i].name].whole
  <2>1. /\ index[i].name \in OwnFiles /\ index[i].name[2] = i - before - 1
        /\ files[index[i].name].whole
    BY DEF RowsFrom
  <2> QED BY <2>1, FilesSurvive
<1>3. ~m_failed' => last = Len(index)
  BY FailedStays DEF RowsFrom
<1> QED BY <1>1, <1>2, <1>3 DEF RowsFrom

\* Nor does it change how many there should be.
LEMMA RowsCounted ==
    ASSUME TypeOK, WriterIsPlaced, Next, runNumber' = runNumber, ~AppendIndexRow,
           NEW count \in Nat, RowsAre(count)
    PROVE  RowsAre(count)'
<1>0. /\ m_failed \in BOOLEAN /\ m_sequence \in Nat
      /\ m_specifications \in Seq(Candidates) /\ Len(m_specifications) \in Nat
      /\ arriving \in Seq(Candidates)
  BY SeqIs DEF TypeOK
<1>1. CASE Insert
  <2>1. /\ pc = "search" /\ pc' \in {"search", "open", "sink"}
        /\ UNCHANGED <<m_sequence, m_failed>>
        /\ \/ m_specifications' = m_specifications
           \/ m_specifications' = Append(m_specifications, Head(arriving))
    BY <1>1 DEF Insert, writer
  <2>2. Len(m_specifications') \in {Len(m_specifications), Len(m_specifications) + 1}
    BY <1>0, <2>1
  <2>3. ~m_failed => Len(m_specifications) = m_sequence
    BY <1>0, <2>1 DEF WriterIsPlaced, Writing
  <2> QED BY <1>0, <2>1, <2>2, <2>3 DEF RowsAre
<1>2. CASE OpenFile \/ WriteFile
  <2>1. /\ pc \in {"open", "write"} /\ pc' \in {"write", "index"}
        /\ UNCHANGED <<m_specifications, m_sequence, m_failed>>
    BY <1>2 DEF OpenFile, WriteFile, AfterDocument, writer, search
  <2> QED BY <1>0, <2>1 DEF RowsAre
<1>3. CASE OpenFails \/ WriteFails \/ AppendFails
  <2>1. /\ pc \in {"open", "write", "index"} /\ m_failed' = TRUE
        /\ UNCHANGED <<m_specifications, m_sequence>>
    BY <1>3 DEF OpenFails, WriteFails, AppendFails, Warn, search
  <2> QED BY <1>0, <2>1 DEF RowsAre
<1>4. CASE Sink
  <2>1. /\ pc' = "search" /\ UNCHANGED <<m_specifications, m_failed>>
        /\ \/ pc = "count" /\ m_sequence' = m_sequence + 1
           \/ pc = "sink" /\ m_sequence' = m_sequence
    BY <1>4 DEF Sink, writer, search
  <2>2. pc = "sink" => m_failed
    BY DEF WriterIsPlaced
  <2> QED BY <1>0, <2>1, <2>2 DEF RowsAre
<1>5. CASE \/ Generation \/ FinishSearch \/ Drained \/ OpenRepair \/ WriteRepair
           \/ OpenManifest \/ WriteManifest
  <2>1. /\ pc \in {"search", "drain", "repairs", "repair", "manifest"}
        /\ pc' \in {"search", "drain", "repairs", "repair", "manifest", "done", "fatal"}
        /\ UNCHANGED <<m_specifications, m_sequence, m_failed>>
    BY <1>5 DEF Generation, FinishSearch, Drained, OpenRepair, WriteRepair, OpenManifest,
                WriteManifest, writer, search
  <2> QED BY <1>0, <2>1 DEF RowsAre
<1>6. CASE Kill
  <2>1. pc' = "killed" /\ UNCHANGED <<m_specifications, m_sequence, m_failed>>
    BY <1>6 DEF Kill, writer, search
  <2> QED BY <1>0, <2>1 DEF RowsAre
<1>7. CASE UNCHANGED <<pc, m_specifications, m_sequence, m_failed>>
  BY <1>7 DEF RowsAre
<1>8. ~StartAgain
  BY DEF StartAgain, TypeOK
<1> QED
  BY <1>1, <1>2, <1>3, <1>4, <1>5, <1>6, <1>7, <1>8, StepIs DEF Merge, WriteListing, search,
                                                                writer

\* A row is added after the others, and its header before the run's first.
LEMMA RowAdded ==
    ASSUME TypeOK, WriterIsPlaced, FilesAreNumbered,
           AppendIndexRow \/ AppendFails, index' = index \o IndexLines,
           NEW last \in 0 .. Len(index), NEW before \in 0 .. last,
           RowsFrom(before, last), RowsAre(last - before)
    PROVE  RowsAreNumbered'
<1>0. /\ m_failed \in BOOLEAN /\ m_sequence \in Nat /\ runNumber \in Nat
      /\ m_specifications \in Seq(Candidates) /\ Len(m_specifications) \in Nat
      /\ index \in Seq(Row(runNumber)) /\ Len(index) \in Nat
  BY SeqIs DEF TypeOK, Row
<1>1. /\ pc = "index" /\ pc' = "count" /\ ~m_failed /\ runNumber' = runNumber
      /\ UNCHANGED <<files, m_specifications, m_sequence>>
  BY DEF AppendIndexRow, AppendFails, WriterIsPlaced, search, writer
<1>2. /\ last = Len(index) /\ last - before = m_sequence
      /\ Len(m_specifications) = m_sequence + 1
  BY <1>0, <1>1 DEF RowsFrom, RowsAre, WriterIsPlaced, Writing
<1>3. /\ CurrentName \in OwnFiles /\ files[CurrentName].whole /\ CurrentName \in FileName
      /\ CurrentName[2] = m_sequence
  BY <1>1, CurrentNameIs DEF FilesAreNumbered, Offering, Writing
<1>4. OwnFiles' = OwnFiles
  BY <1>1 DEF OwnFiles
<1> DEFINE row == FileRow(runNumber, CurrentName)
           head == HeaderRow(runNumber)
<1>5. /\ IndexLines \in Seq(Row(runNumber))
      /\ Len(IndexLines) = IF m_sequence = 0 THEN 2 ELSE 1
      /\ IndexLines[Len(IndexLines)] = row
      /\ m_sequence = 0 => IndexLines[1] = head
  BY <1>1, LinesAre
<1>6. /\ row.kind = "row" /\ row.run = runNumber /\ row.name = CurrentName
      /\ head.kind = "header"
  BY DEF FileRow, HeaderRow
<1> HIDE DEF row, head
<1>7. PICK shift \in Nat :
        /\ Len(index') = Len(index) + shift + 1
        /\ shift = IF m_sequence = 0 THEN 1 ELSE 0
        /\ index'[Len(index) + shift + 1] = row
        /\ shift = 1 => index'[Len(index) + 1] = head
        /\ \A i \in 1 .. Len(index) : index'[i] = index[i]
  <2>1. /\ Len(index') = Len(index) + Len(IndexLines)
        /\ \A i \in 1 .. Len(index) : index'[i] = index[i]
        /\ \A j \in 1 .. Len(IndexLines) : index'[Len(index) + j] = IndexLines[j]
    <3>1. index \in Seq(Row(runNumber)) /\ IndexLines \in Seq(Row(runNumber))
      BY <1>0, <1>5
    <3>2. index' = index \o IndexLines
      OBVIOUS
    <3> QED BY <3>1, <3>2, Longer
  <2>2. CASE m_sequence = 0
    <3>1. Len(IndexLines) = 2 /\ IndexLines[1] = head /\ IndexLines[2] = row
      BY <1>5, <2>2
    <3>2. /\ Len(index') = Len(index) + 1 + 1 /\ index'[Len(index) + 1 + 1] = row
          /\ index'[Len(index) + 1] = head
      BY <1>0, <2>1, <3>1
    <3> QED BY <2>1, <2>2, <3>2
  <2>3. CASE m_sequence # 0
    <3>1. Len(IndexLines) = 1 /\ IndexLines[1] = row
      BY <1>5, <2>3
    <3>2. Len(index') = Len(index) + 0 + 1 /\ index'[Len(index) + 0 + 1] = row
      BY <1>0, <2>1, <3>1
    <3> QED BY <2>1, <2>3, <3>2
  <2> QED BY <2>2, <2>3
<1>8. OwnRows' = OwnRows \cup {Len(index) + shift + 1}
  <2>1. ASSUME NEW i \in 1 .. Len(index')
        PROVE  i \in OwnRows' <=> i \in OwnRows \/ i = Len(index) + shift + 1
    <3>1. CASE i \in 1 .. Len(index)
      BY <1>0, <1>1, <1>7, <3>1 DEF OwnRows, Indices
    <3>2. CASE i = Len(index) + shift + 1
      BY <1>0, <1>1, <1>6, <1>7, <2>1, <3>2 DEF OwnRows, Indices
    <3>3. CASE shift = 1 /\ i = Len(index) + 1
      BY <1>0, <1>1, <1>6, <1>7, <3>3 DEF OwnRows, Indices
    <3> QED BY <1>0, <1>7, <2>1, <3>1, <3>2, <3>3
  <2>2. OwnRows \subseteq 1 .. Len(index) /\ OwnRows' \subseteq 1 .. Len(index')
    BY DEF OwnRows, Indices
  <2>3. 1 .. Len(index) \subseteq 1 .. Len(index') /\ Len(index) + shift + 1 \in 1 .. Len(index')
    BY <1>0, <1>7
  <2> QED BY <2>1, <2>2, <2>3
<1>9. PICK start \in Nat : start = before + shift
  BY <1>2, <1>7
<1>e. PICK end \in Nat : end = Len(index') /\ end = Len(index) + shift + 1
  BY <1>0, <1>7
<1>10. RowsFrom(start, end)'
  <2>1. OwnRows' = start + 1 .. end
    <3>1. OwnRows = before + 1 .. Len(index)
      BY <1>2 DEF RowsFrom
    <3>2. shift = 1 => before = Len(index)
      BY <1>0, <1>2, <1>7
    <3>3. shift \in {0, 1}
      BY <1>7
    <3> QED BY <1>0, <1>2, <1>e, <1>8, <1>9, <3>1, <3>2, <3>3
  <2>2. ASSUME NEW i \in OwnRows'
        PROVE  /\ index'[i].name \in OwnFiles' /\ index'[i].name[2] = i - start - 1
               /\ files'[index'[i].name].whole
    <3>1. CASE i = Len(index) + shift + 1
      <4>1. i - start - 1 = m_sequence
        <5>1. last = Len(index) /\ before \in Nat /\ last = before + m_sequence
          BY <1>0, <1>2
        <5> QED BY <1>0, <1>9, <3>1, <5>1
      <4> QED BY <1>1, <1>3, <1>4, <1>6, <1>7, <3>1, <4>1
    <3>2. CASE i \in OwnRows
      <4>1. i \in 1 .. Len(index) /\ before < i
        BY <1>0, <1>2, <3>2 DEF RowsFrom
      <4>2. shift = 0
        BY <1>0, <1>2, <1>7, <4>1
      <4>3. index'[i] = index[i] /\ start = before
        BY <1>2, <1>7, <1>9, <4>1, <4>2
      <4> QED BY <1>1, <1>4, <3>2, <4>3 DEF RowsFrom
    <3> QED BY <1>8, <3>1, <3>2
  <2> QED BY <1>e, <2>1, <2>2 DEF RowsFrom
<1>11. PICK count \in Nat : count = m_sequence + 1
  BY <1>0
<1>12. RowsAre(count)'
  BY <1>0, <1>1, <1>2, <1>11 DEF RowsAre
<1>13. end - start = count /\ start \in 0 .. end /\ end \in 0 .. Len(index')
  <2>1. last = Len(index) /\ before \in Nat /\ last = before + m_sequence
    BY <1>0, <1>2
  <2>2. end = before + m_sequence + shift + 1
    BY <1>0, <1>e, <2>1
  <2> QED BY <1>0, <1>9, <1>e, <1>11, <2>1, <2>2
<1>14. \E l \in 0 .. Len(index') : \E b \in 0 .. l : RowsFrom(b, l)' /\ RowsAre(l - b)'
  BY <1>10, <1>12, <1>13
<1> QED BY <1>14 DEF RowsAreNumbered, RowsFrom, RowsAre

\* What else may reach the index is no row, and the writer gives up.
LEMMA RowNotAdded ==
    ASSUME TypeOK, WriterIsPlaced, FilesAreNumbered, Next, AppendFails,
           NEW rest \in Seq(Row(runNumber)), index' = index \o rest,
           \A i \in 1 .. Len(rest) : rest[i].kind # "row",
           NEW last \in 0 .. Len(index), NEW before \in 0 .. last,
           RowsFrom(before, last), RowsAre(last - before)
    PROVE  RowsAreNumbered'
<1>0. index \in Seq(Row(runNumber)) /\ Len(index) \in Nat /\ Len(rest) \in Nat
  BY SeqIs DEF TypeOK, Row
<1>1. /\ runNumber' = runNumber /\ files' = files /\ m_failed' = TRUE /\ pc = "index"
      /\ ~AppendIndexRow
  BY DEF AppendFails, AppendIndexRow, WriterIsPlaced, Warn, search, writer
<1>2. /\ Len(index') = Len(index) + Len(rest)
      /\ \A i \in 1 .. Len(index) : index'[i] = index[i]
      /\ \A j \in 1 .. Len(rest) : index'[Len(index) + j] = rest[j]
  BY <1>0, Longer
<1>3. OwnRows' = OwnRows
  <2>1. ASSUME NEW i \in 1 .. Len(index') PROVE i \in OwnRows' <=> i \in OwnRows
    <3>1. CASE i \in 1 .. Len(index)
      BY <1>0, <1>1, <1>2, <3>1 DEF OwnRows, Indices
    <3>2. CASE i > Len(index)
      <4>1. i - Len(index) \in 1 .. Len(rest) /\ Len(index) + (i - Len(index)) = i
        BY <1>0, <1>2, <2>1, <3>2
      <4>2. index'[i].kind # "row"
        BY <1>2, <4>1
      <4> QED BY <1>0, <3>2, <4>2 DEF OwnRows, Indices
    <3> QED BY <1>0, <2>1, <3>1, <3>2
  <2>2. OwnRows \subseteq 1 .. Len(index') /\ OwnRows' \subseteq 1 .. Len(index')
    BY <1>0, <1>2 DEF OwnRows, Indices
  <2> QED BY <2>1, <2>2
<1>4. \A i \in OwnRows : i \in 1 .. Len(index) /\ index'[i] = index[i]
  BY <1>2 DEF OwnRows, Indices
<1>5. OwnFiles' = OwnFiles
  BY <1>1 DEF OwnFiles
<1>6. RowsFrom(before, last)'
  BY <1>1, <1>3, <1>4, <1>5 DEF RowsFrom
<1>7. PICK count \in Nat : count = last - before
  BY <1>0
<1>8. RowsAre(count)'
  BY <1>1, <1>7, RowsCounted
<1>9. \E l \in 0 .. Len(index') : \E b \in 0 .. l : RowsFrom(b, l)' /\ RowsAre(l - b)'
  <2>1. last \in 0 .. Len(index')
    BY <1>0, <1>2
  <2> QED BY <1>6, <1>7, <1>8, <2>1
<1> QED BY <1>9 DEF RowsAreNumbered, RowsFrom, RowsAre

LEMMA RowsStep ==
    ASSUME TypeOK, WriterIsPlaced, FilesAreNumbered, RowsAreNumbered, Next
    PROVE  RowsAreNumbered'
<1>0. Len(index) \in Nat /\ index \in Seq(Row(runNumber))
  BY SeqIs DEF TypeOK, Row
<1>1. PICK last \in 0 .. Len(index) : \E before \in 0 .. last :
        RowsFrom(before, last) /\ RowsAre(last - before)
  BY RowsAreSplit
<1>b. PICK before \in 0 .. last : RowsFrom(before, last) /\ RowsAre(last - before)
  BY <1>1
<1>2. CASE AppendIndexRow \/ AppendFails
  BY <1>b, <1>2, RowAdded, RowNotAdded, LinesReached DEF AppendIndexRow
<1>3. CASE StartAgain
  <2>1. /\ runNumber' = runNumber + 1 /\ index' = index /\ pc' = "search" /\ m_sequence' = 0
        /\ m_specifications' = <<>> /\ runNumber \in Nat
    BY <1>3 DEF StartAgain, disk, TypeOK
  <2>2. ASSUME NEW i \in 1 .. Len(index) PROVE index[i].run \in 1 .. runNumber
    <3>1. index[i] \in Row(runNumber)
      BY <1>0, SeqIs
    <3> QED BY <3>1 DEF Row
  <2>3. OwnRows' = {}
    BY <1>0, <2>1, <2>2 DEF OwnRows, Indices
  <2>4. PICK start \in 0 .. Len(index') : start = Len(index')
    BY <1>0, <2>1
  <2>5. RowsFrom(start, start)'
    BY <1>0, <2>1, <2>3, <2>4 DEF RowsFrom
  <2>6. RowsAre(0)'
    BY <2>1 DEF RowsAre
  <2>7. start - start = 0 /\ start \in 0 .. start
    BY <1>0, <2>1, <2>4
  <2>8. \E l \in 0 .. Len(index') : \E b \in 0 .. l : RowsFrom(b, l)' /\ RowsAre(l - b)'
    BY <2>4, <2>5, <2>6, <2>7
  <2> QED BY <2>8 DEF RowsAreNumbered, RowsFrom, RowsAre
<1>4. CASE index' = index /\ runNumber' = runNumber /\ ~AppendIndexRow
  <2>1. PICK count \in Nat : count = last - before
    BY <1>0
  <2>2. RowsFrom(before, last)' /\ RowsAre(count)'
    BY <1>b, <1>4, <2>1, RowsStay, RowsCounted
  <2>3. \E l \in 0 .. Len(index') : \E b \in 0 .. l : RowsFrom(b, l)' /\ RowsAre(l - b)'
    BY <1>4, <2>1, <2>2
  <2> QED BY <2>3 DEF RowsAreNumbered, RowsFrom, RowsAre
<1> QED
  BY <1>2, <1>3, <1>4, StepIs
     DEF Generation, Insert, OpenFile, OpenFails, WriteFile, WriteFails,
         Sink, FinishSearch, Drained, OpenRepair, WriteRepair, OpenManifest,
         WriteManifest, Merge, WriteListing, Kill, disk, search

\* A row is appended after the run's header or after a row of the run.
LEMMA StandStep ==
    ASSUME TypeOK, WriterIsPlaced, RowsAreNumbered, RowsStandAlone, Next
    PROVE  RowsStandAlone'
<1>0. Len(index) \in Nat /\ index \in Seq(Row(runNumber)) /\ m_sequence \in Nat
  BY SeqIs DEF TypeOK, Row
<1>1. CASE index' = index
  BY <1>1 DEF RowsStandAlone, Indices
<1>2. CASE (AppendIndexRow \/ AppendFails) /\ index' = index \o IndexLines
  <2> DEFINE head == HeaderRow(runNumber)
  <2>1. pc = "index" /\ m_failed = FALSE
    BY <1>2 DEF AppendIndexRow, AppendFails, WriterIsPlaced, TypeOK
  <2>2. /\ IndexLines \in Seq(Row(runNumber))
        /\ Len(IndexLines) = IF m_sequence = 0 THEN 2 ELSE 1
        /\ m_sequence = 0 => IndexLines[1] = head
    BY <2>1, LinesAre
  <2>3. head.kind = "header"
    BY DEF HeaderRow
  <2> HIDE DEF head
  <2>4. /\ Len(index') = Len(index) + Len(IndexLines)
        /\ \A i \in 1 .. Len(index) : index'[i] = index[i]
        /\ \A j \in 1 .. Len(IndexLines) : index'[Len(index) + j] = IndexLines[j]
    <3>1. index \in Seq(Row(runNumber)) /\ IndexLines \in Seq(Row(runNumber))
      BY <1>0, <2>2
    <3>2. index' = index \o IndexLines
      BY <1>2
    <3> QED BY <3>1, <3>2, Longer
  <2>5. ASSUME NEW i \in 1 .. Len(index), index'[i].kind = "row"
        PROVE  i > 1 /\ index'[i - 1].kind # "torn"
    <3>1. index'[i] = index[i] /\ i \in Indices(index)
      BY <2>4 DEF Indices
    <3>2. i > 1 /\ index[i - 1].kind # "torn"
      BY <2>5, <3>1 DEF RowsStandAlone
    <3>3. i - 1 \in 1 .. Len(index)
      BY <1>0, <3>2
    <3> QED BY <2>4, <3>2, <3>3
  <2>6. CASE m_sequence = 0
    <3>1. Len(IndexLines) = 2 /\ IndexLines[1] = head
      BY <2>2, <2>6
    <3>2. /\ Len(index') = Len(index) + 2 /\ index'[Len(index) + 1] = head
      BY <1>0, <2>4, <3>1
    <3>3. ASSUME NEW i \in 1 .. Len(index'), i > Len(index), index'[i].kind = "row"
          PROVE  i > 1 /\ index'[i - 1].kind # "torn"
      <4>1. i = Len(index) + 2
        BY <1>0, <2>3, <3>2, <3>3
      <4>2. i - 1 = Len(index) + 1 /\ i > 1
        BY <1>0, <4>1
      <4> QED BY <2>3, <3>2, <4>2
    <3> QED BY <1>0, <2>5, <3>2, <3>3 DEF RowsStandAlone, Indices
  <2>7. CASE m_sequence # 0
    <3>1. Len(IndexLines) = 1
      BY <2>2, <2>7
    <3>2. PICK last \in 0 .. Len(index) : \E before \in 0 .. last :
            RowsFrom(before, last) /\ RowsAre(last - before)
      BY RowsAreSplit
    <3>3. PICK before \in 0 .. last : RowsFrom(before, last) /\ RowsAre(last - before)
      BY <3>2
    <3>4. last = Len(index) /\ last - before = m_sequence
      BY <1>0, <2>1, <3>3 DEF RowsFrom, RowsAre
    <3>5. Len(index) \in OwnRows
      BY <1>0, <2>7, <3>3, <3>4 DEF RowsFrom
    <3>6. index[Len(index)].kind = "row" /\ Len(index) \in 1 .. Len(index)
      BY <3>5 DEF OwnRows, Indices
    <3>7. ASSUME NEW i \in 1 .. Len(index'), i > Len(index)
          PROVE  i > 1 /\ index'[i - 1].kind # "torn"
      <4>1. i - 1 = Len(index) /\ i > 1
        BY <1>0, <2>4, <3>1, <3>6, <3>7
      <4> QED BY <2>4, <3>6, <4>1
    <3> QED BY <1>0, <2>4, <2>5, <3>1, <3>7 DEF RowsStandAlone, Indices
  <2> QED BY <2>6, <2>7
<1>3. ASSUME NEW rest \in Seq(Row(runNumber)), index' = index \o rest,
             \A i \in 1 .. Len(rest) : rest[i].kind # "row"
      PROVE  RowsStandAlone'
  <2>1. /\ Len(index') = Len(index) + Len(rest)
        /\ \A i \in 1 .. Len(index) : index'[i] = index[i]
        /\ \A j \in 1 .. Len(rest) : index'[Len(index) + j] = rest[j]
    BY <1>0, <1>3, Longer
  <2>2. ASSUME NEW i \in 1 .. Len(index'), index'[i].kind = "row"
        PROVE  i > 1 /\ index'[i - 1].kind # "torn"
    <3>1. i <= Len(index)
      <4>1. SUFFICES ASSUME i > Len(index) PROVE FALSE
        BY <1>0
      <4>2. Len(rest) \in Nat
        BY <1>3, SeqIs
      <4>3. i - Len(index) \in 1 .. Len(rest) /\ Len(index) + (i - Len(index)) = i
        BY <1>0, <2>1, <4>1, <4>2
      <4> QED BY <1>3, <2>1, <2>2, <4>3
    <3>2. i \in 1 .. Len(index) /\ index'[i] = index[i]
      BY <1>0, <2>1, <3>1
    <3>3. i > 1 /\ index[i - 1].kind # "torn"
      BY <2>2, <3>2 DEF RowsStandAlone, Indices
    <3>4. i - 1 \in 1 .. Len(index)
      BY <1>0, <3>2, <3>3
    <3> QED BY <2>1, <3>3, <3>4
  <2> QED BY <2>2 DEF RowsStandAlone, Indices
<1>4. CASE AppendIndexRow \/ AppendFails
  BY <1>2, <1>3, <1>4, LinesReached DEF AppendIndexRow
<1> QED
  BY <1>1, <1>4, StepIs
     DEF Generation, Insert, OpenFile, OpenFails, WriteFile, WriteFails,
         Sink, FinishSearch, Drained, OpenRepair, WriteRepair, OpenManifest,
         WriteManifest, Merge, WriteListing, Kill, StartAgain, disk

\* The names a killed run's index holds are those of its whole files.
LEMMA IndexIs ==
    ASSUME TypeOK, FilesAreNumbered, RowsAreNumbered
    PROVE  IndexIsAPrefix
<1>0. /\ Len(index) \in Nat /\ Len(m_specifications) \in Nat /\ m_failed \in BOOLEAN
      /\ runNumber \in Nat /\ m_specifications \in Seq(Candidates)
  BY SeqIs DEF TypeOK
<1>a. PICK last \in 0 .. Len(index) : \E before \in 0 .. last :
        RowsFrom(before, last) /\ RowsAre(last - before)
  BY RowsAreSplit
<1>1. PICK before \in 0 .. last : RowsFrom(before, last) /\ RowsAre(last - before)
  BY <1>a
<1>2. OwnRows = before + 1 .. last
  BY <1>1 DEF RowsFrom
<1>3. Cardinality(OwnRows) = last - before
  <2>1. CASE before + 1 > last
    <3>1. OwnRows = {} /\ last - before = 0
      BY <1>0, <1>2, <2>1
    <3> QED BY <3>1, FS_EmptySet
  <2>2. CASE before + 1 <= last
    BY <1>0, <1>2, <2>2, FS_Interval
  <2> QED BY <1>0, <2>1, <2>2
<1>4. ASSUME NEW i \in OwnRows
      PROVE  /\ index[i].name \in DOMAIN files
             /\ files[index[i].name] =
                  [doc |-> m_specifications[RowNumber(i)], whole |-> TRUE, run |-> runNumber]
  <2>1. RowNumber(i) = i - before
    <3>1. {j \in OwnRows : j <= i} = before + 1 .. i
      BY <1>0, <1>2
    <3>2. Cardinality(before + 1 .. i) = i - before
      BY <1>0, <1>2, FS_Interval
    <3> QED BY <3>1, <3>2 DEF RowNumber
  <2>2. /\ index[i].name \in OwnFiles /\ index[i].name[2] = i - before - 1
        /\ files[index[i].name].whole
    BY <1>1 DEF RowsFrom
  <2>3. files[index[i].name].doc = m_specifications[index[i].name[2] + 1]
    BY <2>2 DEF FilesAreNumbered
  <2>4. index[i].name[2] + 1 = i - before
    BY <1>0, <1>2, <2>2
  <2>5. /\ files[index[i].name] \in [doc : Candidates, whole : BOOLEAN, run : 1 .. runNumber]
        /\ files[index[i].name].run = runNumber
    BY <2>2 DEF OwnFiles, TypeOK
  <2> QED BY <2>1, <2>2, <2>3, <2>4, <2>5 DEF OwnFiles
<1>5. /\ last - before <= Len(m_specifications)
      /\ ~m_failed => last - before + 1 >= Len(m_specifications)
  BY <1>1 DEF RowsAre
<1> QED BY <1>3, <1>4, <1>5 DEF IndexIsAPrefix

-----------------------------------------------------------------------------
(* The stream *)

\* An entry's name, if it has one, is a whole file that holds it.
Kept(entry) ==
    IsNamed(entry) => /\ entry.name \in OwnFiles
                      /\ files[entry.name].whole
                      /\ files[entry.name].doc = entry.spec

Antichain == \A i, j \in Indices(m_members) : i # j =>
                <<m_members[i].spec, m_members[j].spec>> \notin Implies

LEMMA EntriesSplit ==
    EntriesAreOffered <=>
        /\ \A entry \in Range(m_members) \cup Range(m_queue) :
             entry.spec \in m_seen \cup Range(Climb(final)) /\ Kept(entry)
        /\ Antichain
BY DEF EntriesAreOffered, Kept, Antichain

LEMMA KeptStays ==
    ASSUME TypeOK, WriterIsPlaced, FilesAreNumbered, Next, runNumber' = runNumber,
           NEW entry, Kept(entry)
    PROVE  Kept(entry)'
<1>1. CASE IsNamed(entry)
  <2>1. entry.name \in OwnFiles /\ files[entry.name].whole /\ files[entry.name].doc = entry.spec
    BY <1>1 DEF Kept
  <2>2. entry.name \in OwnFiles' /\ files'[entry.name] = files[entry.name]
    BY <2>1, FilesSurvive
  <2> QED BY <2>1, <2>2 DEF Kept
<1>2. CASE ~IsNamed(entry)
  BY <1>2 DEF Kept, IsNamed
<1> QED BY <1>1, <1>2

\* What has been seen stays seen.
LEMMA SeenGrows ==
    ASSUME TypeOK, Next, runNumber' = runNumber
    PROVE  m_seen \subseteq m_seen'
<1>0. m_specifications \in Seq(Candidates) /\ arriving \in Seq(Candidates)
  BY DEF TypeOK
<1>1. CASE m_specifications' = m_specifications
  BY <1>1 DEF m_seen
<1>2. CASE Insert
  <2>1. arriving # <<>> => Head(arriving) \in Candidates
    BY <1>0
  <2>2. CASE m_specifications' = Append(m_specifications, Head(arriving)) /\ arriving # <<>>
    <3>1. PICK s \in Candidates : m_specifications' = Append(m_specifications, s)
      BY <2>1, <2>2
    <3> QED BY <1>0, <3>1, RangeOfAppend DEF m_seen
  <2> QED BY <1>1, <1>2, <2>2 DEF Insert
<1>3. ~StartAgain
  BY DEF StartAgain, TypeOK
<1> QED
  BY <1>1, <1>2, <1>3, StepIs
     DEF Generation, OpenFile, OpenFails, WriteFile, WriteFails, AppendIndexRow,
         AppendFails, Sink, FinishSearch, Drained, OpenRepair, WriteRepair, OpenManifest,
         WriteManifest, Merge, WriteListing, Kill, search

LEMMA EntriesStep ==
    ASSUME TypeOK, WriterIsPlaced, FilesAreNumbered, EntriesAreOffered, OutputIsTheAnswer, Next
    PROVE  EntriesAreOffered'
<1>0. /\ m_queue \in Seq(Entry) /\ m_members \in Seq(Entry) /\ final \in Seq(Candidates)
      /\ m_specifications \in Seq(Candidates)
  BY DEF TypeOK
<1>1. /\ \A entry \in Range(m_members) \cup Range(m_queue) :
           entry.spec \in m_seen \cup Range(Climb(final)) /\ Kept(entry)
      /\ Antichain
  BY EntriesSplit
<1>2. ASSUME runNumber' = runNumber, NEW entry \in Range(m_members) \cup Range(m_queue)
      PROVE  entry.spec \in m_seen' \cup Range(Climb(final')) /\ Kept(entry)'
  <2>1. Kept(entry)'
    BY <1>1, <1>2, KeptStays
  <2>2. CASE final' = final
    BY <1>1, <1>2, <2>1, <2>2, SeenGrows
  <2>3. CASE FinishSearch
    <3>1. final = <<>>
      BY <2>3 DEF FinishSearch, OutputIsTheAnswer
    <3>2. Range(Climb(final)) = {}
      BY <3>1, ClimbType DEF Range, Climb, Indices
    <3> QED BY <1>1, <1>2, <2>1, <3>2, SeenGrows
  <2>4. ~StartAgain
    BY <1>2 DEF StartAgain, TypeOK
  <2> QED
    BY <2>2, <2>3, <2>4, StepIs
       DEF Generation, Insert, OpenFile, OpenFails, WriteFile, WriteFails, AppendIndexRow,
           AppendFails, Sink, Drained, OpenRepair, WriteRepair, OpenManifest, WriteManifest,
           Merge, WriteListing, Kill, tail
<1>3. CASE m_members' = m_members /\ m_queue' = m_queue /\ runNumber' = runNumber
  <2>1. \A entry \in Range(m_members') \cup Range(m_queue') :
           entry.spec \in m_seen' \cup Range(Climb(final')) /\ Kept(entry)'
    BY <1>2, <1>3
  <2>2. Antichain'
    BY <1>1, <1>3 DEF Antichain
  <2> QED BY <2>1, <2>2 DEF EntriesAreOffered, Kept, Antichain
<1>4. CASE Sink
  <2>1. PICK entry \in Entry :
          /\ m_queue' = Append(m_queue, entry)
          /\ entry.spec = Accumulating /\ Offering
          /\ \/ pc = "count" /\ entry.name = CurrentName
             \/ pc = "sink" /\ entry.name = NoName
    BY <1>4, PushedIs
  <2>2. m_members' = m_members /\ runNumber' = runNumber /\ files' = files /\ m_seen' = m_seen
    BY <1>4 DEF Sink, disk, search, m_seen
  <2>3. Range(m_queue') = Range(m_queue) \cup {entry}
    BY <1>0, <2>1, RangeOfAppend
  <2>4. entry.spec \in m_seen'
    BY <2>1, <2>2, AccumulatingIs
  <2>5. Kept(entry)'
    <3>1. CASE pc = "count"
      <4>1. /\ CurrentName \in OwnFiles /\ files[CurrentName].whole
            /\ files[CurrentName].doc = Accumulating /\ entry.name = CurrentName
        BY <2>1, <3>1 DEF FilesAreNumbered
      <4>2. OwnFiles' = OwnFiles
        BY <2>2 DEF OwnFiles
      <4> QED BY <2>1, <2>2, <4>1, <4>2 DEF Kept
    <3>2. CASE pc = "sink"
      BY <2>1, <3>2 DEF Kept, IsNamed
    <3> QED BY <2>1, <3>1, <3>2
  <2>6. \A e \in Range(m_members') \cup Range(m_queue') :
           e.spec \in m_seen' \cup Range(Climb(final')) /\ Kept(e)'
    <3> SUFFICES ASSUME NEW e \in Range(m_members') \cup Range(m_queue')
                 PROVE  e.spec \in m_seen' \cup Range(Climb(final')) /\ Kept(e)'
      OBVIOUS
    <3>1. CASE e = entry
      BY <2>4, <2>5, <3>1
    <3>2. CASE e \in Range(m_members) \cup Range(m_queue)
      BY <1>2, <2>2, <3>2
    <3> QED BY <2>2, <2>3, <3>1, <3>2
  <2>7. Antichain'
    BY <1>1, <2>2 DEF Antichain
  <2> QED BY <2>6, <2>7 DEF EntriesAreOffered, Kept, Antichain
<1>5. CASE FinishSearch
  <2>1. m_members' = m_members /\ runNumber' = runNumber /\ files' = files
    BY <1>5 DEF FinishSearch, disk, search
  <2>2. PICK new \in Seq(Candidates) :
          /\ Range(new) = Range(Climb(final')) \ m_seen
          /\ m_queue' = m_queue \o Unnamed(new)
    BY <1>5, FinalIs
  <2>3. Range(m_queue') = Range(m_queue) \cup Range(Unnamed(new))
    BY <1>0, <2>2, UnnamedIs, RangeOfConcat
  <2>4. \A e \in Range(Unnamed(new)) : e.spec \in Range(Climb(final')) /\ ~IsNamed(e)
    BY <2>2, UnnamedIs
  <2>5. \A e \in Range(m_members') \cup Range(m_queue') :
           e.spec \in m_seen' \cup Range(Climb(final')) /\ Kept(e)'
    <3> SUFFICES ASSUME NEW e \in Range(m_members') \cup Range(m_queue')
                 PROVE  e.spec \in m_seen' \cup Range(Climb(final')) /\ Kept(e)'
      OBVIOUS
    <3>1. CASE e \in Range(Unnamed(new))
      <4>1. Kept(e)'
        BY <2>4, <3>1 DEF Kept, IsNamed
      <4> QED BY <2>4, <3>1, <4>1
    <3>2. CASE e \in Range(m_members) \cup Range(m_queue)
      BY <1>2, <2>1, <3>2
    <3> QED BY <2>1, <2>3, <3>1, <3>2
  <2>6. Antichain'
    BY <1>1, <2>1 DEF Antichain
  <2> QED BY <2>5, <2>6 DEF EntriesAreOffered, Kept, Antichain
<1>6. CASE Merge /\ ~(m_members' = m_members)
  <2>1. m_queue' = <<>> /\ runNumber' = runNumber
    BY <1>6 DEF Merge, search
  <2>2. m_members' \in Firsts(MaximalEntries(m_members \o m_queue), m_members \o m_queue)
    BY <1>6 DEF Merge
  <2>3. /\ m_members \o m_queue \in Seq(Entry)
        /\ Range(m_members \o m_queue) = Range(m_members) \cup Range(m_queue)
    BY <1>0, RangeOfConcat
  <2>4. PICK kept \in Firsts(MaximalEntries(m_members \o m_queue), m_members \o m_queue) :
          m_members' = kept
    BY <2>2
  <2>5. /\ Range(kept) \subseteq Range(m_members) \cup Range(m_queue)
        /\ \A i, j \in Indices(kept) : i # j => <<kept[i].spec, kept[j].spec>> \notin Implies
    BY <2>3, MergedIs
  <2>6. Range(m_queue') = {}
    BY <2>1 DEF Range
  <2>7. \A e \in Range(m_members') \cup Range(m_queue') :
           e.spec \in m_seen' \cup Range(Climb(final')) /\ Kept(e)'
    BY <1>2, <2>1, <2>4, <2>5, <2>6
  <2>8. Antichain'
    BY <2>4, <2>5 DEF Antichain
  <2> QED BY <2>7, <2>8 DEF EntriesAreOffered, Kept, Antichain
<1>7. CASE Merge /\ m_members' = m_members
  <2>1. m_queue' = <<>> /\ runNumber' = runNumber
    BY <1>7 DEF Merge, search
  <2>2. Range(m_queue') = {}
    BY <2>1 DEF Range
  <2>3. \A e \in Range(m_members') \cup Range(m_queue') :
           e.spec \in m_seen' \cup Range(Climb(final')) /\ Kept(e)'
    BY <1>2, <1>7, <2>1, <2>2
  <2>4. Antichain'
    BY <1>1, <1>7 DEF Antichain
  <2> QED BY <2>3, <2>4 DEF EntriesAreOffered, Kept, Antichain
<1>8. CASE StartAgain
  <2>1. m_queue' = <<>> /\ m_members' = <<>>
    BY <1>8 DEF StartAgain
  <2> QED BY <2>1 DEF EntriesAreOffered, Range, Indices
<1> QED
  BY <1>3, <1>4, <1>5, <1>6, <1>7, <1>8, StepIs
     DEF Generation, Insert, OpenFile, OpenFails, WriteFile, WriteFails, AppendIndexRow,
         AppendFails, Drained, OpenRepair, WriteRepair, OpenManifest, WriteManifest,
         WriteListing, Kill, search, stream

\* What the listing has is from a state of the members, and the files stay.
LEMMA ListingStep ==
    ASSUME TypeOK, WriterIsPlaced, FilesAreNumbered, EntriesAreOffered, ListingNamesWholeFiles, Next
    PROVE  ListingNamesWholeFiles'
<1> DEFINE Doc(i) == files[maximal_tsv[i].name].doc
<1>0. /\ m_members \in Seq(Entry) /\ runNumber \in Nat
      /\ maximal_tsv \in Seq([name : FileName, run : 1 .. runNumber])
  BY DEF TypeOK
<1>1. CASE maximal_tsv' = maximal_tsv /\ runNumber' = runNumber
  <2>1. ASSUME NEW i \in Indices(maximal_tsv), maximal_tsv[i].run = runNumber
        PROVE  /\ maximal_tsv[i].name \in OwnFiles'
               /\ files'[maximal_tsv[i].name] = files[maximal_tsv[i].name]
               /\ files[maximal_tsv[i].name].whole
    <3>1. maximal_tsv[i].name \in OwnFiles /\ files[maximal_tsv[i].name].whole
      BY <2>1 DEF ListingNamesWholeFiles, OwnFiles
    <3> QED BY <1>1, <3>1, FilesSurvive
  <2>2. ASSUME NEW i \in Indices(maximal_tsv'), maximal_tsv'[i].run = runNumber'
        PROVE  /\ maximal_tsv'[i].name \in DOMAIN files'
               /\ files'[maximal_tsv'[i].name].whole
               /\ files'[maximal_tsv'[i].name].run = runNumber'
    BY <1>1, <2>1, <2>2 DEF OwnFiles
  <2>3. ASSUME NEW i \in Indices(maximal_tsv'), NEW j \in Indices(maximal_tsv'),
               maximal_tsv'[i].run = runNumber', maximal_tsv'[j].run = runNumber', i # j
        PROVE  <<Doc(i)', Doc(j)'>> \notin Implies
    <3>1. Doc(i)' = Doc(i) /\ Doc(j)' = Doc(j)
      BY <1>1, <2>1, <2>3
    <3>2. <<Doc(i), Doc(j)>> \notin Implies
      BY <1>1, <2>3 DEF ListingNamesWholeFiles
    <3> QED BY <3>1, <3>2
  <2> QED BY <2>2, <2>3 DEF ListingNamesWholeFiles
<1>2. CASE WriteListing /\ Lists
  <2>1. runNumber' = runNumber /\ files' = files
    BY <1>2 DEF WriteListing, search
  <2>2. CASE maximal_tsv' = maximal_tsv
    BY <1>1, <2>1, <2>2
  <2>3. ASSUME NEW named \in Firsts(NamedMembers, m_members),
               maximal_tsv' = [i \in Indices(named) |-> [name |-> named[i].name, run |-> runNumber]]
        PROVE  ListingNamesWholeFiles'
    <3>1. /\ named \in Seq(Entry)
          /\ \A i \in 1 .. Len(named) : named[i] \in Range(m_members) /\ IsNamed(named[i])
          /\ \A i, j \in 1 .. Len(named) : i # j => named[i] # named[j]
      BY ListedIs
    <3>2. Indices(maximal_tsv') = 1 .. Len(named)
      BY <2>3, <3>1 DEF Indices
    <3>3. \A i \in 1 .. Len(named) : maximal_tsv'[i].name = named[i].name
      BY <2>3 DEF Indices
    <3>4. ASSUME NEW i \in 1 .. Len(named)
          PROVE  /\ named[i].name \in OwnFiles /\ files[named[i].name].whole
                 /\ files[named[i].name].doc = named[i].spec
      BY <3>1 DEF EntriesAreOffered
    <3>5. ASSUME NEW i \in 1 .. Len(named), NEW j \in 1 .. Len(named), i # j
          PROVE  <<named[i].spec, named[j].spec>> \notin Implies
      <4>1. PICK k \in 1 .. Len(m_members) : named[i] = m_members[k]
        BY <1>0, <3>1, FromRange
      <4>2. PICK l \in 1 .. Len(m_members) : named[j] = m_members[l]
        BY <1>0, <3>1, FromRange
      <4>3. k # l
        BY <3>1, <3>5, <4>1, <4>2
      <4> QED BY <4>1, <4>2, <4>3 DEF EntriesAreOffered, Indices
    <3>6. \A i \in Indices(maximal_tsv') : /\ maximal_tsv'[i].name \in DOMAIN files'
                                           /\ files'[maximal_tsv'[i].name].whole
                                           /\ files'[maximal_tsv'[i].name].run = runNumber'
      BY <2>1, <3>2, <3>3, <3>4 DEF OwnFiles
    <3>7. \A i, j \in Indices(maximal_tsv') : i # j => <<Doc(i)', Doc(j)'>> \notin Implies
      BY <2>1, <3>2, <3>3, <3>4, <3>5
    <3> QED BY <3>6, <3>7 DEF ListingNamesWholeFiles
  <2> QED BY <1>2, <2>2, <2>3 DEF WriteListing
<1>3. CASE StartAgain
  <2>1. runNumber' = runNumber + 1 /\ maximal_tsv' = maximal_tsv
    BY <1>3 DEF StartAgain, disk
  <2>2. ASSUME NEW i \in Indices(maximal_tsv) PROVE maximal_tsv[i].run \in 1 .. runNumber
    <3>1. maximal_tsv[i] \in [name : FileName, run : 1 .. runNumber]
      BY <1>0, SeqIs DEF Indices
    <3> QED BY <3>1
  <2>3. \A i \in Indices(maximal_tsv') : maximal_tsv'[i].run # runNumber'
    BY <1>0, <2>1, <2>2
  <2> QED BY <2>3 DEF ListingNamesWholeFiles
<1> QED
  BY <1>1, <1>2, <1>3, StepIs
     DEF Generation, Insert, OpenFile, OpenFails, WriteFile, WriteFails, AppendIndexRow,
         AppendFails, Sink, FinishSearch, Drained, OpenRepair, WriteRepair, OpenManifest,
         WriteManifest, Merge, WriteListing, Kill, disk, search

\* Something in the stream implies s.
Covered(s) ==
    \E entry \in Range(m_members) \cup Range(m_queue) : <<entry.spec, s>> \in Implies

LEMMA OfferedWhenIdle ==
    ASSUME TypeOK, ~Offering
    PROVE  Offered = m_seen \cup Range(Climb(final))
<1>1. m_specifications \in Seq(Candidates) /\ Len(m_specifications) \in Nat
  BY SeqIs DEF TypeOK
<1>2. Offered = {m_specifications[i] : i \in 1 .. Len(m_specifications)} \cup Range(Climb(final))
  BY <1>1 DEF Offered
<1> QED BY <1>1, <1>2, SeqIs DEF m_seen, Range

\* The last accumulated is not offered before Sink offers it.
LEMMA OfferedBefore ==
    ASSUME TypeOK, WriterIsPlaced, Offering
    PROVE  m_seen \subseteq Offered \cup {Accumulating}
<1>1. m_specifications \in Seq(Candidates) /\ Len(m_specifications) \in Nat \ {0}
      /\ Accumulating = m_specifications[Len(m_specifications)]
  BY AccumulatingIs DEF TypeOK
<1>2. Offered = {m_specifications[i] : i \in 1 .. Len(m_specifications) - 1} \cup Range(Climb(final))
  BY <1>1 DEF Offered
<1>3. ASSUME NEW s \in m_seen PROVE s \in Offered \cup {Accumulating}
  <2>1. PICK i \in 1 .. Len(m_specifications) : s = m_specifications[i]
    BY <1>1, FromRange DEF m_seen
  <2>2. i \in 1 .. Len(m_specifications) - 1 \/ i = Len(m_specifications)
    BY <1>1
  <2> QED BY <1>1, <1>2, <2>1, <2>2
<1> QED BY <1>3

\* The writer's steps offer nothing, nor does the start of one.
LEMMA OfferedStays ==
    ASSUME TypeOK, Next, ~Sink, ~FinishSearch, ~StartAgain, ~Kill
    PROVE  Offered' \subseteq Offered
<1>0. /\ m_specifications \in Seq(Candidates) /\ Len(m_specifications) \in Nat
      /\ arriving \in Seq(Candidates)
  BY SeqIs DEF TypeOK
<1>1. CASE Insert
  <2>1. final' = final /\ pc = "search"
    BY <1>1 DEF Insert, tail
  <2>2. CASE m_specifications' = m_specifications /\ pc' = pc
    BY <2>1, <2>2 DEF Offered, Offering, Writing
  <2>3. CASE /\ m_specifications' = Append(m_specifications, Head(arriving))
             /\ pc' = IF Active THEN "open" ELSE "sink"
    <3>1. /\ Len(m_specifications') = Len(m_specifications) + 1
          /\ \A i \in 1 .. Len(m_specifications) : m_specifications'[i] = m_specifications[i]
      BY <1>0, <2>3
    <3>2. Offering' /\ ~Offering
      BY <2>1, <2>3 DEF Offering, Writing
    <3>3. Offered' = {m_specifications'[i] : i \in 1 .. Len(m_specifications)} \cup Range(Climb(final'))
      BY <1>0, <3>1, <3>2 DEF Offered
    <3>4. Offered = {m_specifications[i] : i \in 1 .. Len(m_specifications)} \cup Range(Climb(final))
      BY <1>0, <3>2 DEF Offered
    <3> QED BY <2>1, <3>1, <3>3, <3>4 DEF Climb, Indices
  <2> QED BY <1>1, <2>2, <2>3 DEF Insert
<1>2. CASE UNCHANGED <<final, m_specifications>> /\ Offering' = Offering
  BY <1>2 DEF Offered, Climb, Indices
<1>3. CASE \/ OpenFile \/ OpenFails \/ WriteFile \/ WriteFails \/ AppendIndexRow \/ AppendFails
  <2>1. /\ UNCHANGED <<final, m_specifications>> /\ pc \in {"open", "write", "index"}
        /\ pc' \in {"write", "index", "count", "sink"}
    BY <1>3 DEF OpenFile, OpenFails, WriteFile, WriteFails, AppendIndexRow, AppendFails,
                AfterDocument, AfterFailure, search, tail
  <2> QED BY <1>2, <2>1 DEF Offering, Writing
<1>4. CASE Generation \/ Drained \/ OpenRepair \/ WriteRepair \/ OpenManifest \/ WriteManifest
  <2>1. /\ UNCHANGED <<final, m_specifications>>
        /\ pc \in {"search", "drain", "repairs", "repair", "manifest"}
        /\ pc' \in {"search", "repairs", "repair", "manifest", "done", "fatal"}
    BY <1>4 DEF Generation, Drained, OpenRepair, WriteRepair, OpenManifest, WriteManifest,
                search, tail
  <2> QED BY <1>2, <2>1 DEF Offering, Writing
<1>5. CASE Merge \/ WriteListing
  BY <1>2, <1>5 DEF Merge, WriteListing, search, tail, Offering, Writing
<1> QED BY <1>1, <1>3, <1>4, <1>5, StepIs

LEMMA CoveredStep ==
    ASSUME TypeOK, WriterIsPlaced, OfferedIsCovered, OutputIsTheAnswer, Next
    PROVE  OfferedIsCovered'
<1>0. /\ m_queue \in Seq(Entry) /\ m_members \in Seq(Entry) /\ final \in Seq(Candidates)
      /\ m_specifications \in Seq(Candidates) /\ Len(m_specifications) \in Nat
  BY SeqIs DEF TypeOK
<1>1. SUFFICES ASSUME ~m_error', pc' # "killed", NEW s \in Offered'
               PROVE  Covered(s)'
  BY DEF OfferedIsCovered, Covered
<1>2. ~m_error /\ pc # "killed" => \A t \in Offered : Covered(t)
  BY DEF OfferedIsCovered, Covered
<1>3. CASE StartAgain
  <2>1. m_specifications' = <<>> /\ final' = <<>> /\ pc' = "search"
    BY <1>3 DEF StartAgain
  <2>2. Offered' = {}
    BY <2>1 DEF Offered, Offering, Writing, Climb, Range, Indices
  <2> QED BY <1>1, <2>2
<1>4. CASE Sink
  <2>1. PICK entry \in Entry : m_queue' = Append(m_queue, entry) /\ entry.spec = Accumulating /\ Offering
    BY <1>4, PushedIs
  <2>2. /\ m_members' = m_members /\ m_error' = m_error /\ pc # "killed" /\ pc' = "search"
        /\ UNCHANGED <<m_specifications, final>>
    BY <1>4 DEF Sink, search, tail, writer
  <2>3. Range(m_queue') = Range(m_queue) \cup {entry}
    BY <1>0, <2>1, RangeOfAppend
  <2>4. Offered' \subseteq m_seen \cup Range(Climb(final))
    <3>1. Offered' = {m_specifications[i] : i \in 1 .. Len(m_specifications)} \cup Range(Climb(final))
      BY <1>0, <2>2 DEF Offered, Offering, Writing, Climb, Indices
    <3> QED BY <1>0, <3>1, InRange DEF m_seen
  <2>5. s \in Offered \cup {Accumulating}
    <3>1. Range(Climb(final)) \subseteq Offered
      BY DEF Offered
    <3> QED BY <1>1, <2>1, <2>4, <3>1, OfferedBefore
  <2>6. Accumulating \in Candidates
    BY <2>1, AccumulatingIs
  <2>7. CASE s = Accumulating
    BY <2>1, <2>3, <2>6, <2>7, Preorder DEF Covered
  <2>8. CASE s \in Offered
    BY <1>1, <1>2, <2>2, <2>3, <2>8 DEF Covered
  <2> QED BY <2>5, <2>7, <2>8
<1>5. CASE FinishSearch
  <2>1. /\ pc = "search" /\ pc' = "drain" /\ m_members' = m_members /\ m_error' = m_error
        /\ m_specifications' = m_specifications
    BY <1>5 DEF FinishSearch, search
  <2>2. PICK new \in Seq(Candidates) :
          /\ Range(new) = Range(Climb(final')) \ m_seen
          /\ m_queue' = m_queue \o Unnamed(new)
    BY <1>5, FinalIs
  <2>3. Range(m_queue') = Range(m_queue) \cup Range(Unnamed(new))
    BY <1>0, <2>2, UnnamedIs, RangeOfConcat
  <2>4. s \in m_seen \cup Range(Climb(final'))
    <3>1. Offered' = {m_specifications[i] : i \in 1 .. Len(m_specifications)} \cup Range(Climb(final'))
      BY <1>0, <2>1 DEF Offered, Offering, Writing
    <3> QED BY <1>0, <1>1, <3>1, InRange DEF m_seen
  <2>5. CASE s \in m_seen
    <3>1. s \in Offered
      BY <2>1, <2>5, OfferedWhenIdle DEF Offering, Writing
    <3> QED BY <1>1, <1>2, <2>1, <2>3, <3>1 DEF Covered
  <2>6. CASE s \in Range(new)
    <3>1. s \in Candidates
      BY <2>2, <2>6, RangeType
    <3>2. \E e \in Range(Unnamed(new)) : e.spec = s
      BY <2>2, <2>6, UnnamedIs
    <3> QED BY <2>3, <3>1, <3>2, Preorder DEF Covered
  <2> QED BY <2>2, <2>4, <2>5, <2>6
<1>6. CASE Merge
  <2>1. /\ ~m_error /\ pc # "killed" /\ m_queue' = <<>>
        /\ m_members' \in Firsts(MaximalEntries(m_members \o m_queue), m_members \o m_queue)
    BY <1>1, <1>6 DEF Merge
  <2>2. /\ m_members \o m_queue \in Seq(Entry)
        /\ Range(m_members \o m_queue) = Range(m_members) \cup Range(m_queue)
    BY <1>0, RangeOfConcat
  <2>3. PICK kept \in Firsts(MaximalEntries(m_members \o m_queue), m_members \o m_queue) :
          m_members' = kept
    BY <2>1
  <2>4. /\ kept \in Seq(Entry)
        /\ \A e \in Range(m_members) \cup Range(m_queue) :
             \E k \in Range(kept) : <<k.spec, e.spec>> \in Implies
    BY <2>2, MergedIs
  <2>5. s \in Offered
    BY <1>1, <1>6, OfferedStays DEF Merge, Sink, FinishSearch, StartAgain, Kill, Running
  <2>6. PICK e \in Range(m_members) \cup Range(m_queue) : <<e.spec, s>> \in Implies
    BY <1>2, <2>1, <2>5 DEF Covered
  <2>7. PICK k \in Range(kept) : <<k.spec, e.spec>> \in Implies
    BY <2>4
  <2>8. e.spec \in Candidates /\ k.spec \in Candidates /\ s \in Candidates
    <3>1. e \in Entry /\ k \in Entry
      BY <1>0, <2>4, RangeType
    <3>2. s \in Candidates
      BY <2>6, RunOutputAssumption
    <3> QED BY <3>1, <3>2 DEF Entry
  <2>9. <<k.spec, s>> \in Implies
    BY <2>6, <2>7, <2>8, Preorder
  <2> QED BY <2>3, <2>9 DEF Covered
<1>7. CASE Kill
  BY <1>1, <1>7 DEF Kill
<1>8. CASE /\ UNCHANGED <<m_members, m_queue, m_error>> /\ pc # "killed"
           /\ ~Sink /\ ~FinishSearch /\ ~StartAgain /\ ~Kill
  <2>1. s \in Offered
    BY <1>1, <1>8, OfferedStays
  <2>2. Covered(s)
    BY <1>1, <1>2, <1>8, <2>1
  <2> QED BY <1>8, <2>2 DEF Covered
<1>9. \/ StartAgain \/ Sink \/ FinishSearch \/ Merge \/ Kill
      \/ UNCHANGED <<m_members, m_queue, m_error>> /\ pc # "killed"
  <2>1. CASE \/ Generation \/ Insert \/ OpenFile \/ OpenFails \/ WriteFile \/ WriteFails
             \/ AppendIndexRow \/ AppendFails \/ Drained \/ OpenRepair \/ WriteRepair
             \/ OpenManifest \/ WriteManifest
    BY <2>1
       DEF Generation, Insert, OpenFile, OpenFails, WriteFile, WriteFails, AppendIndexRow,
           AppendFails, Drained, OpenRepair, WriteRepair, OpenManifest, WriteManifest, stream
  <2>2. CASE WriteListing /\ Running
    BY <2>2 DEF WriteListing, Running
  <2> QED BY <2>1, <2>2, StepIs
<1> QED
  BY <1>3, <1>4, <1>5, <1>6, <1>7, <1>8, <1>9

-----------------------------------------------------------------------------
(* The answer *)

\* What the climb keeps of the population and of what was found along the way:
\* something in the stream is above it once the stream has been told of all.
LEMMA AnswerIs ==
    ASSUME TypeOK, EntriesAreOffered, OfferedIsCovered, OutputIsTheAnswer,
           pc = "drain", m_queue = <<>>, ~m_error,
           NEW answer \in Emitted({m_members[i].spec : i \in Indices(m_members)})
    PROVE  /\ \A s \in m_seen \cup Range(final) : \E t \in Range(answer) : <<t, s>> \in Implies
           /\ \A i, j \in Indices(answer) : i # j => <<answer[i], answer[j]>> \notin Implies
<1> DEFINE kept == {m_members[i].spec : i \in Indices(m_members)}
           list == Climb(final) \o final
<1>0. /\ m_members \in Seq(Entry) /\ final \in Seq(Candidates)
      /\ m_specifications \in Seq(Candidates)
  BY DEF TypeOK
<1>1. /\ Climb(final) \in Seq(Candidates) /\ Len(Climb(final)) = Len(final)
      /\ \A i \in 1 .. Len(final) : Climb(final)[i] = Climbed[final[i]]
  BY <1>0, ClimbType
<1>2. list \in Seq(Candidates) /\ Range(list) = Range(Climb(final)) \cup Range(final)
  BY <1>0, <1>1, RangeOfConcat
<1>3. answer \in Firsts(kept, list)
  BY DEF Emitted
<1> HIDE DEF list
<1>4. /\ answer \in Seq(Candidates) /\ Range(answer) = kept \cap Range(list)
      /\ \A i, j \in 1 .. Len(answer) : i # j => answer[i] # answer[j]
  BY <1>2, <1>3, FirstsIs
<1>5. m_seen \subseteq Range(final)
  BY DEF OutputIsTheAnswer
<1>6. ASSUME NEW s \in m_seen \cup Range(Climb(final))
      PROVE  \E t \in Range(answer) : <<t, s>> \in Implies
  <2>1. s \in Offered
    BY OfferedWhenIdle DEF Offering, Writing
  <2>2. PICK e \in Range(m_members) \cup Range(m_queue) : <<e.spec, s>> \in Implies
    BY <2>1 DEF OfferedIsCovered
  <2>3. e \in Range(m_members)
    BY <2>2 DEF Range
  <2>4. e.spec \in m_seen \cup Range(Climb(final))
    BY <2>3 DEF EntriesAreOffered
  <2>5. e.spec \in kept
    BY <1>0, <2>3, FromRange DEF Indices
  <2> QED BY <1>2, <1>4, <1>5, <2>2, <2>4, <2>5
<1>7. ASSUME NEW s \in Range(final)
      PROVE  \E t \in Range(answer) : <<t, s>> \in Implies
  <2>1. PICK i \in 1 .. Len(final) : s = final[i]
    BY <1>0, FromRange
  <2>2. s \in Candidates /\ Climbed[s] \in Candidates /\ <<Climbed[s], s>> \in Implies
    BY <1>0, RangeType, Preorder
  <2>3. Climbed[s] \in Range(Climb(final))
    BY <1>1, <2>1, InRange
  <2>4. PICK t \in Range(answer) : <<t, Climbed[s]>> \in Implies
    BY <1>6, <2>3
  <2>5. t \in Candidates
    BY <1>4, RangeType
  <2> QED BY <2>2, <2>4, <2>5, Preorder
<1>8. ASSUME NEW i \in Indices(answer), NEW j \in Indices(answer), i # j
      PROVE  <<answer[i], answer[j]>> \notin Implies
  <2>1. answer[i] \in kept /\ answer[j] \in kept /\ answer[i] # answer[j]
    BY <1>4, <1>8, InRange DEF Indices
  <2>2. PICK k \in Indices(m_members) : answer[i] = m_members[k].spec
    BY <2>1
  <2>3. PICK l \in Indices(m_members) : answer[j] = m_members[l].spec
    BY <2>1
  <2> QED BY <2>1, <2>2, <2>3 DEF EntriesAreOffered
<1> QED BY <1>6, <1>7, <1>8

LEMMA OutputStep ==
    ASSUME TypeOK, EntriesAreOffered, OfferedIsCovered, OutputIsTheAnswer, Next
    PROVE  OutputIsTheAnswer'
<1>1. CASE FinishSearch
  <2>1. /\ pc = "search" /\ pc' = "drain" /\ output' = output
        /\ m_specifications' = m_specifications
    BY <1>1 DEF FinishSearch, search
  <2>2. m_seen' \subseteq Range(final')
    BY <1>1, <2>1, FinalIs DEF m_seen
  <2> QED BY <2>1, <2>2 DEF OutputIsTheAnswer, Emitting, Offering, Writing
<1>2. CASE Drained
  <2>1. /\ pc = "drain" /\ m_queue = <<>> /\ pc' \in {"fatal", "repairs"}
        /\ UNCHANGED <<m_specifications, final>> /\ m_seen' = m_seen
    BY <1>2 DEF Drained, search, m_seen
  <2>2. CASE pc' = "fatal"
    BY <2>2 DEF OutputIsTheAnswer, Emitting, Offering, Writing
  <2>3. CASE pc' = "repairs"
    <3>1. PICK answer \in Emitted({m_members[i].spec : i \in Indices(m_members)}) :
            output' = answer /\ ~m_error
      BY <1>2, <2>3 DEF Drained
    <3>2. /\ \A s \in m_seen \cup Range(final) : \E t \in Range(answer) : <<t, s>> \in Implies
          /\ \A i, j \in Indices(answer) : i # j => <<answer[i], answer[j]>> \notin Implies
      BY <2>1, <3>1, AnswerIs
    <3>3. m_seen \subseteq Range(final)
      BY <2>1 DEF OutputIsTheAnswer
    <3> QED BY <2>1, <2>3, <3>1, <3>2, <3>3 DEF OutputIsTheAnswer, Emitting, Offering, Writing
  <2> QED BY <2>1, <2>2, <2>3
<1>3. CASE OpenRepair \/ WriteRepair \/ OpenManifest \/ WriteManifest
  <2>1. /\ pc \in {"repairs", "repair", "manifest"}
        /\ pc' \in {"repairs", "repair", "manifest", "done", "fatal"}
        /\ UNCHANGED <<m_specifications, final, output>> /\ m_seen' = m_seen
    BY <1>3 DEF OpenRepair, WriteRepair, OpenManifest, WriteManifest, search, tail, m_seen
  <2> QED BY <2>1 DEF OutputIsTheAnswer, Emitting, Offering, Writing
<1>4. CASE \/ Generation \/ Insert \/ OpenFile \/ OpenFails \/ WriteFile \/ WriteFails
           \/ AppendIndexRow \/ AppendFails \/ Sink
  <2>1. /\ pc \in {"search", "open", "write", "index", "count", "sink"}
        /\ pc' \in {"search", "open", "write", "index", "count", "sink"}
        /\ UNCHANGED <<final, output>>
    BY <1>4 DEF Generation, Insert, OpenFile, OpenFails, WriteFile, WriteFails,
                AppendIndexRow, AppendFails, Sink, AfterDocument, AfterFailure, tail
  <2> QED BY <2>1 DEF OutputIsTheAnswer, Emitting, Offering, Writing
<1>5. CASE Kill
  BY <1>5 DEF Kill, OutputIsTheAnswer, Emitting, Offering, Writing
<1>6. CASE StartAgain
  BY <1>6 DEF StartAgain, OutputIsTheAnswer, Emitting, Offering, Writing
<1>7. CASE Merge \/ WriteListing
  <2>1. UNCHANGED <<pc, m_specifications, final, output>> /\ m_seen' = m_seen
    BY <1>7 DEF Merge, WriteListing, search, tail, m_seen
  <2> QED BY <2>1 DEF OutputIsTheAnswer, Emitting, Offering, Writing
<1> QED BY <1>1, <1>2, <1>3, <1>4, <1>5, <1>6, <1>7, StepIs

-----------------------------------------------------------------------------
(* The repairs and the manifest *)

\* The repairs, and how many of them are opened.
RepairsAre(count) ==
    /\ OwnRepairs = 0 .. count - 1
    /\ \A n \in OwnRepairs :
         /\ repairs[n].doc = output[n + 1]
         /\ \/ repairs[n].whole \/ "text" \in Faults
            \/ pc = "repair" /\ n = count - 1
    /\ pc = "repair" => count > 0
    /\ pc \in {"manifest", "done"} \/ manifest.run = runNumber => count = Len(output)

\* One repair is opened, and then it is sent its text.
LEMMA RepairOpened ==
    ASSUME TypeOK, RepairsAreNumbered, NEW count \in 0 .. Len(output), RepairsAre(count),
           OpenRepair, pc' = "repair", NEW next \in Nat, next = count + 1
    PROVE  RepairsAre(next)' /\ next \in 0 .. Len(output')
<1>0. output \in Seq(Candidates) /\ Len(output) \in Nat
  BY SeqIs DEF TypeOK
<1>1. Cardinality(OwnRepairs) = count
  BY <1>0, CountIs DEF RepairsAre
<1>2. /\ pc = "repairs" /\ count < Len(output) /\ runNumber' = runNumber /\ output' = output
      /\ setting' = setting /\ manifest' = manifest
      /\ repairs' = With(repairs, count,
                         [doc |-> output[count + 1], whole |-> FALSE, run |-> runNumber])
  BY <1>1 DEF OpenRepair, search, tail
<1>3. /\ DOMAIN repairs' = DOMAIN repairs \cup {count}
      /\ repairs'[count] = [doc |-> output[count + 1], whole |-> FALSE, run |-> runNumber]
      /\ \A n \in DOMAIN repairs : n # count => repairs'[n] = repairs[n]
  BY <1>2 DEF With
<1>4. OwnRepairs = 0 .. count - 1
  BY DEF RepairsAre
<1>5. OwnRepairs' = OwnRepairs \cup {count}
  <2>1. count \in OwnRepairs'
    BY <1>2, <1>3 DEF OwnRepairs
  <2>2. \A n : n # count => (n \in OwnRepairs' <=> n \in OwnRepairs)
    BY <1>2, <1>3 DEF OwnRepairs
  <2> QED BY <2>1, <2>2
<1>6. OwnRepairs' = 0 .. next - 1 /\ next > 0 /\ next \in 0 .. Len(output')
  BY <1>0, <1>2, <1>4, <1>5
<1>7. ASSUME NEW n \in OwnRepairs'
      PROVE  /\ repairs'[n].doc = output'[n + 1]
             /\ repairs'[n].whole \/ "text" \in Faults' \/ n = next - 1
  <2>1. CASE n = count
    BY <1>0, <1>2, <1>3, <2>1
  <2>2. CASE n # count
    <3>1. n \in OwnRepairs /\ n \in DOMAIN repairs
      BY <1>5, <2>2 DEF OwnRepairs
    <3>2. repairs[n].doc = output[n + 1] /\ (repairs[n].whole \/ "text" \in Faults)
      BY <1>2, <3>1 DEF RepairsAre
    <3> QED BY <1>2, <1>3, <2>2, <3>1, <3>2 DEF Faults
  <2> QED BY <2>1, <2>2
<1>8. manifest'.run # runNumber'
  BY <1>2 DEF RepairsAreNumbered
<1> QED BY <1>6, <1>7, <1>8 DEF RepairsAre

LEMMA RepairWritten ==
    ASSUME TypeOK, RepairsAreNumbered, NEW count \in 0 .. Len(output), RepairsAre(count),
           WriteRepair
    PROVE  RepairsAre(count)' /\ count \in 0 .. Len(output')
<1>0. output \in Seq(Candidates) /\ Len(output) \in Nat
  BY SeqIs DEF TypeOK
<1>1. Cardinality(OwnRepairs) = count
  BY <1>0, CountIs DEF RepairsAre
<1>2. /\ pc = "repair" /\ pc' = "repairs" /\ runNumber' = runNumber /\ output' = output
      /\ setting' = setting /\ manifest' = manifest
      /\ \/ repairs' = [repairs EXCEPT ![count - 1].whole = TRUE]
         \/ "text" \in Faults /\ repairs' = repairs
  BY <1>1 DEF WriteRepair, search, tail
<1>3. manifest'.run # runNumber'
  BY <1>2 DEF RepairsAreNumbered
<1>4. OwnRepairs = 0 .. count - 1 /\ count > 0
      /\ \A n \in OwnRepairs : repairs[n].doc = output[n + 1]
  BY <1>2 DEF RepairsAre
<1>5. CASE repairs' = repairs /\ "text" \in Faults
  <2>1. OwnRepairs' = OwnRepairs /\ Faults' = Faults
    BY <1>2, <1>5 DEF OwnRepairs, Faults
  <2> QED BY <1>2, <1>3, <1>4, <1>5, <2>1 DEF RepairsAre
<1>6. CASE repairs' = [repairs EXCEPT ![count - 1].whole = TRUE]
  <2> DEFINE i == count - 1
  <2>1. i \in DOMAIN repairs
        /\ repairs[i] \in [doc : Candidates, whole : BOOLEAN, run : 1 .. runNumber]
    <3>1. i \in OwnRepairs
      BY <1>0, <1>4
    <3> QED BY <3>1 DEF OwnRepairs, TypeOK
  <2> HIDE DEF i
  <2>2. repairs' = [repairs EXCEPT ![i].whole = TRUE]
    BY <1>6 DEF i
  <2>3. /\ DOMAIN repairs' = DOMAIN repairs
        /\ repairs'[i].doc = repairs[i].doc /\ repairs'[i].run = repairs[i].run
        /\ repairs'[i].whole
        /\ \A n \in DOMAIN repairs : n # i => repairs'[n] = repairs[n]
    BY <2>1, <2>2
  <2>4. OwnRepairs' = OwnRepairs
    BY <1>2, <2>1, <2>3 DEF OwnRepairs
  <2>5. ASSUME NEW n \in OwnRepairs
        PROVE  repairs'[n].doc = output'[n + 1] /\ (repairs'[n].whole \/ "text" \in Faults')
    <3>1. n \in DOMAIN repairs
      BY DEF OwnRepairs
    <3>2. CASE n = i
      BY <1>2, <1>4, <2>3, <3>2
    <3>3. CASE n # i
      <4>1. repairs[n].whole \/ "text" \in Faults
        BY <3>3 DEF RepairsAre, i
      <4> QED BY <1>2, <1>4, <2>3, <3>1, <3>3, <4>1 DEF Faults
    <3> QED BY <3>2, <3>3
  <2> QED BY <1>2, <1>3, <1>4, <2>4, <2>5 DEF RepairsAre
<1> QED BY <1>2, <1>5, <1>6

\* A step that touches neither the repairs nor what is to be written.
LEMMA RepairsKept ==
    ASSUME NEW count, RepairsAre(count), UNCHANGED <<repairs, runNumber, output, setting>>,
           pc # "repair", pc' # "repair",
           pc' \in {"manifest", "done"} \/ manifest'.run = runNumber => count = Len(output)
    PROVE  RepairsAre(count)'
<1>1. OwnRepairs' = OwnRepairs /\ Faults' = Faults
  BY DEF OwnRepairs, Faults
<1> QED BY <1>1 DEF RepairsAre

LEMMA RepairsStep ==
    ASSUME TypeOK, OutputIsTheAnswer, RepairsAreNumbered, Next
    PROVE  RepairsAreNumbered'
<1> DEFINE Early == pc \in {"search", "sink", "drain"} \/ Writing
           Late == Emitting \/ manifest.run = runNumber
<1>0. /\ output \in Seq(Candidates) /\ Len(output) \in Nat
      /\ runNumber \in Nat /\ manifest.run \in 0 .. runNumber
      /\ \A n \in DOMAIN repairs : repairs[n].run \in 1 .. runNumber
  BY SeqIs DEF TypeOK
<1>1. /\ Early => OwnRepairs = {}
      /\ Late => \E count \in 0 .. Len(output) : RepairsAre(count)
      /\ pc = "manifest" => manifest.run = runNumber
      /\ manifest.run = runNumber => pc \in {"manifest", "done", "killed"}
  BY DEF RepairsAreNumbered, RepairsAre
<1>2. SUFFICES /\ Early' => OwnRepairs' = {}
               /\ Late' => \E count \in 0 .. Len(output') : RepairsAre(count)'
               /\ pc' = "manifest" => manifest'.run = runNumber'
               /\ manifest'.run = runNumber' => pc' \in {"manifest", "done", "killed"}
  BY DEF RepairsAreNumbered, RepairsAre
<1>3. CASE OpenRepair
  <2>1. /\ pc = "repairs" /\ pc' \in {"repair", "fatal"} /\ manifest' = manifest
        /\ runNumber' = runNumber
    BY <1>3 DEF OpenRepair, search
  <2>2. PICK count \in 0 .. Len(output) : RepairsAre(count)
    BY <1>1, <2>1 DEF Emitting
  <2>3. PICK next \in Nat : next = count + 1
    BY <1>0
  <2>4. pc' = "repair" => RepairsAre(next)' /\ next \in 0 .. Len(output')
    BY <1>3, <2>2, <2>3, RepairOpened
  <2> QED BY <1>1, <2>1, <2>4 DEF Writing, Emitting
<1>4. CASE WriteRepair
  <2>1. /\ pc = "repair" /\ pc' = "repairs" /\ manifest' = manifest /\ runNumber' = runNumber
    BY <1>4 DEF WriteRepair, search
  <2>2. PICK count \in 0 .. Len(output) : RepairsAre(count)
    BY <1>1, <2>1 DEF Emitting
  <2>3. RepairsAre(count)' /\ count \in 0 .. Len(output')
    BY <1>4, <2>2, RepairWritten
  <2> QED BY <1>1, <2>1, <2>3 DEF Writing
<1>5. CASE OpenManifest \/ WriteManifest
  <2>1. /\ pc \in {"repairs", "manifest"} /\ pc' \in {"manifest", "done"}
        /\ UNCHANGED <<repairs, runNumber, output, setting>>
        /\ pc' = "manifest" => manifest'.run = runNumber
        /\ pc = "repairs" => AllWritten
    BY <1>5 DEF OpenManifest, WriteManifest, search, tail
  <2>2. PICK count \in 0 .. Len(output) : RepairsAre(count)
    BY <1>1, <2>1 DEF Emitting
  <2>3. count = Len(output)
    <3>1. CASE pc = "repairs"
      BY <1>0, <2>1, <2>2, <3>1, CountIs DEF AllWritten, RepairsAre
    <3>2. CASE pc = "manifest"
      BY <2>2, <3>2 DEF RepairsAre
    <3> QED BY <2>1, <3>1, <3>2
  <2>4. RepairsAre(count)'
    BY <2>1, <2>2, <2>3, RepairsKept
  <2> QED BY <2>1, <2>4 DEF Writing
<1>6. CASE Drained
  <2>1. /\ pc = "drain" /\ pc' \in {"repairs", "fatal"}
        /\ UNCHANGED <<repairs, runNumber, manifest>>
    BY <1>6 DEF Drained, search, disk
  <2>2. OwnRepairs' = {} /\ manifest'.run # runNumber'
    BY <1>1, <2>1 DEF OwnRepairs
  <2>3. pc' = "repairs" => RepairsAre(0)'
    BY <2>2 DEF RepairsAre
  <2>4. Len(output') \in Nat
    BY ListsTyped, SeqIs
  <2>5. pc' = "repairs" => \E count \in 0 .. Len(output') : RepairsAre(count)'
    BY <2>3, <2>4
  <2> QED BY <2>1, <2>2, <2>5 DEF Writing, Emitting
<1>7. CASE StartAgain
  <2>1. runNumber' = runNumber + 1 /\ repairs' = repairs /\ manifest' = manifest /\ pc' = "search"
    BY <1>7 DEF StartAgain, disk
  <2>2. OwnRepairs' = {}
    BY <1>0, <2>1 DEF OwnRepairs, TypeOK
  <2> QED BY <1>0, <2>1, <2>2 DEF Emitting
<1>8. CASE Kill
  <2>1. /\ pc' = "killed" /\ UNCHANGED <<repairs, runNumber, output, setting, manifest>>
        /\ pc \in {"repair", "done"} => manifest.run # runNumber
    BY <1>1, <1>8 DEF Kill, Running, disk, search, tail
  <2>2. ASSUME manifest.run = runNumber
        PROVE  \E count \in 0 .. Len(output') : RepairsAre(count)'
    <3>1. PICK count \in 0 .. Len(output) : RepairsAre(count)
      BY <1>1, <2>2
    <3>2. RepairsAre(count)'
      BY <2>1, <2>2, <3>1, RepairsKept DEF RepairsAre
    <3> QED BY <2>1, <3>2
  <2> QED BY <2>1, <2>2 DEF Writing, Emitting
<1>9. CASE \/ Generation \/ Insert \/ OpenFile \/ OpenFails \/ WriteFile \/ WriteFails
           \/ AppendIndexRow \/ AppendFails \/ Sink \/ FinishSearch
  <2>1. /\ Early /\ UNCHANGED <<repairs, runNumber, manifest>>
        /\ pc' \notin {"repairs", "repair", "manifest", "done"}
        /\ pc \notin {"manifest", "done", "killed"}
    BY <1>9 DEF Generation, Insert, OpenFile, OpenFails, WriteFile, WriteFails,
                AppendIndexRow, AppendFails, Sink, FinishSearch, AfterDocument, AfterFailure,
                disk, search, Writing
  <2>2. OwnRepairs' = OwnRepairs
    BY <2>1 DEF OwnRepairs
  <2> QED BY <1>1, <2>1, <2>2 DEF Emitting
<1>10. CASE Merge \/ WriteListing
  <2>1. UNCHANGED <<pc, repairs, runNumber, manifest, output, setting>>
    BY <1>10 DEF Merge, WriteListing, disk, search, tail
  <2>2. OwnRepairs' = OwnRepairs /\ Faults' = Faults
    BY <2>1 DEF OwnRepairs, Faults
  <2>3. ASSUME NEW count, RepairsAre(count) PROVE RepairsAre(count)'
    BY <2>1, <2>2, <2>3 DEF RepairsAre
  <2> QED BY <1>1, <2>1, <2>2, <2>3 DEF Writing, Emitting
<1> QED BY <1>3, <1>4, <1>5, <1>6, <1>7, <1>8, <1>9, <1>10, StepIs

ManifestCounts ==
    /\ manifest.run = runNumber =>
         /\ manifest.n_repairs >= Len(output)
         /\ runNumber = 1 => manifest.n_repairs = Len(output)
    /\ pc = "done" /\ "manifest" \notin Faults =>
         manifest.run = runNumber /\ manifest.whole

\* The run's repairs, once there are as many as it has to write.
LEMMA ManifestIs ==
    ASSUME TypeOK, RepairsAreNumbered, ManifestCounts
    PROVE  ManifestComesLast
<1>1. SUFFICES ASSUME manifest.run = runNumber, NEW i \in Indices(output)
               PROVE  /\ i - 1 \in OwnRepairs
                      /\ repairs[i - 1].doc = output[i]
                      /\ repairs[i - 1].whole \/ "text" \in Faults
  BY DEF ManifestComesLast, ManifestCounts
<1>2. output \in Seq(Candidates) /\ Len(output) \in Nat
  BY SeqIs DEF TypeOK
<1>3. pc \in {"manifest", "done", "killed"}
  BY <1>1 DEF RepairsAreNumbered
<1>4. PICK count \in 0 .. Len(output) : RepairsAre(count)
  BY <1>1 DEF RepairsAreNumbered, RepairsAre
<1>5. /\ OwnRepairs = 0 .. Len(output) - 1
      /\ \A n \in OwnRepairs : /\ repairs[n].doc = output[n + 1]
                               /\ repairs[n].whole \/ "text" \in Faults
  BY <1>1, <1>3, <1>4 DEF RepairsAre
<1>6. i - 1 \in OwnRepairs /\ (i - 1) + 1 = i
  BY <1>2, <1>5 DEF Indices
<1> QED BY <1>5, <1>6

\* In a directory's first run every repair there is the run's own.
LEMMA ManifestStep ==
    ASSUME TypeOK, RepairsAreNumbered, ManifestCounts, Next
    PROVE  ManifestCounts'
<1>0. /\ output \in Seq(Candidates) /\ Len(output) \in Nat /\ runNumber \in Nat
      /\ manifest \in [run : 0 .. runNumber, n_repairs : Nat, whole : BOOLEAN]
  BY SeqIs DEF TypeOK
<1>1. CASE /\ OpenManifest /\ pc' = "manifest"
           /\ manifest' = [run |-> runNumber, n_repairs |-> Cardinality(DOMAIN repairs),
                           whole |-> FALSE]
  <2>1. /\ pc = "repairs" /\ AllWritten /\ runNumber' = runNumber /\ output' = output
    BY <1>1 DEF OpenManifest, search, tail
  <2>2. manifest'.n_repairs = Cardinality(DOMAIN repairs)
    BY <1>1
  <2>3. Cardinality(OwnRepairs) = Len(output)
    BY <2>1 DEF AllWritten
  <2>4. IsFiniteSet(DOMAIN repairs) /\ OwnRepairs \subseteq DOMAIN repairs
    BY DEF TypeOK, OwnRepairs
  <2>5. /\ Cardinality(OwnRepairs) <= Cardinality(DOMAIN repairs)
        /\ Cardinality(DOMAIN repairs) \in Nat
    BY <2>4, FS_Subset, FS_CardinalityType
  <2>6. ASSUME runNumber = 1 PROVE DOMAIN repairs = OwnRepairs
    <3>1. ASSUME NEW n \in DOMAIN repairs PROVE repairs[n].run = runNumber
      <4>1. repairs[n] \in [doc : Candidates, whole : BOOLEAN, run : 1 .. runNumber]
        BY DEF TypeOK
      <4> QED BY <2>6, <4>1
    <3> QED BY <3>1 DEF OwnRepairs
  <2>7. runNumber = 1 => Cardinality(DOMAIN repairs) = Len(output)
    BY <2>3, <2>6
  <2> QED BY <1>0, <1>1, <2>1, <2>2, <2>3, <2>5, <2>7 DEF ManifestCounts
<1>2. CASE OpenManifest /\ "manifest" \in Faults /\ pc' = "done" /\ manifest' = manifest
  <2>1. runNumber' = runNumber /\ output' = output /\ Faults' = Faults
    BY <1>2 DEF OpenManifest, search, tail, Faults
  <2> QED BY <1>2, <2>1 DEF ManifestCounts
<1>3. CASE WriteManifest
  <2>1. /\ runNumber' = runNumber /\ output' = output /\ Faults' = Faults
        /\ manifest.run = runNumber
    BY <1>3 DEF WriteManifest, search, tail, Faults, RepairsAreNumbered
  <2>2. /\ manifest'.run = manifest.run /\ manifest'.n_repairs = manifest.n_repairs
        /\ manifest'.whole \/ "manifest" \in Faults
    BY <1>0, <1>3 DEF WriteManifest
  <2> QED BY <2>1, <2>2 DEF ManifestCounts
<1>4. CASE StartAgain
  <2>1. runNumber' = runNumber + 1 /\ manifest' = manifest /\ pc' = "search"
    BY <1>4 DEF StartAgain, disk
  <2> QED BY <1>0, <2>1 DEF ManifestCounts
<1>5. CASE Drained
  <2>1. /\ pc = "drain" /\ pc' \in {"repairs", "fatal"}
        /\ UNCHANGED <<manifest, runNumber>>
    BY <1>5 DEF Drained, disk, search
  <2> QED BY <2>1 DEF RepairsAreNumbered, ManifestCounts
<1>6. CASE UNCHANGED <<manifest, runNumber, output, setting>> /\ (pc' = "done" => pc = "done")
  BY <1>6 DEF ManifestCounts, Faults
<1> QED
  BY <1>1, <1>2, <1>3, <1>4, <1>5, <1>6, StepIs
     DEF Generation, Insert, OpenFile, OpenFails, WriteFile, WriteFails, AppendIndexRow,
         AppendFails, Sink, FinishSearch, OpenRepair, WriteRepair, OpenManifest,
         Merge, WriteListing, Kill, disk, search, tail, AfterDocument, AfterFailure

\* What a finished run has written is its answer.
LEMMA NothingIsLost ==
    ASSUME TypeOK, OutputIsTheAnswer, RepairsAreNumbered
    PROVE  NoFoundRepairIsLost
<1>1. SUFFICES ASSUME pc = "done" PROVE NoFoundRepairIsLost
  BY DEF NoFoundRepairIsLost
<1>2. output \in Seq(Candidates) /\ Len(output) \in Nat
  BY SeqIs DEF TypeOK
<1>3. PICK count \in 0 .. Len(output) : RepairsAre(count)
  BY <1>1 DEF RepairsAreNumbered, RepairsAre, Emitting
<1>4. /\ OwnRepairs = 0 .. Len(output) - 1
      /\ \A n \in OwnRepairs : /\ repairs[n].doc = output[n + 1]
                               /\ repairs[n].whole \/ "text" \in Faults
  BY <1>1, <1>3 DEF RepairsAre
<1>5. ASSUME NEW s \in m_seen \cup Range(final)
      PROVE  \E n \in OwnRepairs : /\ <<repairs[n].doc, s>> \in Implies
                                   /\ repairs[n].whole \/ "text" \in Faults
  <2>1. PICK t \in Range(output) : <<t, s>> \in Implies
    BY <1>1 DEF OutputIsTheAnswer, Emitting
  <2>2. PICK i \in 1 .. Len(output) : t = output[i]
    BY <1>2, FromRange
  <2>3. i - 1 \in OwnRepairs /\ (i - 1) + 1 = i
    BY <1>2, <1>4
  <2>4. repairs[i - 1].doc = output[i]
    BY <1>4, <2>3
  <2> QED BY <1>4, <2>1, <2>2, <2>3, <2>4
<1>6. ASSUME NEW m \in OwnRepairs, NEW n \in OwnRepairs, m # n
      PROVE  <<repairs[m].doc, repairs[n].doc>> \notin Implies
  <2>1. m + 1 \in Indices(output) /\ n + 1 \in Indices(output) /\ m + 1 # n + 1
    BY <1>2, <1>4, <1>6 DEF Indices
  <2>2. <<output[m + 1], output[n + 1]>> \notin Implies
    BY <1>1, <2>1 DEF OutputIsTheAnswer, Emitting
  <2> QED BY <1>4, <2>2
<1> QED BY <1>5, <1>6 DEF NoFoundRepairIsLost

-----------------------------------------------------------------------------
(* The theorems *)

\* DirectoryIsReadable without what follows from the rest of it.
Inv ==
    /\ TypeOK /\ RowsStandAlone /\ ListingNamesWholeFiles /\ ManifestCounts
    /\ WriterIsPlaced /\ FilesAreNumbered /\ RowsAreNumbered /\ EntriesAreOffered
    /\ OfferedIsCovered /\ OutputIsTheAnswer /\ RepairsAreNumbered

LEMMA InvInit == Init => Inv
<1> SUFFICES ASSUME Init PROVE Inv
  OBVIOUS
<1>1. TypeOK
  BY TypeInit
<1>2. /\ pc = "search" /\ runNumber = 1 /\ generation = 0 /\ arriving = <<>>
      /\ m_specifications = <<>> /\ m_sequence = 0 /\ m_failed = FALSE
      /\ m_queue = <<>> /\ m_members = <<>> /\ final = <<>> /\ output = <<>>
      /\ index = <<>> /\ maximal_tsv = <<>> /\ manifest.run = 0
      /\ DOMAIN files = {} /\ DOMAIN repairs = {}
  BY DEF Init
<1>3. ListingNamesWholeFiles /\ RowsStandAlone
  BY <1>2 DEF ListingNamesWholeFiles, RowsStandAlone, Indices
<1>4. ManifestCounts
  BY <1>2 DEF ManifestCounts
<1>5. WriterIsPlaced
  BY <1>2 DEF WriterIsPlaced, Offering, Writing
<1>6. OwnFiles = {} /\ OwnRepairs = {} /\ OwnRows = {}
  BY <1>2 DEF OwnFiles, OwnRepairs, OwnRows, Indices
<1>7. FilesAreNumbered
  BY <1>2, <1>6 DEF FilesAreNumbered
<1>8. RowsAreNumbered
  <2>1. RowsFrom(0, 0) /\ RowsAre(0) /\ Len(index) = 0
    BY <1>2, <1>6 DEF RowsFrom, RowsAre
  <2> QED BY <2>1, RowsAreSplit
<1>9. Range(m_members) = {} /\ Range(m_queue) = {} /\ Range(Climb(final)) = {}
  BY <1>2 DEF Range, Climb, Indices
<1>10. EntriesAreOffered
  BY <1>2, <1>9 DEF EntriesAreOffered, Indices
<1>11. OfferedIsCovered
  <2>1. Offered = {}
    BY <1>2, <1>9 DEF Offered, Offering, Writing
  <2> QED BY <2>1 DEF OfferedIsCovered
<1>12. OutputIsTheAnswer
  BY <1>2 DEF OutputIsTheAnswer, Emitting, Offering, Writing
<1>13. RepairsAreNumbered
  BY <1>2, <1>6 DEF RepairsAreNumbered, Emitting, Writing
<1> QED
  BY <1>1, <1>3, <1>4, <1>5, <1>7, <1>8, <1>10, <1>11, <1>12, <1>13 DEF Inv

LEMMA InvStep == Inv /\ [Next]_vars => Inv'
<1> SUFFICES ASSUME Inv, [Next]_vars PROVE Inv'
  OBVIOUS
<1> USE DEF Inv
<1>1. CASE Next
  <2>1. TypeOK' /\ WriterIsPlaced' /\ FilesAreNumbered' /\ RowsAreNumbered'
    BY <1>1, TypeStep, WriterStep, FilesStep, RowsStep
  <2>2. EntriesAreOffered' /\ OfferedIsCovered' /\ OutputIsTheAnswer'
    BY <1>1, EntriesStep, CoveredStep, OutputStep
  <2>3. ListingNamesWholeFiles' /\ RepairsAreNumbered' /\ ManifestCounts'
    BY <1>1, ListingStep, RepairsStep, ManifestStep
  <2>4. RowsStandAlone'
    BY <1>1, StandStep
  <2> QED BY <2>1, <2>2, <2>3, <2>4
<1>2. CASE UNCHANGED vars
  <2>1. /\ UNCHANGED disk /\ UNCHANGED pc /\ UNCHANGED search /\ UNCHANGED writer
        /\ UNCHANGED stream /\ UNCHANGED tail
    BY <1>2 DEF vars
  <2>2. /\ UNCHANGED <<files, index, maximal_tsv, repairs, manifest, pc>>
        /\ UNCHANGED <<setting, runNumber, generation, arriving, m_specifications>>
        /\ UNCHANGED <<m_sequence, m_created, m_failed>>
        /\ UNCHANGED <<m_queue, m_members, m_any_named, coordinator, m_error, m_listing_failed>>
        /\ UNCHANGED <<final, output>>
    BY <2>1 DEF disk, search, writer, stream, tail
  <2>3. TypeOK'
    BY <2>2 DEF TypeOK
  <2>4. OwnFiles' = OwnFiles /\ OwnRepairs' = OwnRepairs
        /\ OwnRows' = OwnRows /\ CurrentName' = CurrentName /\ Accumulating' = Accumulating
        /\ m_seen' = m_seen /\ Offering' = Offering /\ Writing' = Writing
        /\ Climb(final)' = Climb(final) /\ Emitting' = Emitting /\ Faults' = Faults
    BY <2>2 DEF OwnFiles, OwnRepairs, OwnRows, CurrentName, Name, Accumulating, m_seen,
                Offering, Writing, Emitting, Faults, Climb, Indices
  <2>5. WriterIsPlaced' /\ FilesAreNumbered'
    BY <2>2, <2>4 DEF WriterIsPlaced, FilesAreNumbered
  <2>6. RowsAreNumbered' /\ RowsStandAlone'
    BY <2>2, <2>4 DEF RowsAreNumbered, RowsStandAlone, Indices
  <2>7. EntriesAreOffered'
    BY <2>2, <2>4 DEF EntriesAreOffered, Indices
  <2>8. Offered' = Offered
    BY <2>2, <2>4 DEF Offered
  <2>9. OfferedIsCovered' /\ OutputIsTheAnswer'
    BY <2>2, <2>4, <2>8 DEF OfferedIsCovered, OutputIsTheAnswer, Indices
  <2>10. RepairsAreNumbered' /\ ManifestCounts'
    BY <2>2, <2>4 DEF RepairsAreNumbered, ManifestCounts
  <2>11. ListingNamesWholeFiles'
    BY <2>2 DEF ListingNamesWholeFiles, Indices
  <2> QED BY <2>3, <2>5, <2>6, <2>7, <2>9, <2>10, <2>11
<1> QED BY <1>1, <1>2

LEMMA InvReadable == Inv => DirectoryIsReadable
BY IndexIs, NothingIsLost, ManifestIs DEF Inv, DirectoryIsReadable

LEMMA InvAlways == Spec => []Inv
BY InvInit, InvStep, PTL DEF Spec

\* Whenever a campaign looks at the output directory, whatever failed and
\* wherever the run was killed, it is as DirectoryIsReadable says, for any
\* preorder of candidates, any populations, faults and number of runs. Where
\* the disk may refuse a repair's text it says nothing of what the repairs
\* hold, since the code does not look, and it never takes run.json for whole.
THEOREM DirectoryIsAlwaysReadable == Spec => []DirectoryIsReadable
BY InvAlways, InvReadable, PTL

\* "a SIGKILL at any moment leaves every file already written intact": no
\* step of the run, of either thread, touches a whole accumulated file again.
THEOREM WholeFilesAlwaysSurvive == Spec => AccumulatedFilesSurvive
<1>1. Inv /\ [Next]_vars =>
        [\A n \in DOMAIN files :
           files[n].whole /\ files[n].run = runNumber /\ runNumber' = runNumber
             => n \in DOMAIN files' /\ files'[n] = files[n]]_vars
  <2> SUFFICES ASSUME Inv, Next, NEW n \in DOMAIN files, files[n].whole,
                      files[n].run = runNumber, runNumber' = runNumber
               PROVE  n \in DOMAIN files' /\ files'[n] = files[n]
    OBVIOUS
  <2>1. n \in OwnFiles
    BY DEF OwnFiles
  <2> QED BY <2>1, FilesSurvive DEF Inv, OwnFiles
<1> QED BY <1>1, InvAlways, PTL DEF Spec, AccumulatedFilesSurvive
=============================================================================
