----------------------------- MODULE RunOutput -----------------------------
(***************************************************************************)
(* What a repair run leaves in its output directory, step by step: the     *)
(* accumulated files and their index (src/src/genetic/accumulator.cpp),    *)
(* the listing of the maximal ones that the streaming filter rewrites      *)
(* beside them, the repairs (src/src/repair/evolution.cpp) and the         *)
(* manifest (src/src/repair/manifest.cpp). The process may be killed       *)
(* between any two steps, a file may fail to open or to take its text,     *)
(* which the code notices of the accumulated files and not of the repairs  *)
(* and the manifest, and a later run may be started on the same directory, *)
(* since main.cpp asks only that it exists.                                *)
(*                                                                         *)
(* A specification is a member of Candidates, and the solver's view of     *)
(* them is the preorder Implies. The search is whatever population each    *)
(* generation ends on. The sweep inside the filter is StreamingMaximal's;  *)
(* here a merge is one step.                                               *)
(***************************************************************************)
EXTENDS Naturals, FiniteSets, Sequences, SequencesExt

CONSTANTS
    Candidates,    \* the specifications that pass the output gate
    Implies,       \* <<s, t>>: s implies t
    Climbed,       \* what the output climb makes of each candidate
    Generations,   \* cfg.generations
    Settings       \* [faults, runs, populations]: what may fail, how often the
                   \* directory is used, and what a generation's gate-passing
                   \* candidates may be, in order. A repair fails to open
                   \* ("repair") or, unnoticed, to take its text ("text")

ASSUME RunOutputAssumption ==
    /\ Implies \subseteq Candidates \X Candidates
    /\ \A s \in Candidates : <<s, s>> \in Implies
    /\ \A s, t, u \in Candidates :
         <<s, t>> \in Implies /\ <<t, u>> \in Implies => <<s, u>> \in Implies
    /\ Climbed \in [Candidates -> Candidates]
    /\ \A s \in Candidates : <<Climbed[s], s>> \in Implies   \* climb.hpp, checked in Breeding
    /\ Generations \in Nat
    /\ \A s \in Settings :
         /\ s.faults \subseteq {"open", "document", "index", "listing",
                                     "merge", "repair", "text", "manifest"}
         /\ s.runs \in Nat
         /\ s.populations \subseteq Seq(Candidates)

VARIABLES
    setting,          \* the member of Settings this behaviour is about
    \* on disk; every entry carries the run that wrote it
    files,            \* accumulated/: name -> the document and whether it is whole
    index,            \* accumulated/index.tsv, its lines as they were appended; a torn
                      \* one is not ended, and what is appended next goes on in it
    maximal_tsv,      \* accumulated/maximal.tsv, the names it holds
    repairs,          \* repair_N: N -> the document it is to hold and whether it is whole
    manifest,         \* run.json: the count it is to hold and whether it is whole
    \* the process
    pc,
    runNumber,
    generation,
    arriving,         \* gate-passing candidates still to be offered to the accumulator
    m_specifications, \* RepairAccumulator, in first-seen order
    m_sequence,
    m_created,
    m_failed,
    m_queue,          \* the stream's queue
    m_members,
    m_any_named,
    coordinator,
    m_error,
    m_listing_failed,
    final,            \* what the last population's gate kept, with the accumulated merged in
    output            \* the repairs to write, in order

disk == <<files, index, maximal_tsv, repairs, manifest>>
writer == <<m_sequence, m_created, m_failed>>
stream == <<m_queue, m_members, m_any_named, coordinator, m_error, m_listing_failed>>
search == <<setting, runNumber, generation, arriving, m_specifications>>
tail == <<final, output>>
vars == <<disk, pc, search, writer, stream, tail>>

Faults == setting.faults
MaxRuns == setting.runs
Populations == setting.populations

-----------------------------------------------------------------------------
NoName == <<>>
Indices(s) == 1 .. Len(s)

\* A directory, with what a file has once it is opened for writing.
With(directory, name, content) ==
    [n \in DOMAIN directory \cup {name} |-> IF n = name THEN content ELSE directory[n]]

\* The members of S that list holds, each once, in the order of their first
\* occurrences there. There is one such sequence.
Firsts(S, list) ==
    LET found == S \cap Range(list)
    IN  {sub \in [1 .. Cardinality(found) -> found] :
            /\ Range(sub) = found
            /\ \A i, j \in DOMAIN sub : i < j =>
                 \E k \in DOMAIN list : list[k] = sub[i] /\ \A l \in 1 .. k : list[l] # sub[j]}

m_seen == Range(m_specifications)

\* The specification being accumulated is the one added last.
Accumulating == Last(m_specifications)

\* Mutant of Name: no sequence number.
NameByGeneration(gen, sequence) == <<gen, 0>>

\* gen<generation>_<sequence>.
Name(gen, sequence) == <<gen, sequence>>

CurrentName == Name(generation, m_sequence)

\* AccumulatedRepairWriter::active, for a run that has an output directory.
Active == ~m_failed

Init ==
    /\ setting \in Settings
    /\ files = [n \in {} |-> n]
    /\ index = <<>> /\ maximal_tsv = <<>>
    /\ repairs = [n \in {} |-> n]
    /\ manifest = [run |-> 0, n_repairs |-> 0, whole |-> FALSE]
    /\ pc = "search" /\ runNumber = 1
    /\ generation = 0 /\ arriving = <<>> /\ m_specifications = <<>>
    /\ m_sequence = 0 /\ m_created = FALSE /\ m_failed = FALSE
    /\ m_queue = <<>> /\ m_members = <<>> /\ m_any_named = FALSE /\ coordinator = "wait"
    /\ m_error = FALSE /\ m_listing_failed = FALSE
    /\ final = <<>> /\ output = <<>>

-----------------------------------------------------------------------------
(* run_generations and RepairAccumulator::insert.                          *)

\* One generation: the search breeds some population, and the gate's verdicts
\* on it are collected before any is offered to the accumulator.
Generation ==
    /\ pc = "search" /\ arriving = <<>> /\ generation < Generations
    /\ generation' = generation + 1
    /\ arriving' \in Populations
    /\ UNCHANGED <<disk, pc, setting, runNumber, m_specifications, writer, stream, tail>>

\* insert, as far as the call of the writer: nothing for one seen before.
Insert ==
    /\ pc = "search" /\ arriving # <<>>
    /\ arriving' = Tail(arriving)
    /\ IF Head(arriving) \in m_seen
         THEN UNCHANGED <<m_specifications, pc>>
         ELSE /\ m_specifications' = Append(m_specifications, Head(arriving))
              /\ pc' = IF Active THEN "open" ELSE "sink"
    /\ UNCHANGED <<disk, setting, runNumber, generation, writer, stream, tail>>

Warn == m_failed' = TRUE

\* Mutant of AfterFailure: a failed file operation is thrown to the driver.
AfterFailureThrows == "fatal"

\* write returns no name, and insert goes on to the sink.
AfterFailure == "sink"

\* write, as far as the open: the directory is made on the first call, and
\* opening truncates whatever an earlier run left under the name.
OpenFile ==
    /\ pc = "open"
    /\ m_created' = TRUE
    /\ files' = With(files, CurrentName,
                      [doc |-> Accumulating, whole |-> FALSE, run |-> runNumber])
    /\ pc' = "write"
    /\ UNCHANGED <<index, maximal_tsv, repairs, manifest, search, m_sequence, m_failed,
                   stream, tail>>

\* create_directory fails, or the file does not open.
OpenFails ==
    /\ pc = "open"
    /\ "open" \in Faults
    /\ \/ m_created' = m_created
       \/ m_created' = TRUE
    /\ Warn
    /\ pc' = AfterFailure
    /\ UNCHANGED <<disk, search, m_sequence, stream, tail>>

\* Mutant of AfterDocument: the stream is told before the index is.
AfterDocumentSkipsIndex == "count"

\* What write does once the document's file is closed.
AfterDocument == "index"

\* The document reaches the file and the file is closed.
WriteFile ==
    /\ pc = "write"
    /\ files' = [files EXCEPT ![CurrentName].whole = TRUE]
    /\ pc' = AfterDocument
    /\ UNCHANGED <<index, maximal_tsv, repairs, manifest, search, writer, stream, tail>>

WriteFails ==
    /\ pc = "write"
    /\ "document" \in Faults
    /\ Warn
    /\ pc' = AfterFailure
    /\ UNCHANGED <<disk, search, m_sequence, m_created, stream, tail>>

\* Mutant of IndexLines: the header goes to a new index only.
IndexLinesOfNewIndex ==
    (IF index = <<>> THEN <<[kind |-> "header", run |-> runNumber]>> ELSE <<>>)
      \o <<[kind |-> "row", run |-> runNumber, name |-> CurrentName]>>

\* A header goes before the run's first row.
IndexLines ==
    (IF m_sequence = 0 THEN <<[kind |-> "header", run |-> runNumber]>> ELSE <<>>)
      \o <<[kind |-> "row", run |-> runNumber, name |-> CurrentName]>>

TornLine == [kind |-> "torn", run |-> runNumber]

\* append_index_row: the lines leave the process together.
AppendIndexRow ==
    /\ pc = "index"
    /\ index' = index \o IndexLines
    /\ pc' = "count"
    /\ UNCHANGED <<files, maximal_tsv, repairs, manifest, search, writer, stream, tail>>

\* append_index_row cannot open the index, or write it or close it, whatever of
\* the lines had reached it by then: write goes on regardless.
AppendFails ==
    /\ pc = "index"
    /\ "index" \in Faults
    /\ \E reached \in 0 .. Len(IndexLines) :
         LET whole == index \o SubSeq(IndexLines, 1, reached)
         IN  \/ index' = whole
             \/ reached < Len(IndexLines) /\ index' = Append(whole, TornLine)
    /\ Warn
    /\ pc' = "count"
    /\ UNCHANGED <<files, maximal_tsv, repairs, manifest, search, m_sequence, m_created,
                   stream, tail>>

\* The sink, which is the stream's push: the file's name, or none.
Push(s, name) == m_queue' = Append(m_queue, [spec |-> s, name |-> name])

\* Mutant of NameWhereNothingWritten: the name the file would have had.
NameOfTheAttempt == CurrentName

NameWhereNothingWritten == NoName

\* The end of write, and the push of the file it returned.
Sink ==
    \/ /\ pc = "count"
       /\ m_sequence' = m_sequence + 1
       /\ Push(Accumulating, CurrentName)
       /\ pc' = "search"
       /\ UNCHANGED <<disk, search, m_created, m_failed, m_members, m_any_named, coordinator,
                      m_error, m_listing_failed, tail>>
    \/ /\ pc = "sink"
       /\ Push(Accumulating, NameWhereNothingWritten)
       /\ pc' = "search"
       /\ UNCHANGED <<disk, search, writer, m_members, m_any_named, coordinator, m_error,
                      m_listing_failed, tail>>

-----------------------------------------------------------------------------
(* The coordinator thread of the stream.                                   *)

Strictly(s, t) == <<s, t>> \in Implies /\ <<t, s>> \notin Implies

\* Entry i of a list stays when none of the list is strictly above it and it
\* is the first of its equivalence class.
Stays(list, i) ==
    \A j \in Indices(list) \ {i} :
        /\ ~Strictly(list[j].spec, list[i].spec)
        /\ j < i => <<list[j].spec, list[i].spec>> \notin Implies

MaximalEntries(list) == {list[i] : i \in {j \in Indices(list) : Stays(list, j)}}

IsNamed(entry) == entry.name # NoName

\* run takes the queue and merges it; after a failure it drains unread.
Merge ==
    /\ coordinator = "wait" /\ m_queue # <<>>
    /\ m_queue' = <<>>
    /\ IF m_error
         THEN UNCHANGED <<m_members, m_any_named, coordinator, m_error>>
         ELSE /\ m_any_named' = (m_any_named \/ \E entry \in Range(m_queue) : IsNamed(entry))
              /\ LET list == m_members \o m_queue
                 IN  \/ /\ m_members' \in Firsts(MaximalEntries(list), list)
                        /\ coordinator' = "list"
                        /\ UNCHANGED m_error
                     \/ /\ "merge" \in Faults
                        /\ m_error' = TRUE
                        /\ UNCHANGED <<m_members, coordinator>>
    /\ UNCHANGED <<disk, pc, search, writer, m_listing_failed, tail>>

NamedMembers == {entry \in Range(m_members) : IsNamed(entry)}

Lists == ~m_listing_failed /\ m_any_named

\* write_listing: a whole new listing renamed over the old one, or a warning
\* and no more listings. None is written before a named specification came.
WriteListing ==
    /\ coordinator = "list"
    /\ coordinator' = "wait"
    /\ \/ /\ Lists
          /\ \E named \in Firsts(NamedMembers, m_members) :
               maximal_tsv' = [i \in Indices(named) |->
                                 [name |-> named[i].name, run |-> runNumber]]
          /\ UNCHANGED m_listing_failed
       \/ /\ ~Lists
          /\ UNCHANGED <<maximal_tsv, m_listing_failed>>
       \/ /\ Lists /\ "listing" \in Faults
          /\ m_listing_failed' = TRUE
          /\ UNCHANGED maximal_tsv
    /\ UNCHANGED <<files, index, repairs, manifest, pc, search, writer, m_queue,
                   m_members, m_any_named, m_error, tail>>

-----------------------------------------------------------------------------
(* finish_search, write_specifications and end_run.                        *)

\* Mutant of MergeAccumulated: only the final population is screened.
MergeNothing(into, accumulated) == {into}

\* merge_accumulated: the accumulated specifications not already there.
MergeAccumulated(into, accumulated) ==
    {into \o added : added \in Firsts(Range(accumulated) \ Range(into), accumulated)}

\* The climb of every gated repair.
Climb(list) == [i \in Indices(list) |-> Climbed[list[i]]]

\* The stream's deduplicating push of a whole list, none with a file.
PushAll(list) ==
    \E new \in Firsts(Range(list) \ m_seen, list) :
        m_queue' = m_queue \o [i \in Indices(new) |-> [spec |-> new[i], name |-> NoName]]

\* finish_search up to the wait for the stream: the last population is gated
\* again, the accumulated join it, and the climbed repairs are pushed. What
\* the gate keeps now may differ from what it kept after the last generation:
\* a query that ran out of time then is asked again.
FinishSearch ==
    /\ pc = "search" /\ arriving = <<>>
    /\ \E population \in Populations :
         /\ final' \in MergeAccumulated(population, m_specifications)
         /\ PushAll(Climb(final'))
    /\ pc' = "drain"
    /\ UNCHANGED <<disk, search, writer, m_members, m_any_named, coordinator, m_error,
                   m_listing_failed, output>>

\* Mutant of Emitted: what a climb replaced is not looked for in the stream.
EmittedClimbedOnly(kept) == Firsts(kept, Climb(final))

\* drain_maximal_stream: what the stream kept, in the order of the climbed
\* repairs and then of the ones they replaced.
Emitted(kept) == Firsts(kept, Climb(final) \o final)

\* The stream has answered. Its failure is the run's: nothing is written.
Drained ==
    /\ pc = "drain" /\ m_queue = <<>> /\ coordinator = "wait"
    /\ IF m_error
         THEN pc' = "fatal" /\ UNCHANGED output
         ELSE /\ output' \in Emitted({m_members[i].spec : i \in Indices(m_members)})
              /\ pc' = "repairs"
    /\ UNCHANGED <<disk, search, writer, stream, final>>

\* The repair files this run has opened, the loop's index being their number.
OwnRepairs == {n \in DOMAIN repairs : repairs[n].run = runNumber}

\* write_specifications opens the next repair file, or throws.
OpenRepair ==
    /\ pc = "repairs" /\ Cardinality(OwnRepairs) < Len(output)
    /\ \/ LET n == Cardinality(OwnRepairs)
          IN  /\ repairs' = With(repairs, n,
                                  [doc |-> output[n + 1], whole |-> FALSE, run |-> runNumber])
              /\ pc' = "repair"
       \/ /\ "repair" \in Faults
          /\ pc' = "fatal"
          /\ UNCHANGED repairs
    /\ UNCHANGED <<files, index, maximal_tsv, manifest, search, writer, stream, tail>>

\* The text is sent and the file closed, with no look at the stream: a text
\* that reached the file in part or not at all changes nothing of the run.
WriteRepair ==
    /\ pc = "repair"
    /\ \/ repairs' = [repairs EXCEPT ![Cardinality(OwnRepairs) - 1].whole = TRUE]
       \/ "text" \in Faults /\ UNCHANGED repairs
    /\ pc' = "repairs"
    /\ UNCHANGED <<files, index, maximal_tsv, manifest, search, writer, stream, tail>>

\* Mutant of AllWritten: the manifest does not wait for the last repair.
AllButOneWritten == Cardinality(OwnRepairs) + 1 >= Len(output)

AllWritten == Cardinality(OwnRepairs) = Len(output)

\* end_run: the repair indices in the directory are counted and run.json is
\* opened, which empties the one an earlier run left. Where it does not open
\* the run ends all the same.
OpenManifest ==
    /\ pc = "repairs" /\ AllWritten
    /\ \/ /\ manifest' = [run |-> runNumber, n_repairs |-> Cardinality(DOMAIN repairs),
                            whole |-> FALSE]
          /\ pc' = "manifest"
       \/ /\ "manifest" \in Faults
          /\ pc' = "done"
          /\ UNCHANGED manifest
    /\ UNCHANGED <<files, index, maximal_tsv, repairs, search, writer, stream, tail>>

\* The manifest's text is sent, with no look at the stream either.
WriteManifest ==
    /\ pc = "manifest"
    /\ \/ manifest' = [manifest EXCEPT !.whole = TRUE]
       \/ "manifest" \in Faults /\ UNCHANGED manifest
    /\ pc' = "done"
    /\ UNCHANGED <<files, index, maximal_tsv, repairs, search, writer, stream, tail>>

-----------------------------------------------------------------------------
(* The world.                                                              *)

Running == pc \notin {"done", "fatal", "killed"}

\* SIGKILL, or a wall-clock cap outside the process.
Kill ==
    /\ Running
    /\ pc' = "killed"
    /\ UNCHANGED <<disk, search, writer, stream, tail>>

\* A later run with the same --output-dir: a new process, the old files.
StartAgain ==
    /\ ~Running /\ runNumber < MaxRuns
    /\ runNumber' = runNumber + 1
    /\ pc' = "search"
    /\ generation' = 0 /\ arriving' = <<>> /\ m_specifications' = <<>>
    /\ m_sequence' = 0 /\ m_created' = FALSE /\ m_failed' = FALSE
    /\ m_queue' = <<>> /\ m_members' = <<>> /\ m_any_named' = FALSE /\ coordinator' = "wait"
    /\ m_error' = FALSE /\ m_listing_failed' = FALSE
    /\ final' = <<>> /\ output' = <<>>
    /\ UNCHANGED <<disk, setting>>

\* Once the run is over, its coordinator is over too.
Driver ==
    \/ Generation \/ Insert \/ OpenFile \/ OpenFails \/ WriteFile \/ WriteFails
    \/ AppendIndexRow \/ AppendFails \/ Sink
    \/ FinishSearch \/ Drained \/ OpenRepair \/ WriteRepair
    \/ OpenManifest \/ WriteManifest

Coordinator == Running /\ (Merge \/ WriteListing)

Next == Driver \/ Coordinator \/ Kill \/ StartAgain

Fairness == WF_vars(Driver) /\ WF_vars(Coordinator)

Spec == Init /\ [][Next]_vars /\ Fairness

-----------------------------------------------------------------------------
OpenPc == {"search", "open", "write", "index", "count", "sink", "drain",
           "repairs", "repair", "manifest", "done", "fatal", "killed"}

\* The names the writer can make, and what may be in the queue.
FileName == (1 .. Generations) \X Nat
Entry == [spec : Candidates, name : FileName \cup {NoName}]

\* Every variable holds a value of its kind, and nothing on disk is from a
\* run that has not begun.
TypeOK ==
    /\ setting \in Settings
    /\ pc \in OpenPc /\ coordinator \in {"wait", "list"}
    /\ runNumber \in Nat \ {0} /\ generation \in 0 .. Generations
    /\ {m_created, m_failed, m_error, m_any_named, m_listing_failed} \subseteq BOOLEAN
    /\ m_sequence \in Nat
    /\ {arriving, m_specifications, final, output} \subseteq Seq(Candidates)
    /\ m_queue \in Seq(Entry) /\ m_members \in Seq(Entry)
    /\ DOMAIN files \subseteq FileName
    /\ \A n \in DOMAIN files :
         files[n] \in [doc : Candidates, whole : BOOLEAN, run : 1 .. runNumber]
    /\ index \in Seq([kind : {"header", "torn"}, run : 1 .. runNumber] \cup
                     [kind : {"row"}, run : 1 .. runNumber, name : FileName])
    /\ maximal_tsv \in Seq([name : FileName, run : 1 .. runNumber])
    /\ DOMAIN repairs \subseteq Nat /\ IsFiniteSet(DOMAIN repairs)
    /\ \A n \in DOMAIN repairs :
         repairs[n] \in [doc : Candidates, whole : BOOLEAN, run : 1 .. runNumber]
    /\ manifest \in [run : 0 .. runNumber, n_repairs : Nat, whole : BOOLEAN]

\* "a SIGKILL at any moment leaves every file already written intact"
\* (accumulator.hpp): once a file of the run is whole no later step of that
\* run, of either thread, nor its death, touches it.
AccumulatedFilesSurvive ==
    [][\A n \in DOMAIN files :
         files[n].whole /\ files[n].run = runNumber /\ runNumber' = runNumber
           => n \in DOMAIN files' /\ files'[n] = files[n]]_vars

\* The rows this run has put in the index, and how many of them are up to i.
OwnRows == {i \in Indices(index) : index[i].kind = "row" /\ index[i].run = runNumber}
RowNumber(i) == Cardinality({j \in OwnRows : j <= i})

\* The index a killed run leaves: its rows are whole files holding the first
\* specifications it accumulated, in that order, and unless the writer has
\* given up at most the one being written is missing.
IndexIsAPrefix ==
    /\ Cardinality(OwnRows) <= Len(m_specifications)
    /\ \A i \in OwnRows :
         /\ index[i].name \in DOMAIN files
         /\ files[index[i].name] =
              [doc |-> m_specifications[RowNumber(i)], whole |-> TRUE, run |-> runNumber]
    /\ ~m_failed => Cardinality(OwnRows) + 1 >= Len(m_specifications)

\* No row goes on in a line that was torn, by this run or an earlier one: the
\* writer gives up after a torn line, and the next run begins with a header,
\* which is what is lost in it.
RowsStandAlone ==
    \A i \in Indices(index) :
        index[i].kind = "row" => i > 1 /\ index[i - 1].kind # "torn"

\* Every name this run's maximal.tsv lists is a whole file of the run, and no
\* two listed files hold one repair implied by the other.
ListingNamesWholeFiles ==
    LET own == {i \in Indices(maximal_tsv) : maximal_tsv[i].run = runNumber}
        Doc(i) == files[maximal_tsv[i].name].doc
    IN  /\ \A i \in own :
             /\ maximal_tsv[i].name \in DOMAIN files
             /\ files[maximal_tsv[i].name].whole
             /\ files[maximal_tsv[i].name].run = runNumber
        /\ \A i, j \in own : i # j => <<Doc(i), Doc(j)>> \notin Implies

\* What a finished run has written: every repair the search passed over, in
\* any generation, is implied by one it opened a file for, whole unless its
\* text did not reach the disk, and no such repair by another (finish_search).
NoFoundRepairIsLost ==
    pc = "done" =>
        /\ \A s \in m_seen \cup Range(final) :
             \E n \in OwnRepairs : /\ <<repairs[n].doc, s>> \in Implies
                                   /\ repairs[n].whole \/ "text" \in Faults
        /\ \A m, n \in OwnRepairs :
             m # n => <<repairs[m].doc, repairs[n].doc>> \notin Implies

\* What run.json is a witness of. Once this run has opened it, every repair of
\* the run has its file, opened for its own document and sent its text. That
\* the text reached the disk run.json does not witness: write_specifications
\* does not look, so where a disk can refuse it a half repair may stand beside
\* run.json, counted. Nor is run.json whole because it is there: a kill or a
\* full disk after the open leaves it empty or cut short. Where it is whole its
\* count takes in the run's repairs, and in a directory used for the first time
\* nothing else; and a run that is not killed ends with it whole unless the
\* disk refused it.
ManifestComesLast ==
    /\ manifest.run = runNumber =>
         \A i \in Indices(output) :
            /\ i - 1 \in OwnRepairs
            /\ repairs[i - 1].doc = output[i]
            /\ repairs[i - 1].whole \/ "text" \in Faults
    /\ manifest.run = runNumber /\ manifest.whole =>
         /\ manifest.n_repairs >= Len(output)
         /\ runNumber = 1 => manifest.n_repairs = Len(output)
    /\ pc = "done" /\ "manifest" \notin Faults =>
         manifest.run = runNumber /\ manifest.whole

\* "Losing the accumulated files must never take the repair run with them"
\* (accumulator.cpp): a run whose merges do not fail and whose repair files
\* open ends by writing its answer unless it is killed, whatever else fails.
AccumulatorNeverStopsTheRun ==
    Running /\ {"merge", "repair"} \cap Faults = {} ~> pc \in {"done", "killed"}

-----------------------------------------------------------------------------
(* What the properties above follow from, step by step.                    *)

\* The last accumulated specification is on its way to a file, or to the stream.
Writing == pc \in {"open", "write", "index", "count"}
Offering == Writing \/ pc = "sink"

\* Until the writer gives up it numbers the files by the specifications, and
\* once it has given up it opens none.
WriterIsPlaced ==
    /\ Offering => m_specifications # <<>>
    /\ pc \in {"open", "write", "index"} => ~m_failed
    /\ pc = "sink" => m_failed
    /\ m_sequence + (IF Writing THEN 1 ELSE 0) <= Len(m_specifications)
    /\ ~m_failed /\ pc # "killed" =>
         Len(m_specifications) = m_sequence + (IF Writing THEN 1 ELSE 0)
    /\ generation = 0 => arriving = <<>> /\ ~Offering

OwnFiles == {n \in DOMAIN files : files[n].run = runNumber}

\* A file of the run holds the specification of its number, and the number the
\* next file will have is free.
FilesAreNumbered ==
    /\ \A n \in OwnFiles : /\ n[2] < Len(m_specifications) /\ n[2] <= m_sequence
                           /\ files[n].doc = m_specifications[n[2] + 1]
    /\ ~m_failed /\ pc \notin {"write", "index", "count", "killed"} =>
         \A n \in OwnFiles : n[2] < m_sequence
    /\ pc \in {"write", "index", "count"} =>
         /\ CurrentName \in OwnFiles
         /\ files[CurrentName].doc = Accumulating
         /\ files[CurrentName].whole <=> pc # "write"

\* The rows of the run are together, numbered as their files are, and until
\* the writer gives up they are the last of the index.
RowsAreNumbered ==
    \E last \in 0 .. Len(index) : \E before \in 0 .. last :
        /\ OwnRows = before + 1 .. last
        /\ ~m_failed => last = Len(index)
        /\ \A i \in OwnRows : /\ index[i].name \in OwnFiles
                              /\ index[i].name[2] = i - before - 1
                              /\ files[index[i].name].whole
        /\ last - before <= m_sequence + (IF pc \in {"count", "killed"} THEN 1 ELSE 0)
        /\ last - before <= Len(m_specifications)
        /\ ~m_failed => last - before + 1 >= Len(m_specifications)
        /\ ~m_failed /\ pc # "killed" =>
             last - before = m_sequence + (IF pc = "count" THEN 1 ELSE 0)

\* What the stream holds was offered to it, under the name of the whole file
\* that has it or under none, and no member implies another.
EntriesAreOffered ==
    /\ \A entry \in Range(m_members) \cup Range(m_queue) :
         /\ entry.spec \in m_seen \cup Range(Climb(final))
         /\ IsNamed(entry) => /\ entry.name \in OwnFiles
                              /\ files[entry.name].whole
                              /\ files[entry.name].doc = entry.spec
    /\ \A i, j \in Indices(m_members) : i # j =>
         <<m_members[i].spec, m_members[j].spec>> \notin Implies

\* What the stream has been offered so far.
Offered ==
    {m_specifications[i] : i \in 1 .. Len(m_specifications) - (IF Offering THEN 1 ELSE 0)}
      \cup Range(Climb(final))

\* A merge drops nothing that it does not keep something above of.
OfferedIsCovered ==
    ~m_error /\ pc # "killed" =>
        \A s \in Offered : \E entry \in Range(m_members) \cup Range(m_queue) :
            <<entry.spec, s>> \in Implies

\* The repairs are being written, or are.
Emitting == pc \in {"repairs", "repair", "manifest", "done"}

\* The repairs to be written answer for all that was found.
OutputIsTheAnswer ==
    /\ pc \in {"search", "drain"} \/ Offering => output = <<>>
    /\ pc \in {"search"} \/ Offering => final = <<>>
    /\ pc = "drain" \/ Emitting => m_seen \subseteq Range(final)
    /\ Emitting =>
         /\ \A s \in m_seen \cup Range(final) : \E t \in Range(output) : <<t, s>> \in Implies
         /\ \A i, j \in Indices(output) : i # j => <<output[i], output[j]>> \notin Implies

\* Repairs are written in order, each sent its text before the next is opened.
RepairsAreNumbered ==
    /\ pc \in {"search", "sink", "drain"} \/ Writing => OwnRepairs = {}
    /\ Emitting \/ manifest.run = runNumber =>
         \E count \in 0 .. Len(output) :
            /\ OwnRepairs = 0 .. count - 1
            /\ \A n \in OwnRepairs :
                 /\ repairs[n].doc = output[n + 1]
                 /\ \/ repairs[n].whole \/ "text" \in Faults
                    \/ pc = "repair" /\ n = count - 1
            /\ pc = "repair" => count > 0
            /\ pc \in {"manifest", "done"} \/ manifest.run = runNumber => count = Len(output)
    /\ pc = "manifest" => manifest.run = runNumber
    /\ manifest.run = runNumber => pc \in {"manifest", "done", "killed"}

\* What a campaign may rely on whenever it looks at the directory, the run
\* still going, killed anywhere or done.
DirectoryIsReadable ==
    /\ TypeOK /\ IndexIsAPrefix /\ RowsStandAlone /\ ListingNamesWholeFiles
    /\ NoFoundRepairIsLost /\ ManifestComesLast
    /\ WriterIsPlaced /\ FilesAreNumbered /\ RowsAreNumbered /\ EntriesAreOffered
    /\ OfferedIsCovered /\ OutputIsTheAnswer /\ RepairsAreNumbered

\* The accumulator only ever adds, to the directory and to the run.
AccumulatorIsHarmless == AccumulatedFilesSurvive /\ AccumulatorNeverStopsTheRun
=============================================================================
