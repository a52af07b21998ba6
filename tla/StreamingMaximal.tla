-------------------------- MODULE StreamingMaximal --------------------------
(***************************************************************************)
(* StreamingMaximalFilter of src/src/filter/streaming_maximal.hpp: the     *)
(* implication filter run while the search is still finding repairs. The   *)
(* search pushes each repair; a coordinator thread takes whatever has      *)
(* queued, sweeps it together with the members it holds, keeps the         *)
(* survivors and rewrites the listing of their files. finish waits for the *)
(* last batch; a destructor that runs first abandons what is left.         *)
(*                                                                         *)
(* The coordinator is the only thread that waits on m_ready, and every     *)
(* change of what it waits for is followed by a notify, so the wait is the *)
(* guard of the step that follows it.                                      *)
(***************************************************************************)
EXTENDS Sweep

CONSTANTS
    MayThrow,    \* whether a solver call or a file operation may fail
    MayAbandon,  \* whether the search may be unwound past the filter
    NoListing    \* no maximal.tsv has been written yet

VARIABLES
    m_queue,           \* pushed, not yet taken by the coordinator
    m_closing,
    m_abandoned,
    coordinator,       \* where run() is
    batch,             \* what the coordinator took
    m_members,         \* the maximal set of everything merged
    m_error,
    m_any_named,
    m_listing_failed,
    maximal_tsv,       \* the listing on disk: the names it holds, in order
    named,             \* specifications pushed with a file name
    pushed,            \* history: the distinct specifications, in push order
    owner,             \* how far the thread that owns the filter has come
    outcome            \* what finish returned

ownerVars == <<m_closing, m_abandoned, named, pushed, owner, outcome>>
mergeVars == <<m_members, m_error, m_any_named>>
listVars == <<m_listing_failed, maximal_tsv>>
vars == <<sweepVars, m_queue, coordinator, batch, ownerVars, mergeVars, listVars>>

-----------------------------------------------------------------------------
\* m_seen is the set of everything pushed.
m_seen == Range(pushed)

\* The listing's lines for a list of members, of which there is one.
NamesOf(list) == InOrder(named \cap Range(list), list)

Init ==
    /\ SweepInit
    /\ m_queue = <<>> /\ batch = <<>> /\ m_members = <<>>
    /\ m_closing = FALSE /\ m_abandoned = FALSE
    /\ m_error = FALSE /\ m_any_named = FALSE
    /\ m_listing_failed = FALSE /\ maximal_tsv = NoListing
    /\ named = {} /\ pushed = <<>> /\ outcome = <<>>
    /\ coordinator = "wait"
    /\ owner = "open"

\* push. has_name is false once the accumulator has given up writing files.
Push(s, has_name) ==
    /\ owner = "open"
    /\ s \notin m_seen
    /\ m_queue' = Append(m_queue, s)
    /\ pushed' = Append(pushed, s)
    /\ named' = IF has_name THEN named \cup {s} ELSE named
    /\ UNCHANGED <<sweepVars, coordinator, batch, mergeVars, listVars,
                   m_closing, m_abandoned, owner, outcome>>

\* finish, as far as the join.
Finish ==
    /\ owner = "open"
    /\ m_closing' = TRUE
    /\ owner' = "finishing"
    /\ UNCHANGED <<sweepVars, m_queue, coordinator, batch, mergeVars, listVars,
                   m_abandoned, named, pushed, outcome>>

\* Mutant of Rethrows: the coordinator's failure stays with it.
RethrowsNothing == FALSE

\* Whether finish has an exception of the coordinator's to throw.
Rethrows == m_error

\* The rest of finish.
FinishJoined ==
    /\ owner = "finishing"
    /\ coordinator = "exited"
    /\ IF Rethrows
         THEN owner' = "threw" /\ UNCHANGED outcome
         ELSE owner' = "returned" /\ outcome' = m_members
    /\ UNCHANGED <<sweepVars, m_queue, coordinator, batch, mergeVars, listVars,
                   m_closing, m_abandoned, named, pushed>>

\* The destructor of a filter that was not finished: the flag first, the
\* mutex and m_closing after it.
Abandon ==
    /\ MayAbandon
    /\ owner = "open"
    /\ m_abandoned' = TRUE
    /\ owner' = "abandoning"
    /\ UNCHANGED <<sweepVars, m_queue, coordinator, batch, mergeVars, listVars,
                   m_closing, named, pushed, outcome>>

CloseAbandoned ==
    /\ owner = "abandoning"
    /\ m_closing' = TRUE
    /\ owner' = "joining"
    /\ UNCHANGED <<sweepVars, m_queue, coordinator, batch, mergeVars, listVars,
                   m_abandoned, named, pushed, outcome>>

AbandonJoined ==
    /\ owner = "joining"
    /\ coordinator = "exited"
    /\ owner' = "destroyed"
    /\ UNCHANGED <<sweepVars, m_queue, coordinator, batch, mergeVars, listVars,
                   m_closing, m_abandoned, named, pushed, outcome>>

-----------------------------------------------------------------------------
\* Mutant of Leaves: a coordinator that has failed waits for more to drop.
LeavesUnlessFailed == m_closing /\ ~m_error

\* When run returns, its queue being empty.
Leaves == m_closing

\* run: the wait ends with a queue to take, or with none and the filter closing.
TakeQueue ==
    /\ coordinator = "wait"
    /\ IF m_queue # <<>>
         THEN coordinator' = "took" /\ batch' = m_queue /\ m_queue' = <<>>
         ELSE Leaves /\ coordinator' = "exited" /\ UNCHANGED <<batch, m_queue>>
    /\ UNCHANGED <<sweepVars, ownerVars, mergeVars, listVars>>

\* run: what it does with the batch. After a failure it drops it. The keys and
\* the fingerprints, which ask solvers too, may throw before the sweep begins.
Dispatch ==
    /\ coordinator = "took"
    /\ \/ /\ m_abandoned
          /\ coordinator' = "exited"
          /\ UNCHANGED <<sweepVars, mergeVars>>
       \/ /\ ~m_abandoned /\ m_error
          /\ coordinator' = "wait"
          /\ UNCHANGED <<sweepVars, mergeVars>>
       \/ /\ ~m_abandoned /\ ~m_error
          /\ m_any_named' = (m_any_named \/ Range(batch) \cap named # {})
          /\ coordinator' = "merge"
          /\ LET list == m_members \o batch
             IN  \E printed \in {{}, Range(list)} :
                   BeginSweep(list, Len(m_members), printed)
          /\ UNCHANGED <<m_members, m_error>>
       \/ /\ ~m_abandoned /\ ~m_error
          /\ MayThrow
          /\ m_any_named' = (m_any_named \/ Range(batch) \cap named # {})
          /\ m_error' = TRUE
          /\ coordinator' = "wait"
          /\ UNCHANGED <<sweepVars, m_members>>
    /\ UNCHANGED <<m_queue, batch, ownerVars, listVars>>

\* The region's pool tasks. An abandoned filter's checks answer false without
\* asking; one that had asked already may still hear the truth.
Check ==
    /\ coordinator = "merge"
    /\ \/ \E p \in unstarted : StartCheck(p)
       \/ \E p \in checking :
            \/ FinishCheck(p, MayTimeOut \/ m_abandoned)
            \/ MayThrow /\ ThrowCheck(p)
    /\ UNCHANGED <<m_queue, coordinator, batch, ownerVars, mergeVars, listVars>>

\* The rest of merge: members first and then the batch, each in push order.
MergeReturns ==
    /\ coordinator = "merge"
    /\ SweepReturns
    /\ m_members' \in InOrder({specs[i] : i \in Survivors}, specs)
    /\ coordinator' = "list"
    /\ UNCHANGED <<sweepVars, m_queue, batch, ownerVars, m_error, m_any_named,
                   listVars>>

MergeThrows ==
    /\ coordinator = "merge"
    /\ SweepThrows
    /\ m_error' = TRUE
    /\ coordinator' = "wait"
    /\ UNCHANGED <<sweepVars, m_queue, batch, ownerVars, m_members, m_any_named,
                   listVars>>

\* Mutant of ListedNames: the batch is listed in place of the members.
ListedNamesOfBatch == NamesOf(batch)

\* What a listing holds.
ListedNames == NamesOf(m_members)

\* write_listing: a temporary file renamed over the last listing, so the one
\* on disk changes as a whole or not at all; a failure is warned of once and
\* stops the listing for good.
WriteListing ==
    /\ coordinator = "list"
    /\ coordinator' = "wait"
    /\ IF m_listing_failed \/ ~m_any_named
         THEN UNCHANGED listVars
         ELSE \/ maximal_tsv' \in ListedNames /\ UNCHANGED m_listing_failed
              \/ MayThrow /\ m_listing_failed' = TRUE /\ UNCHANGED maximal_tsv
    /\ UNCHANGED <<sweepVars, m_queue, batch, ownerVars, mergeVars>>

Coordinator ==
    TakeQueue \/ Dispatch \/ Check \/ MergeReturns \/ MergeThrows \/ WriteListing

Joins == FinishJoined \/ CloseAbandoned \/ AbandonJoined

Next ==
    \/ \E s \in Spec, has_name \in BOOLEAN : Push(s, has_name)
    \/ Finish \/ Abandon \/ Joins
    \/ Coordinator

StreamSpec == Init /\ [][Next]_vars

\* The coordinator thread and the pool's workers are scheduled, every solver
\* call ends (its timeout sees to that), and a thread inside finish or the
\* destructor goes on. Nothing makes the search push or finish.
FairStreamSpec == StreamSpec /\ WF_vars(Coordinator) /\ WF_vars(Joins)

-----------------------------------------------------------------------------
(* Properties *)

\* Pushed and not yet merged or dropped: the batch the coordinator works on and
\* what queues behind it.
Pending == (IF coordinator \in {"took", "merge"} THEN batch ELSE <<>>) \o m_queue

n_merged == Len(pushed) - Len(Pending)
FirstPushed(n) == [k \in 1 .. n |-> pushed[k]]

TypeOK ==
    /\ implication \in World
    /\ pushed \in Seq(Spec) /\ m_queue \in Seq(Spec) /\ batch \in Seq(Spec)
    /\ named \subseteq m_seen
    /\ coordinator \in {"wait", "took", "merge", "list", "exited"}
    /\ m_error \in BOOLEAN /\ m_abandoned \in BOOLEAN /\ m_closing \in BOOLEAN

\* No push is lost or merged out of order: what is pending is the end of what
\* was pushed.
NothingPendingIsLost ==
    /\ \A i, j \in DOMAIN pushed : pushed[i] = pushed[j] => i = j
    /\ n_merged >= 0
    /\ \A k \in DOMAIN Pending : Pending[k] = pushed[n_merged + k]

\* The coordinator merges only what has not failed, and leaves an empty queue to
\* which nothing more can come, unless it was abandoned.
CoordinatorIsPlaced ==
    /\ coordinator \in {"merge", "list"} => ~m_error
    /\ coordinator = "merge" /\ ~m_abandoned =>
         /\ specs = m_members \o batch
         /\ SweepInv
    /\ coordinator = "exited" /\ ~m_abandoned => m_queue = <<>> /\ m_closing
    /\ m_closing => owner # "open"
    /\ owner \in {"open", "finishing"} => ~m_abandoned

\* Merging batch by batch, against the maximal set so far only, loses nothing
\* and keeps nothing too much: the members are, in push order, the maximal
\* elements of all that was merged, although members dropped batches ago are
\* never asked again.
MembersAreTheMaximal ==
    ~m_error /\ ~m_abandoned =>
        m_members \in InOrder(MaximalOf(Range(FirstPushed(n_merged))), FirstPushed(n_merged))

\* The listing names, in push order, exactly the named maximal elements of
\* what had been merged when it was written: a prefix of what was pushed.
ListingIsMaximal ==
    ~m_abandoned /\ maximal_tsv # NoListing =>
        \E n \in 0 .. Len(pushed) :
            maximal_tsv \in InOrder(named \cap MaximalOf(Range(FirstPushed(n))), FirstPushed(n))

\* After every merge the members and the listing on disk are both the maximal
\* set of a known part of what was pushed; with the queue and the coordinator's
\* books this is inductive.
StreamIsMaximal ==
    /\ TypeOK /\ NothingPendingIsLost /\ CoordinatorIsPlaced
    /\ MembersAreTheMaximal /\ ListingIsMaximal

\* The filter as the search sees it.
Promise == INSTANCE MaximalSet WITH
    owner <- CASE owner \in {"finishing", "abandoning", "joining"} -> "closing"
               [] OTHER -> owner

\* finish and the destructor return, the coordinator having drained or
\* abandoned the queue and been joined, with the maximal set in push order, an
\* exception, or nothing.
ImplementsMaximalSet == Promise!SetSpec
=============================================================================
