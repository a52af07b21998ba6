------------------------------- MODULE Breeding -------------------------------
(***************************************************************************)
(* How one slot of a generation is bred (breed_offspring and what it calls  *)
(* in src/include/genetic/pipeline.hpp): an order crossover or a graft with *)
(* a partner, a mutation that knows its parent's status, a simplification.  *)
(* When the search ends, each repair climbs back towards the original       *)
(* (src/src/genetic/climb.cpp).                                             *)
(*                                                                         *)
(* Which candidates are realizable is a parameter: Cores are the sets of    *)
(* guarantees no implementation meets together. Selection keeps any parents *)
(* at all, so that a child replaces any of them.                            *)
(*                                                                         *)
(* The children two parents may have are those of src/src/genetic/          *)
(* crossover.cpp and order_crossover.cpp: a part of one requirement grafted *)
(* into another, which may leave any formula, or a combination by the order *)
(* of specifications; src/src/genetic/simplify.cpp comes after.             *)
(***************************************************************************)
EXTENDS Mutation

CONSTANTS
    Original,       \* the specification the search starts from
    Cores,          \* the sets of guarantees that cannot be met together
    Settings,       \* the sets of arms a run may have, as in Rate, with
                    \* "crossover", "order" and "graft" for the crossovers and
                    \* "climb" for a run that climbs
    MaxBred         \* bound on the slots bred in each setting

ASSUME BreedingAssumption ==
    /\ IsSpecification(Original) /\ KeepsSlots(Original)
    /\ live_in(Original.G) # {}
    /\ \A arms \in Settings : MaxBred[arms] \in Nat
    /\ MaxTicks \in Nat

VARIABLES
    setting,        \* the arms of this run
    population,     \* the parents: two individuals
    n_bred,         \* the slots bred so far
    slot,           \* the slot being bred: [phase, first, partner, how, proved,
                    \* spec], its phase "idle" between slots
    climber         \* the climb: [at, visited, start, moving], or none

vars == <<setting, population, n_bred, slot, climber>>

NoClimb == [moving |-> FALSE, visited |-> {}]

-----------------------------------------------------------------------------
(* The graft *)

\* Two counted timings also exchange their tick counts, whatever the kinds.
crossover_timing(first, second) ==
    {first, second} \cup
      IF {first.kind, second.kind} \subseteq Quantified
        THEN {Timed(first.kind, second.n), Timed(second.kind, first.n)} ELSE {}

crossover_requirements(first, second) ==
    [condition : DOMAIN Models, response : DOMAIN Models,
     timing : crossover_timing(first.timing, second.timing),
     ctype : {first.ctype, second.ctype}, scope : {first.scope, second.scope}]

\* Mutant of crossover_slots: a locked slot is read and written too.
crossover_slotsLive(side) == live_in(side)

\* What was removed is neither target nor donor, nor is a locked slot.
crossover_slots(side) == Weakenable(side)

\* One slot of the first takes the merge with one of the second.
crossover_req_lists(first, second) ==
    LET targets == crossover_slots(first)
        donors == crossover_slots(second)
        Merged(target, donor) ==
            {[first EXCEPT ![target].req = req] :
                req \in crossover_requirements(first[target].req, second[donor].req)}
    IN  IF targets = {} \/ donors = {} THEN {first}
        ELSE UNION {Merged(target, donor) : target \in targets, donor \in donors}

SameShape(lhs, rhs) == Len(lhs.A) = Len(rhs.A) /\ Len(lhs.G) = Len(rhs.G)

\* The result as the constructor leaves it, or what it was made from where
\* the constructor merged slots.
Reshaped(result, kept) ==
    LET constructed == Constructed(result.A, result.G)
    IN  IF SameShape(constructed, kept) THEN constructed ELSE kept

crossover_specifications(first, second) ==
    {Reshaped([A |-> A, G |-> G], first) :
        A \in crossover_req_lists(first.A, second.A), G \in crossover_req_lists(first.G, second.G)}

-----------------------------------------------------------------------------
(* The order crossover: the children, each with whether its bound is proved *)

\* Either parent's slot where the rules found no bound.
fill_unproved(slots, lhs, rhs) ==
    LET Filled(at) == IF slots[at] # {} THEN slots[at]
                      ELSE {side[at] : side \in {s \in {lhs, rhs} : at \in DOMAIN s}}
    IN  {filled \in [DOMAIN slots -> UNION {Filled(at) : at \in DOMAIN slots}] :
            \A at \in DOMAIN slots : filled[at] \in Filled(at)}

\* Mutant of bound_crossover: a filled bound counts as proved.
bound_crossoverAlways(bound, lhs, rhs) ==
    LET Assembled(A, G) == assemble([bound EXCEPT !.A = [i \in DOMAIN A |-> {A[i]}],
                                                  !.G = [i \in DOMAIN G |-> {G[i]}]])
        children == UNION {Assembled(A, G) : A \in fill_unproved(bound.A, lhs.A, rhs.A),
                                             G \in fill_unproved(bound.G, lhs.G, rhs.G)}
    IN  {[child |-> child, proved |-> TRUE] : child \in children}

bound_crossover(bound, lhs, rhs) ==
    LET Assembled(A, G) == assemble([bound EXCEPT !.A = [i \in DOMAIN A |-> {A[i]}],
                                                  !.G = [i \in DOMAIN G |-> {G[i]}]])
        children == UNION {Assembled(A, G) : A \in fill_unproved(bound.A, lhs.A, rhs.A),
                                             G \in fill_unproved(bound.G, lhs.G, rhs.G)}
    IN  {[child |-> child, proved |-> is_complete(bound)] : child \in children}

strictly_implies(lhs, rhs) == requirement_implies(lhs, rhs) /\ ~requirement_implies(rhs, lhs)

stronger_guarantee(base, donor) ==
    /\ base # donor /\ ~donor.removed
    /\ base.removed \/ strictly_implies(donor.req, base.req)

stronger_assumption(base, donor) ==
    /\ base # donor /\ ~base.removed
    /\ donor.removed \/ strictly_implies(base.req, donor.req)

\* The slots in which the unrealizable parent is the stronger one.
relink_sites(realizable, unrealizable, n_original) ==
    {<<"A", at>> : at \in {i \in 1..n_original \cap Paired(realizable.A, unrealizable.A) :
                               stronger_assumption(realizable.A[i], unrealizable.A[i])}}
      \cup {<<"G", at>> : at \in {i \in Paired(realizable.G, unrealizable.G) :
                                 stronger_guarantee(realizable.G[i], unrealizable.G[i])}}

\* Slots are assigned in place: nothing is merged, and equal slots may result.
relink_crossover(realizable, unrealizable, n_original) ==
    LET Side(side, adopted) ==
            [at \in DOMAIN realizable[side] |->
                IF <<side, at>> \in adopted THEN unrealizable[side][at] ELSE realizable[side][at]]
        adoptions == SUBSET relink_sites(realizable, unrealizable, n_original) \ {{}}
    IN  {[child |-> [A |-> Side("A", adopted), G |-> Side("G", adopted)], proved |-> TRUE] :
            adopted \in adoptions}

\* A status of less than realizable decides nothing, so it is the checker's
\* proof that makes a parent unrealizable.
order_crossover_kind(first, second) ==
    CASE "unknown" \in {first, second} -> "none"
      [] first # second /\ "unknown" \notin {first, second} -> "relink"
      [] OTHER -> IF first = "realizable" THEN "join" ELSE "meet"

\* A child equal to a parent is dropped.
order_crossover(kind, first, second, first_realizable, n_original) ==
    LET outcomes ==
            IF kind = "relink"
              THEN IF first_realizable THEN relink_crossover(first, second, n_original)
                                       ELSE relink_crossover(second, first, n_original)
              ELSE LET bound == IF kind = "join" THEN "upper" ELSE "lower"
                   IN  bound_crossover(specification_bound(first, second, n_original, bound), first, second)
    IN  {outcome \in outcomes : outcome.child \notin {first, second}}

-----------------------------------------------------------------------------
(* Simplification *)

\* Equivalent formulas have one name, so that all a simplification changes is
\* "until false", which is spelt always.
simplify_stop_timing(timing) ==
    IF timing.kind = "until" /\ Models[timing.stop] = {} THEN Timed("always", 0) ELSE timing

\* Neither a locked slot nor a removed one is rewritten, and where two slots
\* would merge the offspring stays as it was.
simplify_offspring(spec) ==
    LET Simplified(side) ==
            [at \in DOMAIN side |->
                IF at \in Weakenable(side)
                  THEN [side[at] EXCEPT !.req.timing = simplify_stop_timing(@)] ELSE side[at]]
    IN  Reshaped([A |-> Simplified(spec.A), G |-> Simplified(spec.G)], spec)

Idle == [phase |-> "idle"]

-----------------------------------------------------------------------------
(* What the checker and the scores say of a candidate *)

Implied(req, spec) == \E i \in live_in(spec.G) : requirement_implies(spec.G[i].req, req)

IsRealizable(spec) == \A core \in Cores : \E req \in core : ~Implied(req, spec)

\* A status below the top proves nothing: a realizable candidate has one where
\* a query timed out, and an unrealizable one need not be decided.
Individuals(spec) ==
    [spec : {spec}, realizable : IF IsRealizable(spec) THEN BOOLEAN ELSE {FALSE},
     proved : IF IsRealizable(spec) THEN {FALSE} ELSE BOOLEAN]

parent_verdict(individual) ==
    CASE individual.realizable -> "realizable"
      [] ~individual.realizable /\ individual.proved -> "unrealizable"
      [] OTHER -> "unknown"

\* The walk refused some of an unrealizable parent's guarantees, or was not
\* asked; of a crossed offspring its parent's status says nothing.
parent_contexts(individual, crossed) ==
    [verdict : {CASE crossed -> "unknown"
                  [] ~crossed /\ individual.realizable -> "realizable"
                  [] OTHER -> "unrealizable"},
     refused : IF individual.realizable THEN {{}} ELSE SUBSET live_in(individual.spec.G),
     original : {Original}]

-----------------------------------------------------------------------------
(* Breeding a slot *)

Init ==
    /\ setting \in Settings
    /\ population \in [1..2 -> Individuals(Original)]
    /\ n_bred = 0 /\ slot = Idle /\ climber = NoClimb

BeginSlot(first) ==
    /\ slot = Idle /\ climber = NoClimb /\ n_bred < MaxBred[setting]
    /\ slot' = [phase |-> "bred", first |-> first, partner |-> first, how |-> "copied",
                proved |-> FALSE, spec |-> population[first].spec]
    /\ n_bred' = n_bred + 1
    /\ UNCHANGED <<setting, population, climber>>

\* The fewest assumptions any parent carries stand for the original's.
n_original_assumptions ==
    CHOOSE n \in {Len(population[i].spec.A) : i \in DOMAIN population} :
        \A i \in DOMAIN population : n <= Len(population[i].spec.A)

order_crossover_arm(first, partner) ==
    LET verdict == parent_verdict(population[first])
        kind == order_crossover_kind(verdict, parent_verdict(population[partner]))
        outcomes == order_crossover(kind, population[first].spec, population[partner].spec,
                                    verdict = "realizable", n_original_assumptions)
    IN  IF "order" \notin setting \/ kind = "none" THEN {}
        ELSE {[how |-> kind, proved |-> o.proved, spec |-> o.child] : o \in outcomes}

\* fretish_crossover: the graft where the order arm gives no child, or was not
\* drawn.
Cross(partner) ==
    /\ slot.phase = "bred" /\ "crossover" \in setting
    /\ LET ordered == order_crossover_arm(slot.first, partner)
           grafted == crossover_specifications(slot.spec, population[partner].spec)
       IN  \/ \E outcome \in ordered :
                slot' = [phase |-> "crossed", first |-> slot.first, partner |-> partner,
                         how |-> outcome.how, proved |-> outcome.proved, spec |-> outcome.spec]
           \/ /\ "graft" \in setting
              /\ \E spec \in grafted :
                   slot' = [slot EXCEPT !.phase = "crossed", !.partner = partner,
                                        !.how = "graft", !.spec = spec]
    /\ UNCHANGED <<setting, population, n_bred, climber>>

\* A crossed offspring is no longer what its parent's status is about.
Mutate ==
    /\ slot.phase \in {"bred", "crossed"}
    /\ \E context \in parent_contexts(population[slot.first], slot.phase = "crossed") :
         \E spec \in mutate_specification(slot.spec, context, setting) :
           slot' = [slot EXCEPT !.phase = "mutated", !.spec = spec,
                                !.how = IF slot.phase = "bred" THEN "mutated" ELSE "both"]
    /\ UNCHANGED <<setting, population, n_bred, climber>>

\* Simplified, scored, and kept in place of any parent or dropped.
EndSlot(place) ==
    /\ slot.phase \in {"bred", "crossed", "mutated"}
    /\ \E child \in Individuals(simplify_offspring(slot.spec)) :
         population' = [population EXCEPT ![place] = child]
    /\ slot' = Idle
    /\ UNCHANGED <<setting, n_bred, climber>>

-----------------------------------------------------------------------------
(* The climb of a repair, once the search has ended *)

\* What passes the output gate is a repair.
Accepted(spec) == live_in(spec.G) # {} => IsRealizable(spec)

Unvisited(results, visited) == {spec \in results \ visited : Accepted(spec)}

chain_before_destination(current, step) ==
    LET chain == timing_step_chain(current, step)
    IN  SubSeq(chain, 1, Len(chain) - 1)

\* Mutant of bisected: the last entry before the destination is never tried.
bisectedShort(current, step, visited) ==
    LET chain == chain_before_destination(current, step)
        Entry(i) == Unvisited(with_slot_timing(current, step.side, step.slot, chain[i]), visited)
        furthest[low \in 0..Len(chain), high \in 0..Len(chain)] ==
            LET mid == (low + high) \div 2
            IN  IF high - low > 1
                  THEN IF Entry(mid) # {} THEN furthest[mid, high] ELSE furthest[low, mid]
                  ELSE IF low = 0 THEN {} ELSE Entry(low)
    IN  furthest[0, Len(chain)]

\* The entry low is accepted, 0 standing for the current specification, and
\* the entry high is not.
bisected(current, step, visited) ==
    LET chain == chain_before_destination(current, step)
        Entry(i) == Unvisited(with_slot_timing(current, step.side, step.slot, chain[i]), visited)
        furthest[low \in 0..Len(chain), high \in 1..Len(chain) + 1] ==
            LET mid == (low + high) \div 2
            IN  IF high - low > 1
                  THEN IF Entry(mid) # {} THEN furthest[mid, high] ELSE furthest[low, mid]
                  ELSE IF low = 0 THEN {} ELSE Entry(low)
    IN  furthest[0, Len(chain) + 1]

\* Mutant of furthest_accepted: the destination is not put to the gate.
furthest_acceptedUngated(current, step, visited) == {step.result} \ visited

furthest_accepted(current, step, visited) ==
    IF Unvisited({step.result}, visited) # {} THEN {step.result} ELSE bisected(current, step, visited)

StartClimb(repair) ==
    /\ slot = Idle /\ climber = NoClimb /\ "climb" \in setting
    /\ population[repair].realizable
    /\ LET start == population[repair].spec
       IN  climber' = [at |-> start, visited |-> {start}, start |-> start, moving |-> TRUE]
    /\ population' = <<>> /\ n_bred' = MaxBred[setting]
    /\ UNCHANGED <<setting, slot>>

\* In any order of the steps: the slot order, by similarity, or a permutation.
NextOf(at, visited) ==
    UNION {furthest_accepted(at, step, visited) : step \in steps_towards(at, Original)}

ClimbOn ==
    /\ climber.moving
    /\ LET nexts == NextOf(climber.at, climber.visited)
       IN  IF nexts = {} THEN climber' = [climber EXCEPT !.moving = FALSE]
           ELSE \E next \in nexts :
                  climber' = [climber EXCEPT !.at = next, !.visited = @ \cup {next}]
    /\ UNCHANGED <<setting, population, n_bred, slot>>

Next ==
    \/ \E i \in DOMAIN population : BeginSlot(i) \/ Cross(i) \/ EndSlot(i) \/ StartClimb(i)
    \/ Mutate
    \/ ClimbOn

Spec == Init /\ [][Next]_vars
=============================================================================
