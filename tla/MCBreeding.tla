------------------------------ MODULE MCBreeding ------------------------------
(* Breeding for TLC. Two guarantees owed for some ticks and a locked third;  *)
(* no implementation holds q for four ticks whatever came before. The order   *)
(* crossovers, the gated mutations, their steps back with the climb, and the *)
(* grafts are settings of the run.                                           *)
EXTENDS Breeding

MCModels == [f \in {"q", "true"} |-> IF f = "q" THEN {1} ELSE {1, 2}]

Owed(ctype, condition, response, timing) ==
    [condition |-> condition, response |-> response, timing |-> timing, ctype |-> ctype,
     scope |-> Unscoped]

Req(response, timing) == Owed("continual", "true", response, timing)

Locked(req) == [Slot(req) EXCEPT !.weakenable = FALSE]

MCOriginal ==
    [A |-> <<Locked(Req("true", Timed("eventually", 0)))>>,
     G |-> <<Slot(Req("q", Timed("for", 4))), Slot(Req("q", Timed("after", 1))),
             Locked(Req("true", Timed("always", 0)))>>]

MCCores == {{Req("q", Timed("for", 4))}}

MCAddable == {Req("q", Timed("eventually", 0))}

MCRate == {}

Ordering == {"timing", "response", "monotone", "add", "remove", "crossover", "order"}

Gating == {"timing", "response", "monotone", "gate", "targeted"}

Climbing == {"timing", "add", "remove", "gate", "bisect", "targeted", "climb"}

Grafting == {"crossover", "graft", "climb"}

MCSettings == {Ordering, Gating, Climbing, Grafting}

\* What takes two mutations and a crossover of both, and a long weakening.
MCMaxBred == [arms \in MCSettings |-> IF arms \in {Ordering, Climbing} THEN 3 ELSE 2]

\* For the counterexamples: a guarantee owed after no tick, and two guarantees
\* a tick apart.
ZeroTickOriginal ==
    [A |-> <<>>, G |-> <<Slot(Req("q", Timed("after", 0))), Slot(Req("q", Timed("within", 1)))>>]

AdjacentOriginal ==
    [A |-> <<>>, G |-> <<Slot(Req("q", Timed("within", 1))), Slot(Req("q", Timed("within", 2))),
                         Locked(Req("true", Timed("always", 0)))>>]

OnlyGrafting == {{"crossover", "graft"}}

OnlyRemoving == {{"timing", "remove"}}

FourBred == [arms \in OnlyGrafting \cup OnlyRemoving |-> 4]

-----------------------------------------------------------------------------
Candidates ==
    {population[i].spec : i \in DOMAIN population}
      \cup (IF slot = Idle THEN {} ELSE {slot.spec})
      \cup (IF climber = NoClimb THEN {} ELSE {climber.at})

TypeOK == \A spec \in Candidates : IsSpecification(spec)

\* A child that an order crossover calls proved carries the implication of its
\* operator as a whole specification, though the rules bound one slot at a
\* time, appended assumptions were paired by index, and whatever the child
\* took of either parent was never ordered again.
BoundsAreProved ==
    slot.phase = "crossed" /\ slot.proved =>
        LET first == population[slot.first].spec
            partner == population[slot.partner].spec
            kept == IF population[slot.first].realizable THEN first ELSE partner
        IN  CASE slot.how = "join" -> /\ spec_implies_by_rule(slot.spec, first)
                                      /\ spec_implies_by_rule(slot.spec, partner)
              [] slot.how = "meet" -> /\ spec_implies_by_rule(first, slot.spec)
                                      /\ spec_implies_by_rule(partner, slot.spec)
              [] slot.how = "relink" -> spec_implies_by_rule(slot.spec, kept)

\* Whatever is bred or climbed is a specification, and in it a locked
\* guarantee is neither rewritten nor removed.
LockedAreKept ==
    LET locked == {Original.G[i] : i \in {j \in DOMAIN Original.G : ~Original.G[j].weakenable}}
    IN  TypeOK /\ \A spec \in Candidates : locked \subseteq {spec.G[i] : i \in DOMAIN spec.G}

\* The steps back to the original that a parent may be mutated by, or their
\* midpoints where steps are bisected.
StepsBack(parent) == steps_back(parent.spec, [original |-> Original], setting)

\* "The directed arms move the way the gate allows by construction, so only a
\* free rewrite needs sorting": no mutation behind the gate is proved to move
\* the other way (genetic/mutation.cpp). A realizable parent's steps back, the
\* bisected ones too, are "each proved stronger by classify_move", and "no
\* strengthening goes past the original" (docs/dev/operators.md:172): each
\* follows from one whole step, and from the original where the parent does.
GatedMovesGoTheirWay ==
    slot.phase = "mutated" /\ slot.how = "mutated" /\ "gate" \in setting =>
        LET parent == population[slot.first]
            order == classify_move(parent.spec, slot.spec)
        IN  /\ order # IF parent.realizable THEN "weaker" ELSE "stronger"
            /\ parent.realizable /\ slot.spec \in StepsBack(parent) =>
                   /\ order = "stronger"
                   /\ \E step \in steps_towards(parent.spec, Original) :
                          spec_implies_by_rule(step.result, slot.spec)
                   /\ spec_implies_by_rule(Original, parent.spec) =>
                          spec_implies_by_rule(Original, slot.spec)

\* "The result implies @p start by rule, @p accepts holds of it": the steps
\* were each proved against the one before alone.
ClimbedIsSound ==
    climber # NoClimb => spec_implies_by_rule(climber.at, climber.start) /\ Accepted(climber.at)

\* The furthest entry a walk of one tick at a time reaches.
OneTickAtATime(current, step, visited) ==
    LET chain == timing_step_chain(current, step)
        Entry(i) == Unvisited(with_slot_timing(current, step.side, step.slot, chain[i]), visited)
        reached == {i \in DOMAIN chain : \A j \in 1..i : Entry(j) # {}}
    IN  IF chain = <<>> THEN Unvisited({step.result}, visited)
        ELSE IF reached = {} THEN {}
        ELSE Entry(CHOOSE i \in reached : \A j \in reached : j <= i)

NothingMerges(current, step) ==
    LET chain == timing_step_chain(current, step)
    IN  \A i \in DOMAIN chain : with_slot_timing(current, step.side, step.slot, chain[i]) # {}

\* "so the accepted entries are a prefix and the search finds the entry a walk
\* one tick at a time would stop at": where no entry of the chain would merge
\* two slots.
FurthestIsFurthest ==
    climber.moving =>
        \A step \in steps_towards(climber.at, Original) :
            NothingMerges(climber.at, step) =>
                furthest_accepted(climber.at, step, climber.visited)
                  = OneTickAtATime(climber.at, step, climber.visited)

\* What a climb reaches follows from where it started and passes the gate, and
\* each of its steps goes as far along its chain as a walk would
\* (genetic/climb.cpp).
ClimbIsSound == ClimbedIsSound /\ FurthestIsFurthest

\* "neither may reach them": a bound of no tick is read as a point by the
\* loader, and everything behind it expects one.
BoundsSpanATick ==
    \A spec \in Candidates : \A side \in {"A", "G"} : \A i \in DOMAIN spec[side] :
        ~is_zero_tick_bound(spec[side][i].req.timing)

\* "The slot stays so that every comparison against the original keeps pairing
\* the same requirements; erasing it would shift the rest": a locked slot of a
\* candidate is the one it descends from.
SlotsDescend ==
    \A spec \in Candidates : \A i \in DOMAIN Original.G :
        ~Original.G[i].weakenable => i \in DOMAIN spec.G /\ spec.G[i] = Original.G[i]

=============================================================================
