------------------------------- MODULE Fretish -------------------------------
(***************************************************************************)
(* How requirement_to_ltl of src/src/requirement.cpp lowers a requirement   *)
(* to linear temporal logic over ultimately periodic words. A formula is    *)
(* the set of the positions it holds at. The word grows letter by letter,   *)
(* so that an invariant is checked of every word up to MaxLength.           *)
(***************************************************************************)
EXTENDS Requirements

CONSTANTS Letter, MaxLength

ASSUME LassoAssumption == Letter # {} /\ MaxLength \in Nat \ {0}

VARIABLES
    word,   \* the letters, the last followed by the one at loop
    loop

vars == <<word, loop>>

Init == \E a \in Letter : word = <<a>> /\ loop = 1

Extend ==
    /\ Len(word) < MaxLength
    /\ \E a \in Letter : word' = Append(word, a)
    /\ loop' \in 1..Len(word) + 1

Spec == Init /\ [][Extend]_vars

Pos == DOMAIN word

Period == Len(word) - loop + 1

\* The position k steps after i.
After(i, k) == IF i + k <= Len(word) THEN i + k ELSE loop + ((i + k - loop) % Period)

\* As many steps as visit every position that is ever visited.
Steps == 0..Len(word)

Not(S) == Pos \ S

Next(S) == {i \in Pos : After(i, 1) \in S}

Until(S, T) ==
    {i \in Pos : \E k \in Steps :
        After(i, k) \in T /\ \A l \in 0..k - 1 : After(i, l) \in S}

Release(S, T) == Not(Until(Not(S), Not(T)))

Finally(S) == Until(Pos, S)

Globally(S) == Release({}, S)

WeakUntil(S, T) == Until(S, T) \cup Globally(S)

\* S at some, and at every, of the steps 0 to n.
Within(S, n) == {i \in Pos : \E k \in 0..n : After(i, k) \in S}

For(S, n) == {i \in Pos : \A k \in 0..n : After(i, k) \in S}

-----------------------------------------------------------------------------
(* The propositions *)

CONSTANT Requirement    \* the requirements the properties are about

ASSUME FretishAssumption ==
    /\ \A f \in DOMAIN Models : Models[f] \subseteq Letter
    /\ \A req \in Requirement : IsRequirement(req)

At(formula) == IF formula = NoFormula THEN {} ELSE {i \in Pos : word[i] \in Models[formula]}

-----------------------------------------------------------------------------
(* The lowering *)

\* The point before the mode rises, and the last at which it holds.
start_of_mode(m) == Not(m) \cap Next(m)

end_of_mode(m) == m \cap Next(Not(m))

\* Where no boundary ends the interval it is the formula that never holds,
\* which relaxes and tightens nothing.
scope_boundary(scope) ==
    CASE scope.kind \in {"global", "after", "only before"} -> {}
      [] scope.kind \in {"in", "only after"} -> end_of_mode(At(scope.mode))
      [] OTHER -> start_of_mode(At(scope.mode))

\* Mutant of within_body: the boundary's own point is still time enough.
within_bodyLate(r, n, boundary) == Within(r, n) \cup Within(boundary, n)

\* The boundary's disjunct spans n points, none when n is zero.
within_body(r, n, boundary) == Within(r, n) \cup Within(boundary, n - 1)

for_body(r, n, boundary) == For(r, n) \cup Release(boundary, r)

timing_body(timing, r, boundary) ==
    LET stop == At(timing.stop)
        n == timing.n
    IN  CASE timing.kind = "immediately" -> r
          [] timing.kind = "next" -> boundary \cup Next(r)
          [] timing.kind = "within" -> within_body(r, n, boundary)
          [] timing.kind = "for" -> for_body(r, n, boundary)
          [] timing.kind = "after" ->
               for_body(Not(r), n, boundary) \cap within_body(r, n + 1, boundary)
          [] timing.kind = "eventually" -> Until(Not(boundary), r)
          [] timing.kind = "always" -> Release(boundary, r)
          [] timing.kind = "until" -> WeakUntil(r, stop) \cup Release(boundary, r)
          [] timing.kind = "before" -> Release(r \cup boundary, Not(stop))

\* Mutant of DualKind: a timing with a stop is its own dual.
DualKindOfTicks(kind) ==
    CASE kind = "within" -> "for"
      [] kind = "for" -> "within"
      [] kind = "eventually" -> "always"
      [] kind = "always" -> "eventually"
      [] OTHER -> kind

\* FRET pairs until with before, which are no complements.
DualKind(kind) ==
    CASE kind = "within" -> "for"
      [] kind = "for" -> "within"
      [] kind = "eventually" -> "always"
      [] kind = "always" -> "eventually"
      [] kind = "until" -> "before"
      [] kind = "before" -> "until"
      [] OTHER -> kind

dual_timing(timing) == [timing EXCEPT !.kind = DualKind(@)]

negated_timing_body(timing, r, boundary) ==
    IF timing.kind = "after"
      THEN within_body(r, timing.n, boundary) \cup for_body(Not(r), timing.n + 1, boundary)
      ELSE timing_body(dual_timing(timing), Not(r), boundary)

\* The obligation, at the start of every interval of the scope.
scope_wrap(scope, inner) ==
    LET m == At(scope.mode)
        som == start_of_mode(m)
        eom == end_of_mode(m)
    IN  CASE scope.kind \in {"global", "only after"} -> inner
          [] scope.kind = "in" ->
               Globally(Not(som) \cup Next(inner)) \cap (Not(m) \cup inner)
          [] scope.kind \in {"except in", "only in"} ->
               Globally(Not(eom) \cup Next(inner)) \cap (m \cup inner)
          [] scope.kind = "before" -> inner \cup m
          [] scope.kind = "after" ->
               Until(Not(eom), eom \cap Next(inner)) \cup Globally(Not(eom))
          [] scope.kind = "only before" ->
               (m \cup Until(Not(som), som \cap Next(inner)) \cup Globally(Not(som)))
                 \cap (Not(m) \cup inner)

\* A continual condition at every point; a trigger at its rising edges, none
\* of them at the boundary, and at the interval's start. A condition that is
\* true has no edge.
Obligation(req, c, body, boundary) ==
    CASE req.ctype = "continual" -> Release(boundary, Not(c) \cup body)
      [] req.ctype = "trigger" /\ Models[req.condition] = Letter -> Not(c) \cup body
      [] OTHER ->
           Release(boundary, Not(Not(c) \cap Next(c) \cap Not(boundary))
                               \cup (Next(body) \cap Not(boundary)))
             \cap (Not(c) \cup body)

requirement_to_ltl(req) ==
    LET boundary == scope_boundary(req.scope)
        r == At(req.response)
        body == IF req.scope.kind \in OnlyScopes
                  THEN negated_timing_body(req.timing, r, boundary)
                  ELSE timing_body(req.timing, r, boundary)
    IN  scope_wrap(req.scope, Obligation(req, At(req.condition), body, boundary))

\* The requirement of the whole word.
Satisfied(req) == 1 \in requirement_to_ltl(req)

\* Those of S the word satisfies.
Holding(S) == UNION {IF Satisfied(req) THEN {req} ELSE {} : req \in S}
=============================================================================
