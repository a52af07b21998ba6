---------------------------- MODULE MCRunOutput ----------------------------
(* RunOutput for TLC. strong and same are one repair written twice, both    *)
(* imply weak; the climb rewrites strong as same.                           *)
EXTENDS RunOutput

CONSTANTS strong, same, weak

MCCandidates == {strong, same, weak}

MCImplies == {<<s, s>> : s \in MCCandidates}
    \cup {<<strong, same>>, <<same, strong>>, <<strong, weak>>, <<same, weak>>}

\* Every list of at most two different candidates.
MCPopulations ==
    {<<>>} \cup {<<s>> : s \in MCCandidates}
      \cup ({<<s, t>> : s \in MCCandidates, t \in MCCandidates}
              \ {<<s, s>> : s \in MCCandidates})

\* Fewer, for the runs that use the directory twice.
MCFewPopulations == {<<>>, <<weak>>, <<weak, strong>>}

\* A run whose answer may fail, a run whose other files may, and two runs.
MCSettings ==
    {[faults |-> {"merge", "repair", "text"}, runs |-> 1,
      populations |-> MCPopulations],
     [faults |-> {"open", "document", "index", "listing", "manifest"}, runs |-> 1,
      populations |-> MCPopulations],
     [faults |-> {"index", "repair", "text"}, runs |-> 2,
      populations |-> MCFewPopulations]}

MCClimbed == [s \in MCCandidates |-> IF s = strong THEN same ELSE s]
=============================================================================
