--------------------------- MODULE MCLeopardIndex ---------------------------
\* A document and a group; the subject can be a member of either, or of the group
\* whose members are members of the document.
EXTENDS LeopardIndex, TLC

CONSTANTS doc, group, direct, nested, member

Nested == (doc :> {<<nested, member>>}) @@ (group :> {<<member>>})
Apart == (doc :> {<<direct>>}) @@ (group :> {<<member>>})
Symmetry == Permutations(Rebuilds)

\* Bound: at most two calls run at a time, and once a listing has ended no check
\* begins, since neither changes anything the other reads.
AtMostTwoCalls ==
    /\ Cardinality({b \in Rebuilds : rpc[b] # "idle"})
         + Cardinality({k \in Checks : cpc[k] # "idle"})
         + Cardinality({l \in Lists : lpc[l] \notin {"idle", "done"}}) <= 2
    /\ (\E k \in Checks : cpc[k] # "idle") => \A l \in Lists : lpc[l] = "idle"
=============================================================================
