--------------------------- MODULE MCPinnedCheck ---------------------------
\* One check beside two writers; callers and tuples are interchangeable.
EXTENDS PinnedCheck, TLC

Symmetry == Permutations(Calls) \cup Permutations(Facts)

\* The clock moves beside the writers, or the check is made beside writes that
\* expire at one instant if at all.
ClockOrCheck ==
    \/ \A k \in Checks : cpc[k] = "idle" /\ verdict[k] = "none"
    \/ /\ now = 0
       /\ \A f \in Facts : rows[f] \in {None, NoExpiry, 1}
       /\ \A c \in Calls : req[c] # None => req[c].expiresAt \in {NoExpiry, 1}
=============================================================================
