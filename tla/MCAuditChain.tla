---------------------------- MODULE MCAuditChain ----------------------------
\* Small instances of AuditChain: callers are interchangeable.
EXTENDS AuditChain, TLC

Symmetry == Permutations(Calls)

\* The clock moves only while there are at most two rows that nobody has
\* touched: checked_at is hashed beside the body, whose edits are the same.
ClockMovesEarly == now > 0 => seq <= 2 /\ edits + rewrites = 0
=============================================================================
