\* Two callers, three rows, a legacy row or none, the operator commands, and
\* one edit, deletion, truncation or rewrite.
SPECIFICATION TamperSpec
CONSTANTS
    Calls = {c1, c2}
    Bodies = {allow, deny}
    None = None
    MaxSeq = 3
    MaxLegacy = 1
    MaxNow = 1
    MaxAnchors = 1
    MaxTampers = 1
CONSTRAINT ClockMovesEarly
SYMMETRY Symmetry
INVARIANTS
    NeverBroken
PROPERTIES
    
    AnchoredMeansAsRecorded
