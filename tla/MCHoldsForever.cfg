SPECIFICATION VerifierSpec
CONSTANTS
    Schemas <- MCSchemas
    Tuples <- MCTuples
    MayExpire = {}
    Subjects = {}
    ClaimFiles <- ExemptFiles
    Stored <- MCStored
    FreshIds <- MCFreshIds
    Bound = 1
    MaxCandidates = 8
    FuzzTuples = 2
    MaxDepth = 6
    None = None
    MaxNesting = 2
ACTION_CONSTRAINT UsedIfClean
CHECK_DEADLOCK FALSE
INVARIANT HoldsForever
