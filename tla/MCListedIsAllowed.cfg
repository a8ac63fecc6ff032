\* Two folders that are each other's parent, and a limit that no walk reaches.
SPECIFICATION GraphSpec
CONSTANTS
    Schemas <- MCSchemas
    Tuples <- MCTuples
    MayExpire <- MCMayExpire
    Subjects <- MCSubjects
    None = None
    MaxNesting = 2
    Depths = {8}
    Ample = 4
    MaxCandidates = 1
INVARIANT ListedIsAllowed
