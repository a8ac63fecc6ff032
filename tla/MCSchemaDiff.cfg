SPECIFICATION EvolutionSpec
CONSTANTS
    Schemas <- MCSchemas
    Tuples <- MCTuples
    MayExpire = {}
    Subjects <- MCSubjects
    Files <- MCFiles
    None = None
    MaxNesting = 2
    Nothing = Nothing
ACTION_CONSTRAINT AnalysedFirst
CHECK_DEADLOCK FALSE
INVARIANT NoSilentRevocation
