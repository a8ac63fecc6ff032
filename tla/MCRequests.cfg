\* Checks: four schemas, every store of their tuples, every depth limit up to ample.
\* Access: two requests at a time on two replicas.  The requests are bounded, so access
\* may come to rest.
SPECIFICATION RequestsSpec
CONSTANTS
    Schemas <- MCSchemas
    Tuples <- MCTuples
    MayExpire <- MCMayExpire
    Subjects <- MCSubjects
    None = None
    MaxNesting = 2
    Depths = {0, 1, 2, 11}
    Ample = 4
    MaxCandidates = 1
    admin = admin
    reader = reader
    minted = minted
    wrong = wrong
    proxy = proxy
    here = here
    there = there
    doc = doc
    group = group
    Absent = Absent
    Slots = {s1, s2}
    Replicas = {r1, r2}
    Namespaces = {doc, group}
    StaticAdmin = admin
    StaticRead = reader
    RawKeys = {minted}
    MaxOf <- Maxes
    Window = 2
    KeyExpiries = {1, Absent}
    ScopeSets <- SomeScopes
    Traffic <- Workloads
    MaxTime = 2
SYMMETRY Symmetry
INVARIANTS
    DecidedMeansMeant
    AnswersReverify
    DeeperOnlyDecidesMore
    AnyRowsSameAnswer
    UnreportedExpiryChangesNothing
    ListsMissNothingSilently
    RanWithAuthority
    LimitsHold
    RefusedForOwnTraffic
CHECK_DEADLOCK FALSE
