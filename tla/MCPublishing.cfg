\* Publishes: two publishers, a writer and a check; two publishes; two sources that
\* lock the same namespaces in opposite orders, and the source of a dry run.  The
\* fuzzer: two runs, of which the first is r1 and at most one uses the index.
SPECIFICATION PublishingSpec
CONSTANTS
    doc = doc
    group = group
    salted = salted
    shared = shared
    plain = plain
    Missing = Missing
    Publishers = {p1, p2}
    Writers = {w1}
    Checks = {k1}
    Namespaces = {doc, group, salted}
    HashOf <- Hashes
    Claims = {shared}
    ObjectNs <- ObjectsOf
    SubjectNs <- SubjectsOf
    Sources <- JointSources
    FuzzSources <- FuzzOnly
    MaxPublishes = 2
    s1 = s1
    s2 = s2
    lapsed = lapsed
    valid = valid
    ban = ban
    Void = Void
    Never = Never
    r1 = r1
    r2 = r2
    Runs = {r1, r2}
    Seeds = {s1, s2}
    FixtureOf <- Fixtures
    ExpiryKindOf <- ExpiryKinds
    Vetoes = {ban}
    Critical = {s2}
    Margin = 2
    MaxClock = 1
    MaxStarts = 2
    Reruns = FALSE
    Schemas <- MCSchemas
    Tuples <- MCTuples
    MayExpire = {}
    Subjects = {}
    ClaimFiles <- MCFiles
    Stored <- MCStored
    FreshIds <- MCFreshIds
    Bound = 1
    MaxCandidates = 8
    FuzzTuples = 2
    MaxDepth = 6
    None = None
    MaxNesting = 2
CONSTRAINT FirstRunFirst
ACTION_CONSTRAINT UsedIfClean
INVARIANTS
    PublishedIsHistory
    StoredTupleWasTaken
    AcknowledgedPublishIsSeen
    
    DryRunLeavesNoTrace
    ExitZeroIsProof
    ViolationIsReal
CHECK_DEADLOCK FALSE
