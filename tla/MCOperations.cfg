\* Tuples: three calls that start again and again, one token, one tick.  Schema:
\* two publishers; two publishes; two sources that lock the same namespaces in
\* opposite orders, and the source of a dry run.  Migrations: three runners with pools
\* of one and of two connections, of which one finds a migration less.
\* The publishes are bounded, so the schema may come to rest; a call that is stuck is
\* one that does not end.
SPECIFICATION OperationsSpec
CONSTANTS
    Calls = {c1, c2, c3}
    Facts = {f1}
    NoExpiry = NoExpiry
    None = None
    MaxToken = 1
    MaxNow = 1
    doc = doc
    group = group
    salted = salted
    shared = shared
    plain = plain
    Missing = Missing
    Publishers = {p1, p2}
    Writers = {}
    Checks = {}
    Namespaces = {doc, group, salted}
    HashOf <- Hashes
    Claims = {shared}
    ObjectNs <- ObjectsOf
    SubjectNs <- SubjectsOf
    Sources <- JointSources
    FuzzSources <- FuzzOnly
    MaxPublishes = 2
    m1 = m1
    m2 = m2
    m3 = m3
    r1 = r1
    r2 = r2
    r3 = r3
    Nobody = Nobody
    Runners = {r1, r2, r3}
    FilesOf <- Files
    PoolOf <- Pools
    PoolMax = 2
INVARIANTS
    MigrationsApplyOnceInOrder
PROPERTIES
    WaitsEnd
CHECK_DEADLOCK FALSE
