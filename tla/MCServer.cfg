\* The cache: one check after another, a batch of two items, a grant and a ban that
\* may expire at the first tick, and a token a check may be pinned to.  The feed: one
\* client, two handlers, so that an old stream can outlive a reconnect; one slot; a
\* batch and a buffer of one frame; of the two facts it watches one.
SPECIFICATION ServerSpec
CONSTANTS
    Facts = {grant, ban}
    Grants = {grant}
    Bans = {ban}
    Expiries = {1}
    NoExpiry = NoExpiry
    None = None
    Tokens = {1, 2}
    Pins = {1}
    Checks = {k1}
    Writers = {q1}
    BatchSize = 2
    MaxNow = 1
    Watchers = {w1}
    Streams = {h1, h2}
    Scope = {grant}
    BatchLimit = 1
    MaxBuffered = 1
    MaxConnections = 1
INVARIANTS
    AcknowledgedWritesAreSeen
    PinnedAnswersCoverToken
    AllowOutlivesNoTuple
    WatchNoGap
    StreamsStayBounded
PROPERTIES
    EventArrives
