\* Two writers, two tuples, two tokens: a write can commit before, between and
\* after the statements of the check.  The clock moves once.
SPECIFICATION CSpec
CONSTANTS
    Calls = {c1, c2}
    Facts = {f1, f2}
    Checks = {k1}
    NoExpiry = NoExpiry
    None = None
    MaxToken = 2
    MaxNow = 1
CONSTRAINT ClockOrCheck
SYMMETRY Symmetry
INVARIANTS
    NoTokenOvertaken
    AnswerIsRecorded
    PinnedSeesEverythingUpToToken
    ReadsOneState
PROPERTIES
    Atomic
    AcknowledgedTokenIsObserved
