\* Two rebuilds, a check and a listing, two tuples of which one is on both routes,
\* two tokens with a gap, one tick of the clock.
SPECIFICATION LeopardSpec
CONSTANTS
    doc = doc
    group = group
    direct = direct
    nested = nested
    member = member
    Facts = {nested, member}
    Expiries = {1}
    NoExpiry = NoExpiry
    None = None
    Tokens = {1, 3}
    Roots = {doc, group}
    Routes <- Nested
    MaxDepth = 1
    ListLimit = 1
    MaxNow = 1
    Rebuilds = {b1, b2}
    Checks = {k1}
    Lists = {l1}
CONSTRAINT AtMostTwoCalls
SYMMETRY Symmetry
INVARIANTS
    AnswersCoverPin
    ListMissesNothing
PROPERTIES
    WatermarkNeverGoesBack
