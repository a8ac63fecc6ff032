\* A grant, and a ban that expires at the first tick.
SPECIFICATION CacheSpec
CONSTANTS
    Facts = {grant, ban}
    Grants = {grant}
    Bans = {ban}
    Expiries = {1}
    NoExpiry = NoExpiry
    None = None
    Tokens = {1, 2}
    Pins = {1}
    Checks = {k1}
    Writers = {q1}
    BatchSize = 2
    MaxNow = 1
INVARIANTS
    DeniedStaysCorrect
