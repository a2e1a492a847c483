SPECIFICATION FairSpec
CONSTANTS
    w1 = w1
    w2 = w2
    plain = plain
    named = named
    broken = broken
    public = public
    internal = internal
    b1 = b1
    b2 = b2
    NoWorker = NoWorker
    Worker = {w1, w2}
    Url = {plain, named, broken}
    Sensitive = {named}
    Malformed = {broken}
    Public = {public}
    Internal = {internal}
    Body = {b1, b2}
    Envs <- MCEnvs
    Faults = {"commit", "attest", "put"}
    MaxRedirects = 1
    MaxCalls = 2
    MaxCrashes = 1
CHECK_DEADLOCK FALSE
INVARIANTS
    EgressInv
    AttemptPrecedesConnection
    OnlyGuardedConnections
    EndsAsRecorded
    UnconfirmedFollowsOk
    ProposalsAreTrue
PROPERTIES
    CallsEnd
