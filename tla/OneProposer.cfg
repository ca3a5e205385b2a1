CONSTANTS
    s1 = s1
    s2 = s2
    s3 = s3
    s4 = s4
    apply1 = apply1
    apply2 = apply2
    Server = {s1, s2, s3}
    Command = {apply1, apply2}
    Candidates = {s1}
    ClientServers = {s1}
    RestartServers = {}
    MaxTerm = 1
    MaxLsn = 3
    MaxEntries = 2
    MaxInFlight = 2
    MaxRestarts = 0
SPECIFICATION Spec
SYMMETRY PeersAlike
INVARIANTS
    FollowerHoldsSaved
    CommittedOnMajority
    StateMachineSafety
    LogMatching
    NothingThrown
\* The bounded environment may have nothing left to do.
CHECK_DEADLOCK FALSE
