CONSTANTS
    s1 = s1
    s2 = s2
    s3 = s3
    s4 = s4
    apply1 = apply1
    apply2 = apply2
    Server = {s1, s2, s3, s4}
    Command = {apply1}
    Candidates = {s1, s2}
    ClientServers = {}
    RestartServers = {}
    MaxTerm = 1
    MaxLsn = 2
    MaxEntries = 0
    MaxInFlight = 2
    MaxRestarts = 0
SPECIFICATION Spec
SYMMETRY PeersAlike
INVARIANTS
    ElectedByMajority
\* The bounded environment may have nothing left to do.
CHECK_DEADLOCK FALSE
