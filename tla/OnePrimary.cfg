CONSTANTS
    s1 = s1
    s2 = s2
    s3 = s3
    s4 = s4
    apply1 = apply1
    apply2 = apply2
    Server = {s1, s2, s3}
    Command = {apply1}
    Candidates = {s1, s2, s3}
    ClientServers = {}
    RestartServers = {}
    MaxTerm = 1
    MaxLsn = 1
    MaxEntries = 0
    MaxInFlight = 3
    MaxRestarts = 0
SPECIFICATION Spec
SYMMETRY AllAlike
INVARIANTS
    OnePrimaryPerTerm
\* The bounded environment may have nothing left to do.
CHECK_DEADLOCK FALSE
