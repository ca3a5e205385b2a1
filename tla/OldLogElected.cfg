CONSTANTS
    s1 = s1
    s2 = s2
    s3 = s3
    s4 = s4
    apply1 = apply1
    apply2 = apply2
    Server = {s1, s2, s3}
    Command = {apply1}
    Candidates = {s1, s3}
    ClientServers = {s1}
    RestartServers = {}
    MaxTerm = 2
    MaxLsn = 3
    MaxEntries = 1
    MaxInFlight = 2
    MaxRestarts = 0
SPECIFICATION Spec
INVARIANTS
    PrimaryHasCommitted
\* The bounded environment may have nothing left to do.
CHECK_DEADLOCK FALSE
