CONSTANTS
    Writer = {w1}
    Reader = {r1, r2}
    Client = {c1, c2}
    Asker = {c1}
    Key = {k1}
    MaxEntries = 2
SPECIFICATION Spec
INVARIANTS
    TypeOK
PROPERTIES
    QueryFresh
    ToldOfOwnCommand
    AppliesInOrder
    QueryAnswered
    ShutdownEnds
\* A server whose pools are joined has ended.
CHECK_DEADLOCK FALSE
