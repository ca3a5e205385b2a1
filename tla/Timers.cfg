CONSTANTS
    p1 = p1
    p2 = p2
    p3 = p3
    Peer = {p1, p2, p3}
    MaxMessages = 5
SPECIFICATION FairSpec
INVARIANTS
    ElectionPending
    TimersFitRole
    PromptHandlersSound
PROPERTIES
    ElectionsGoOn
\* A process that was ended by an assertion stays down.
CHECK_DEADLOCK FALSE
