CONSTANTS
    p1 = p1
    p2 = p2
    p3 = p3
    Peer = {p1, p2}
    MaxMessages = 3
SPECIFICATION Spec
SYMMETRY PeersAlike
INVARIANTS
    CancelledHandlersDoNothing
\* A process that was ended by an assertion stays down.
CHECK_DEADLOCK FALSE
