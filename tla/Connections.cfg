CONSTANTS
    Conn = {1, 2, 3}
    Width = 2
    Split = FALSE
    MaxMsg = 3
    MaxRestarts = 1
SPECIFICATION Spec
INVARIANTS
    TypeOK
    EndsOnlyWithinMessage
PROPERTIES
    DeliversMessages
    ClosedIsRemoved
\* Nothing has to be sent.
CHECK_DEADLOCK FALSE
