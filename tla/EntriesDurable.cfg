CONSTANTS
    a = a
    b = b
    c = c
    Value = {a, b, c}
    Width <- MCWidth
    MaxSize = 3
    MaxCrashes = 2
    CrashAppend = {"idle", "write", "ftruncate", "open", "memory"}
    CrashOverwrite = {"write", "memory"}
SPECIFICATION Spec
INVARIANTS
    OffsetsMatchData
PROPERTIES
    InsertIsAtomic
