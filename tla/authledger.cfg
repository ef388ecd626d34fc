\* Two processes, either of which may die with the lock and start again, so
\* that both can meet the same stale lock; two attempts per acquisition.
SPECIFICATION Spec
CONSTANTS
    Proc = {p1, p2}
    Free = Free
    Orphan = Orphan
    Stale = Stale
    Attempts = 2
    MaxLines = 3
INVARIANTS
    MutexUntilStolen
    ChainUntilStolen
PROPERTIES
    OnlyBootstrapStarts
    CallsReturn
\* No call starts on a full file.
CHECK_DEADLOCK FALSE
