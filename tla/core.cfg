\* Safety under every kind of disturbance.
SPECIFICATION Spec
CONSTANTS
    Absent = Absent
    Namespaces = {ns}
    Names = {a}
    Specs = {s, t}
    Canonical = {s}
    Referring = {t}
    Workers = {w1, w2}
    MaxEdits = 3
    MaxDisturbances = 2
    Disturbances = {"store", "read", "status", "get", "put", "delete", "relist", "crash"}
SYMMETRY WorkerSymmetry
INVARIANTS TypeOK OneWorkerPerKey NoUpdateLost RestingMatches
PROPERTIES PutsNeverGoBack RemovesOnlyDeleted ImplementsMirror
\* At rest with every edit made, nothing need happen.
CHECK_DEADLOCK FALSE
