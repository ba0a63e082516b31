\* A deletion that the watch missed is not handled.
SPECIFICATION Spec
CONSTANTS
    Absent = Absent
    Namespaces = {ns}
    Names = {a}
    Specs = {s, t}
    Canonical = {s}
    Referring = {t}
    Workers = {w1, w2}
    MaxEdits = 2
    MaxDisturbances = 1
    Disturbances = {"relist"}
SYMMETRY WorkerSymmetry
INVARIANTS DeletedIsRemoved
\* At rest with every edit made, nothing need happen.
CHECK_DEADLOCK FALSE
