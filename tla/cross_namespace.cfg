\* The same name in two namespaces, and not one disturbance.
SPECIFICATION Spec
CONSTANTS
    Absent = Absent
    Namespaces = {n1, n2}
    Names = {a}
    Specs = {s, t}
    Canonical = {s}
    Referring = {t}
    Workers = {w1, w2}
    MaxEdits = 3
    MaxDisturbances = 0
    Disturbances = {}
SYMMETRY WorkerSymmetry
INVARIANTS DeletionSparesOthers
\* At rest with every edit made, nothing need happen.
CHECK_DEADLOCK FALSE
