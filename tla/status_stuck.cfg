\* Configs that Connect echoes, and not one disturbance.
SPECIFICATION Spec
CONSTANTS
    Absent = Absent
    Namespaces = {ns}
    Names = {a}
    Specs = {s, t}
    Canonical = {s, t}
    Referring = {t}
    Workers = {w1, w2}
    MaxEdits = 3
    MaxDisturbances = 0
    Disturbances = {}
SYMMETRY WorkerSymmetry
INVARIANTS StatusIsCurrent
\* At rest with every edit made, nothing need happen.
CHECK_DEADLOCK FALSE
