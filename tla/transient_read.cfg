\* Reads of references that do resolve fail twice.
SPECIFICATION Spec
CONSTANTS
    Absent = Absent
    Namespaces = {ns}
    Names = {a}
    Specs = {s, t}
    Canonical = {s}
    Referring = {t}
    Workers = {w1, w2}
    MaxEdits = 2
    MaxDisturbances = 2
    Disturbances = {"read"}
SYMMETRY WorkerSymmetry
INVARIANTS ResolvableIsApplied
\* At rest with every edit made, nothing need happen.
CHECK_DEADLOCK FALSE
