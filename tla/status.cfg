\* What is at rest of resources that exist, and of deleted ones, where Connect
\* echoes no config as it was put.
SPECIFICATION DelSpec
CONSTANTS
    Absent = Absent
    Namespaces = {ns}
    Names = {a}
    Specs = {s, t}
    Canonical = {}
    Referring = {t}
    Workers = {w1, w2}
    MaxEdits = 3
    MaxDisturbances = 2
    Disturbances = {"store", "read", "get", "put", "delete", "relist", "crash"}
SYMMETRY Interchangeable
INVARIANTS StatusIsCurrent AppliedIsTrue DeletionsEndInRemoval
\* At rest with every edit made, nothing need happen.
CHECK_DEADLOCK FALSE
