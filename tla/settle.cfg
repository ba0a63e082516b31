\* The operator comes to rest, with Connect as it should be.
SPECIFICATION FairSpec
CONSTANTS
    Absent = Absent
    Namespaces = {ns}
    Names = {a}
    Specs = {s, t}
    Canonical = {s}
    Referring = {t}
    Workers = {w1, w2}
    MaxEdits = 2
    MaxDisturbances = 2
    Disturbances = {"status", "get", "put", "delete", "relist", "crash"}
PROPERTIES EventuallyAtRest EventuallyMirrored
\* At rest with every edit made, nothing need happen.
CHECK_DEADLOCK FALSE
