\* One resource, and one worker in each process.
SPECIFICATION RolloutSpec
CONSTANTS
    Workers = {w}
    Namespaces = {ns}
    Names = {n}
    Specs = {s1, s2}
    Absent = Absent
    Canonical = {s1, s2}
    Referring = {}
    Disturbances = {"relist", "crash"}
    MaxEdits = 3
    MaxDisturbances = 1
VIEW WithoutHistory
SYMMETRY ConfigSymmetry
INVARIANTS RolloutMatches RolloutRemoves
\* With every edit made and nothing on its way, both processes wait.
CHECK_DEADLOCK FALSE
