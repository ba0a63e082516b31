\* The workers at the end of the process.
SPECIFICATION LifeSpec
CONSTANTS
    Workers = {w1, w2}
    MaxSignals = 2
    MaxItems = 2
SYMMETRY GoroutineSymmetry
INVARIANTS WorkersFinish
\* A process that has ended does nothing any more.
CHECK_DEADLOCK FALSE
