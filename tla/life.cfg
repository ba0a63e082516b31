\* Start and shutdown in every order.
SPECIFICATION FairLifeSpec
CONSTANTS
    Workers = {w1, w2}
    MaxSignals = 3
    MaxItems = 3
INVARIANTS LifeTypeOK SyncedBeforeWork OneSignalForcesNothing
PROPERTIES SignalEnds SecondSignalEnds EventuallyServes QueueDrains
\* A process that has ended does nothing any more.
CHECK_DEADLOCK FALSE
