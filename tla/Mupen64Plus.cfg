SPECIFICATION Spec
CONSTANTS
    MaxPauses = 2
CHECK_DEADLOCK FALSE
INVARIANTS TypeOK AssertionsHold NothingFreedUnderTheThread RunsAnnounced
PROPERTIES JoinableIsFinal StopIsOver EndedRunsAreJoined
