SPECIFICATION SafeSpec
CONSTANTS
    MaxPauses = 1
CHECK_DEADLOCK FALSE
INVARIANTS CvOutlivesNotify
