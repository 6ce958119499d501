SPECIFICATION Spec
CONSTANTS
    MaxRetries = 2
INVARIANTS TypeOK HookingStarvesNoConnection PageFollowsConnection HookCallbackStays OnlyFailedStartsDisable
PROPERTIES ConnectionsSettle EndedRunsAreJoined
