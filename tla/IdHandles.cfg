SPECIFICATION Spec
CONSTANTS
    MaxId = 4
    Handles = {h1, h2, h3, h4, h5}
INVARIANTS HeldIdsUnique IdsAccountedFor ThrowsOnlyWhenExhausted
