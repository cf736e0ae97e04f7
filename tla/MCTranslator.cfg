CONSTANTS
    PAGE_SHIFT = 2
    MaxPos = 12
SPECIFICATION Spec
INVARIANTS
    WalkTiles
