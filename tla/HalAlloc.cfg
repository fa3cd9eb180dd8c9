SPECIFICATION Spec
CONSTANTS
    HalSize = 71
    Header = 9
    Sizes = {1, 2, 3, 4, 9, 18}
    MaxBlocks = 5
INVARIANTS
    BlocksOutsideFree
    BlocksDisjoint
    BlocksAligned
    NoEarlyExhaustion
