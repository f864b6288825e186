SPECIFICATION HSpec
CONSTANTS
 Base = 8
 Chunk = 6
 Limit = 28
 Sizes = {2, 3, 5, 9}
INVARIANTS Disjoint Tiles Coalesced
PROPERTY LiveBlocksStay
