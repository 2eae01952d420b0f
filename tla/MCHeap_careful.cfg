CONSTANTS
    MALLOC_HEAP_SIZE = 6
    MALLOC_OBJ_NUM = 5
    MALLOC_BLOCK_SIZE = 2
    SIZE_LIMIT = 8
    Sizes = {1, 2, 4, 5}
    Pointers = {a, b, c, d}
    NULL = NULL
SPECIFICATION CarefulSpec
SYMMETRY PointerSymmetry
INVARIANTS UnusedApart Disjoint Tiled Reclaimed
