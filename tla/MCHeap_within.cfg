CONSTANTS
    MALLOC_HEAP_SIZE = 4
    MALLOC_OBJ_NUM = 4
    MALLOC_BLOCK_SIZE = 2
    SIZE_LIMIT = 8
    Sizes = {0, 1, 2, 4}
    Pointers = {a, b, c}
    NULL = NULL
SPECIFICATION Spec
SYMMETRY PointerSymmetry
INVARIANT WithinHeap
