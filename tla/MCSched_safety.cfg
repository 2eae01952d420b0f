CONSTANTS
    MAX_PROC_NUM = 4
    TERM_NUM = 2
    UNINIT = {0, 1, 2, 3, 4}
    RaisedSigs = {1, 2, 3}
    CatchSigs = {2}
SPECIFICATION Spec
INVARIANTS AddressSpace ForegroundSaved CallChains
PROPERTIES RootsStay OnlyUninitGoesWild
