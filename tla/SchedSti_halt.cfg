CONSTANTS
    MAX_PROC_NUM = 4
    TERM_NUM = 2
    UNINIT = {0}
    RaisedSigs = {2}
    CatchSigs = {}
SPECIFICATION StiSpec
INVARIANT OwnAddressSpace
