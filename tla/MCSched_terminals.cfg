CONSTANTS
    MAX_PROC_NUM = 4
    TERM_NUM = 2
    UNINIT = {0, 1, 2, 3, 4}
    RaisedSigs = {2}
    CatchSigs = {2}
SPECIFICATION FairSpec
PROPERTIES ImplementsStacks EveryTerminalRuns CtrlCDelivered
