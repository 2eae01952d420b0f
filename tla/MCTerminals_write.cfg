CONSTANTS
    TERM_NUM = 2
    NUM_COLS = 2
    NUM_ROWS = 2
    DEF_ATTR = 7
    Blank = sp
    NL = NL
    CR = CR
    BS = BS
    MaxWrites = 3
    Chunks <- MCChunks
SPECIFICATION Spec
INVARIANTS ShowsWhatWasWritten PlainText CursorOfDisplayed
