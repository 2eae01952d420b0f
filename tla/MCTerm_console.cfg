CONSTANTS
    TERM_BUF_SIZE = 3
    Alnum = {a}
    Other = {sp}
    NL = NL
    CR = CR
    BS = BS
    Blank = sp
    Caret = sp
    LetterC = a
    DEF_ATTR = 7
    NUM_COLS = 3
    NUM_ROWS = 2
SPECIFICATION FairConsoleSpec
INVARIANTS TypeOK LineOnScreen
PROPERTIES NoEchoHides ImplementsEditor EachKey ReadEnds
