CONSTANTS
    BLOCK_SIZE = 2
    MAX_NAME_LENGTH = 2
    TASK_MAX_FILES = 4
    WORD = 16
    NUL = NUL
    RTC_INODE = 65
    RTC_POS = 4
    NL = NL
    DOT = DOT
    BUFSIZE = 3
    MaxText = 5
    MaxOut = 12
    Lengths = {0, 1, 3, 14}
    Images <- MCImages
    AnyImages <- MCAnyImages
    Names <- MCNames
    Args <- MCArgs
    ROWS = 2
    COLS = 4
    GOAL = 8
    MaxTile = 4
SPECIFICATION ProgramsSpec
CHECK_DEADLOCK FALSE
INVARIANTS Streams OpenByName PrintsAll GrepFindsLines DrawnIsPlayed MoveIsPush LostIsStuck ScoreIsEarned
PROPERTIES ProgramsEnd
