CONSTANTS
    Physical <- MCPhysical
    MaxHeld = 1
    MaxBytes = 1
    Junk <- MCJunk
SPECIFICATION TuxSpec
CHECK_DEADLOCK FALSE
PROPERTY TuxHeard
