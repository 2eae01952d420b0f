CONSTANTS
    Physical <- MCPhysical
    MaxHeld = 3
    MaxBytes = 2
    Junk <- MCJunk
SPECIFICATION Spec
CHECK_DEADLOCK FALSE
INVARIANTS EarlyKeysOnly ServiceEnds NoStuckModifier AltSwitches
PROPERTY KeysAreRead
