SPECIFICATION Spec
CONSTANTS
    DebounceFrames = 3
    DebounceCap = 7
INVARIANTS
    Hysteresis
    Earned
    Prompt
