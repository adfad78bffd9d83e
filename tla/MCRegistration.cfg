SPECIFICATION Spec
CONSTANTS
    Directories <- MCDirectories
    Replacements <- MCReplacements
    Broken = Broken
    MaxReplacements = 1
    MaxOffers = 2
INVARIANTS
    EveryToolIsServed
    RootGateIsExact
CHECK_DEADLOCK FALSE
