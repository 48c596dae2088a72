CONSTANTS
    MaxFaults = 1
    MaxLag = 9
SPECIFICATION Spec
INVARIANTS
    TypeOK
    CleanLine
    MangledHarmless
    Resynchronises
