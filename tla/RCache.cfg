\* Kills between system calls and inside writes, and writes that fail and leave the
\* process running.
SPECIFICATION Spec
CONSTANTS
    a = a
    b = b
    c = c
    d = d
    Chunk = {a, b, c, d}
    Size <- MCSize
    None = None
    MinFlush = 2
    FlushOption = 1
    MaxOption = 9
    TornWrites = TRUE
    MaxFails = 1
    MaxParts = 4
INVARIANTS
    TypeOK
    ReadBack
    RefusedOrRight
    StoredOnce
    PartLimit
    FirstRight
PROPERTIES
    AlwaysReopens
    SealedParts
    Promise
    ReadStable
