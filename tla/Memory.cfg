SPECIFICATION Spec
CONSTANTS
    NR_PROCS = 3
    NR_HOLES = 6
    Chunks <- TwoChunks
    SwapSize = 3
    Sizes = {1, 2, 3}
INVARIANTS
    TypeOK
    HolesApart
    ClicksAccounted
    SwapFlagsTrue
PROPERTIES
    CallsEnd
CHECK_DEADLOCK FALSE
