SPECIFICATION Spec
CONSTANTS
    f1 = f1
    f2 = f2
    Names <- TwoNames
    Sizes = {0, 3}
    NUM_BLOCKS = 3
    BLOCK_SIZE = 2
    NUM_FILES = 3
    NUM_OPENED_FILES = 2
CHECK_DEADLOCK FALSE
SYMMETRY NameSymmetry
CONSTRAINT OneOpenOnceDamaged
INVARIANTS
    TypeOK
    FilesPartitionBlocks
    ChainsEnd
PROPERTIES
    DurableBetweenCalls
    RepairIdempotent
