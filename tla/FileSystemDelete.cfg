SPECIFICATION Spec
CONSTANTS
    f1 = f1
    f2 = f2
    Names <- TwoNames
    Sizes = {0, 1, 3}
    NUM_BLOCKS = 4
    BLOCK_SIZE = 2
    NUM_FILES = 3
    NUM_OPENED_FILES = 2
CHECK_DEADLOCK FALSE
PROPERTIES
    DeleteRemovesNamed
