SPECIFICATION Spec
CONSTANTS
    prodA = prodA
    prodB = prodB
    consA = consA
    consB = consB
    ProducersA <- MCProducersA
    ProducersB <- MCProducersB
    Consumers <- MCConsumers
    THREADS_ITERS = 3
    BUFFER_SIZE = 4
    LimitA = 3
    LimitB = 1
SYMMETRY ConsumerSymmetry
CHECK_DEADLOCK FALSE
INVARIANTS
    RightsConserved
    SoundUntilOverpaid
