SPECIFICATION Spec
CONSTANTS
    prodA = prodA
    prodB = prodB
    consA = consA
    consB = consB
    ProducersA <- MCProducersA
    ProducersB <- MCProducersB
    Consumers <- MCConsumers
    THREADS_ITERS = 4
    BUFFER_SIZE = 9
    LimitA = 5
    LimitB = 3
CHECK_DEADLOCK FALSE
PROPERTIES
    BWritesAboveLimit
