SPECIFICATION FairSpec
CONSTANTS
    prodA = prodA
    prodB = prodB
    consA = consA
    consB = consB
    ProducersA <- MCProducersA
    ProducersB <- MCProducersB
    Consumers <- MCConsumers
    THREADS_ITERS = 6
    BUFFER_SIZE = 9
    LimitA = 5
    LimitB = 3
CHECK_DEADLOCK FALSE
INVARIANTS
    TypeOK
    MutualExclusion
    WokenMeansCan
    NoLostWakeup
PROPERTIES
    EveryThreadSettles
    ImplementsBoundedBuffer
