SPECIFICATION FairSpec
CONSTANTS
    init = init
    u1 = u1
    u2 = u2
    NIL = NIL
    Users <- ThreeUsers
    InitProc <- init
    SCHED_RATE = 1
    Quanta = {0, 1}
    MaxEvents = 2
    MaxForks = 2
INVARIANTS
    TypeOK
    QueueOfRunnable
    NoMonopoly
PROPERTIES
    GroupsTakeTurns
    EveryoneRuns
