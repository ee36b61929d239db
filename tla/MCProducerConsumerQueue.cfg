SPECIFICATION Spec
CONSTANTS
    main = main
    w1 = w1
    w2 = w2
    load1 = load1
    load2 = load2
    del1 = del1
    None = None
    Threads <- MCThreads
    Workers <- MCWorkers
    Items <- MCItems
    Release <- MCRelease
INVARIANTS
    NoSelfDeadlock
    NoLostWakeup
PROPERTY
    ImplementsFifoQueue
