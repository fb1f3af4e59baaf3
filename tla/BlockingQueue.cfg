SPECIFICATION FairSpec
CONSTANTS
    Threads = {t1, t2, t3}
    MaxSize = 2
    MaxItems = 3
INVARIANTS
    ExactlyOnceInOrder
    NoLostWakeup
PROPERTY SleepersAreServed
