SPECIFICATION DoFairSpec
CONSTANTS
    Threads = {t1, t2, t3}
    NoThread = NoThread
    Reentrant = {t1}
PROPERTIES OnceSpecHolds ReentryDeadlocks DoReturns
CHECK_DEADLOCK FALSE
