SPECIFICATION FairSpec
CONSTANTS
    Worker = {w1, w2}
    MaxRequests = 3
    kMaxTasksExecPerFrame = 2
    Method <- Mixed
    InvalidUrl = {3}
    Stalled = {1, 2}
INVARIANTS
    TypeOK
    InOnePlace
    ActiveTracked
    CalledOnce
    DestroyedClean
    FirstComeFirstServed
PROPERTIES
    ImplementsLifecycle
    CancelledBeforeDispatch
    CancelNotLost
    EverySentCompletes
    DestroyEnds
