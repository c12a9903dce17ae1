SPECIFICATION FairSpec
CONSTANTS
    MaxRequests = 2
    MaxOptions = 2
    MaxQueues = 2
    MaxEngines = 2
    MaxMaps = 2
INVARIANTS
    TypeOK
    EntriesMatch
    EveryEngineServed
    ForgottenSilent
    OldRequestsInterrupted
PROPERTY
    MapChangeEnds
