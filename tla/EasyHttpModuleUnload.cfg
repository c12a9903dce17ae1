SPECIFICATION Spec
CONSTANTS
    MaxRequests = 1
    MaxOptions = 1
    MaxQueues = 2
    MaxEngines = 2
    MaxMaps = 1
INVARIANT
    NeverCrashes
