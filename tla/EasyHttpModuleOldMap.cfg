SPECIFICATION Spec
CONSTANTS
    MaxRequests = 2
    MaxOptions = 1
    MaxQueues = 2
    MaxEngines = 2
    MaxMaps = 2
INVARIANT
    CallbackOnItsMap
