SPECIFICATION Spec
CONSTANTS
    MaxRequests = 2
    MaxOptions = 2
    MaxQueues = 2
    MaxEngines = 2
    MaxMaps = 1
INVARIANT
    OptionsOutliveRequest
