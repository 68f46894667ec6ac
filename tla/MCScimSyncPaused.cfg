SPECIFICATION Spec
CONSTANTS
    NoId = NoId
    NoRow = NoRow
    NoJob = NoJob
    NoPreview = NoPreview
    NoURL = NoURL
    BaseURLs = {base1, base2}
    NumUsers = 1
    MaxIds = 3
    MaxEdits = 2
    MaxJobs = 1
    MaxFaults = 0
    MaxImports = 0
    MaxLosses = 0
CHECK_DEADLOCK FALSE
INVARIANT CleanIsAtService
