SPECIFICATION Spec
CONSTANTS
    NoId = NoId
    NoRow = NoRow
    NoJob = NoJob
    NoPreview = NoPreview
    NoURL = NoURL
    BaseURLs = {base1, base2}
    NumUsers = 2
    MaxIds = 5
    MaxEdits = 2
    MaxJobs = 2
    MaxFaults = 1
    MaxImports = 1
    MaxLosses = 1
CHECK_DEADLOCK FALSE
SYMMETRY Symmetry
INVARIANT OneResourceEach
INVARIANT CleanIsMirrored
INVARIANT EditsSurvive
INVARIANT PurgedIsGone
PROPERTY Mirrors
