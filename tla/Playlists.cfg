SPECIFICATION Spec
CHECK_DEADLOCK FALSE
CONSTANTS
    Requests = {r1, r2}
    NumUsers = 2
    Names = {n1, n2}
    Tracks = {t1}
    UploadedBy <- PrivateTracks
    Audiences = {{2}, {0, 1}, {1, 2}}
    MaxRequests = 3
    MaxFaults = 1
SYMMETRY Symmetry
VIEW View
INVARIANTS
    TypeOK
    ImagesAreShown
PROPERTIES
    OnlyPermittedChanges
    AnswersAreTrue
    ListedOnce
