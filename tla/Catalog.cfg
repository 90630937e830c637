SPECIFICATION Spec
CHECK_DEADLOCK FALSE
CONSTANTS
    Requests = {r1, r2}
    Users = {"super", "ordinary"}
    Superusers = {"super"}
    Names = {"n1", "n2"}
    Founded <- TitleTrack
    MaxFounded = 2
    MaxRequests = 2
    MaxFaults = 1
SYMMETRY Symmetry
VIEW View
INVARIANTS
    TypeOK
    ObjectsAreOwned
PROPERTIES
    AlbumsAreLeftKnowingly
    OnlySuperusersChange
    AnswersAreTrue
    ReadsAreTrue
