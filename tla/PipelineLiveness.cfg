SPECIFICATION FairSpec
CONSTANTS
    Tracks = {t1, t2}
    Presets = {fast}
    Original = original
    Deletable = {}
    Workers = {w1}
    NoRow = NoRow
    PageSize = 1
    MaxFaults = 2
    RemoverLimit = 0
PROPERTIES
    EveryRowIsTaken
    UploadsAreAnswered
    AcceptedBecomesReady
