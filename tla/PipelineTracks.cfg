SPECIFICATION Spec
CONSTANTS
    Tracks = {t1, t2}
    Presets = {fast}
    Original = original
    Deletable = {t1, t2}
    Workers = {w1, w2}
    NoRow = NoRow
    PageSize = 2
    MaxFaults = 1
    RemoverLimit = 1
SYMMETRY Symmetry
INVARIANTS
    OneWorker
    OneLiveRowPerTrack
PROPERTY
    ImplementsLifecycle
