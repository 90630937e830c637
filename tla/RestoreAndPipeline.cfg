SPECIFICATION RestoreSpec
CONSTANTS
    Tracks = {t1, t2}
    Presets = {fast}
    Original = original
    Deletable = {}
    Workers = {w1}
    NoRow = NoRow
    PageSize = 1
    MaxFaults = 0
    RemoverLimit = 0
INVARIANT
    RestoredTracksPlayThemselves
