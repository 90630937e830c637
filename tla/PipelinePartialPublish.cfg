SPECIFICATION Spec
CONSTANTS
    Tracks = {t1}
    Presets = {fast}
    Original = original
    Deletable = {}
    Workers = {w1}
    NoRow = NoRow
    PageSize = 1
    MaxFaults = 1
    RemoverLimit = 0
INVARIANT
    PublishedPresetsWhole
