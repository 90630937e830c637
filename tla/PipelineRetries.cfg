SPECIFICATION StreamSpec
CONSTANTS
    Tracks = {t1}
    Presets = {"fast", "high"}
    Original = "original"
    Deletable = {t1}
    Workers = {w1}
    NoRow = NoRow
    PageSize = 1
    MaxFaults = 2
    RemoverLimit = 1
VIEW View
INVARIANTS
    TypeOK
    NamedPresetsStored
    QueuedOriginalStored
PROPERTIES
    StreamsFindTheirFile
    HeadersDescribeTheBody
