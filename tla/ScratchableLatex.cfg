CONSTANTS
    ItemModel = {a, b}
    NoData = NoData
    MaxCount = 5
SPECIFICATION GridSpec
INVARIANTS
    TapReportsWhatShows
    MissingOnlyForLines
