CONSTANTS
    MaxBacklog = 2
    NumPages = 2
    MaxPage = 3
    MaxShown = 3
SPECIFICATION EmptyFairSpec
INVARIANTS
    PlaceholderIsHonest
    EmptyListSaysSo
    ScrollsUnlessPlaceholder
    SpinnersAreBacked
    RequestsAreAccounted
PROPERTIES
    OutOfStepOnlyByFailureOrOverlap
    SpinnersStop
    RefreshShowsSomething
