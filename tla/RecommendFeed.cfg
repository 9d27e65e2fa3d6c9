SPECIFICATION FairSpec
CONSTANTS
    MaxBacklog = 1
    NumPages = 2
    NumHot = 1
    MaxPage = 1
    MaxShown = 3
INVARIANTS
    FeedInvariant
PROPERTIES
    PageLostOnlyByFailureOrReplacement
    HeaderSettles
