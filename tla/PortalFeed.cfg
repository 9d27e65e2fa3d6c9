CONSTANTS
    MaxBacklog = 2
    MaxRefreshes = 3
SPECIFICATION FairSpec
INVARIANTS
    PageInvariant
PROPERTIES
    ImplementsPage
    HeaderSettles
