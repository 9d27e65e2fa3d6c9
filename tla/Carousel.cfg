SPECIFICATION FairSpec
CONSTANTS
    MaxPictures = 3
    Laps = 4
    MaxResets = 3
INVARIANTS
    ScrollsWithinItems
    AtMostOneTimer
PROPERTIES
    ImplementsRing
    EveryPictureShows
