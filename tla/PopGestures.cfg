CONSTANTS
    Root = Root
    Screens = {s1, s2, bare}
    PrefersHidden = {Root, bare}
    RootIsPage = TRUE
    EarlyAttach = {TRUE, FALSE}
    MaxBlocks = 2
SYMMETRY Alike
SPECIFICATION Spec
INVARIANTS
    GuardFollowsDepth
    BarFollowsTop
