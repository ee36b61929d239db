SPECIFICATION SceneSpec
CONSTANTS
    Sizes = {s1, s2}
    NoSize = NoSize
    Lenses = {l1, l2}
    Poses = {p1, p2}
    Elements = {e1, e2}
    None = None
    Screens <- MCScreens
    Virtual <- MCVirtual
    Ratios = {"Fit", "Expand"}
    Positions <- MCPositions
    Fingers <- MCFingers
    Transforms <- MCTransforms
    MaxIndex = 2
    OwnSizes <- MCOwnSizes
SYMMETRY ButtonsAlike
INVARIANTS
    NeverStale
    FitsScreen
    TouchedWhereDrawn
    TopmostTouched
    LaidOutWhenDrawn
