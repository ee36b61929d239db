SPECIFICATION AssetSpec
CONSTANTS
    Options = {cull}
    OptionValues = {front}
    Uniforms = {color}
    Numbers <- MCNumbers
    Tuples <- MCTuples
    Textures = {paper}
    Unset = Unset
    MaxText = 6
    Root = 1
    Files <- MCFiles
    Missing = 0
    Running = Running
    MaxLines <- MCMaxLines
    Names = {border, gray}
    Broken = Broken
    MaxEntries = 3
INVARIANTS
    EverythingConsumed
    MaterialAsWritten
    ExpandedAsWritten
    SpritesFollowSheet
PROPERTY
    DrawnWhole
