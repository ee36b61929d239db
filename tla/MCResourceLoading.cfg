SPECIFICATION Spec
CONSTANTS
    mesh = mesh
    material = material
    texture = texture
    sheet = sheet
    None = None
    Names <- MCNames
    Subs <- MCSubs
INVARIANTS
    AllLoadedWhenComplete
    CountersConsistent
    FullProgressMeansLoaded
    OneLoadUnderWay
PROPERTIES
    LoadingCompletes
