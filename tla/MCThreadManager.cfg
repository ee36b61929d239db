SPECIFICATION Spec
CONSTANTS
    material = material
    texture = texture
    sprite = sprite
    None = None
    Resources <- MCResources
    Sub <- MCSub
    MaxLoads = 1
INVARIANTS
    DrainedBeforeExit
    NothingOutlivesServices
    ClosuresRunInContext
    GLAccounting
PROPERTIES
    ShutdownTerminates
    LoadsResolve
