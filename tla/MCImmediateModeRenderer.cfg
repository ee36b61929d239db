SPECIFICATION Spec
CONSTANTS
    a = a
    mesh = mesh
    sheet = sheet
    custom = custom
    one = one
    moved = moved
    blend = blend
    None = None
    Identity = one
    Vertices <- MCVertices
    Meshes <- MCMeshes
    Types <- MCTypes
    Textures <- MCTextures
    Shaders <- MCShaders
    Matrices <- MCMatrices
    Stacks = {"uModelView"}
    Flags <- MCFlags
    FlagValues = {TRUE, FALSE}
    DefaultFlags <- MCDefault
    MaxIndex = 2
    MaxBatch = 2
    MaxDrawn = 2
    MaxStack = 1
PROPERTY
    ImplementsDirectDrawing
