SPECIFICATION MCSpec
CONSTANTS
    colored = colored
    textured = textured
    lit = lit
    plain = plain
    quad = quad
    tree = tree
    rock = rock
    None = None
    Canvas = quad
    CanvasShaders <- MCCanvasShaders
    MeshShaders <- MCMeshShaders
    Meshes <- MCMeshes
    Uniforms <- MCUniforms
    Values = {v1, v2}
    UniformsOf <- MCUniformsOf
    LocationOf <- MCLocationOf
    Provides <- MCProvides
    Sets <- MCSets
    mArenaSize = 4
    Sizes <- MCSizes
    SlotSize = 2
    MaxArenas = 3
    Holders = {u1, u2, u3}
    Null = Null
INVARIANTS
    ArraysOwned
    BlocksDisjoint
    SlotsOwnedOnce
PROPERTY
    DrawsAsTold
