--------------------------- MODULE MCGLES2Renderer ---------------------------
(***************************************************************************)
(* The renderer with the two built-in shaders of the canvas, two shaders   *)
(* of meshes, whose attributes share locations in different ways, and two  *)
(* meshes, one without texture coordinates; or the memory of the uniforms  *)
(* it sets: three of them, whose values are allocated from a pool that     *)
(* serves requests of every other size, too (smaller than an arena, equal  *)
(* to it and larger).                                                      *)
(***************************************************************************)
EXTENDS GLES2Renderer, PoolAllocator, TLC

CONSTANTS colored, textured, lit, plain, quad, tree, rock

VARIABLE part

MCCanvasShaders == {colored, textured}
MCMeshShaders == {lit, plain}
MCMeshes == {tree, rock}
MCUniforms == {"uModelView", "uLight"}
MCUniformsOf ==
    [s \in {colored, textured, lit, plain} |->
        IF s = lit THEN {"uModelView", "uLight"} ELSE {"uModelView"}]
MCSets ==
    (colored :> {"uModelView"}) @@ (textured :> {"uModelView"})
    @@ (lit :> {"uLight"}) @@ (plain :> {})
MCLocationOf ==
    (colored :> [position |-> 0, color |-> 1])
    @@ (textured :> [position |-> 0, color |-> 1, texCoord |-> 2])
    @@ (lit :> [normal |-> 0, position |-> 1, texCoord |-> 2])
    @@ (plain :> [position |-> 0])
MCProvides ==
    (quad :> {"position", "color", "texCoord"})
    @@ (tree :> {"position", "normal", "texCoord"}) @@ (rock :> {"position", "normal"})
MCSizes == 1 .. 5

MCInit ==
    /\ part \in {"renderer", "memory"}
    /\ Init
    /\ SlotsInit

MCNext ==
    /\ \/ part = "renderer" /\ Next /\ UNCHANGED slotVars
       \/ part = "memory" /\ SlotsNext /\ UNCHANGED vars
       \/ part = "memory" /\ PoolNext /\ UNCHANGED <<mFreeList, mValue, lost, vars>>
    /\ UNCHANGED part

MCSpec == MCInit /\ [][MCNext]_<<part, vars, slotVars>>

=============================================================================
