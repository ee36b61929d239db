----------------------- MODULE MCImmediateModeRenderer -----------------------
(***************************************************************************)
(* One vertex, two kinds of primitives, a texture, a custom shader, a      *)
(* second matrix, one flag and a mesh.                                     *)
(***************************************************************************)
EXTENDS ImmediateModeRenderer, TLC

CONSTANTS a, mesh, sheet, custom, moved, one, blend

MCVertices == {a}
MCMeshes == {mesh}
MCTypes == {"lines", "triangles"}
MCTextures == {sheet}
MCShaders == {custom}
MCMatrices == {one, moved}
MCFlags == {blend}
MCDefault == blend :> TRUE

=============================================================================
