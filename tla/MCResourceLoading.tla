-------------------------- MODULE MCResourceLoading --------------------------
(***************************************************************************)
(* A mesh with a material that has a texture, and a sprite sheet whose     *)
(* pages include the same texture.                                         *)
(***************************************************************************)
EXTENDS ResourceLoading, TLC

CONSTANTS mesh, material, texture, sheet

MCNames == {mesh, material, texture, sheet}
MCSubs ==
    (mesh :> {material}) @@ (material :> {texture}) @@ (sheet :> {texture}) @@ (texture :> {})

=============================================================================
