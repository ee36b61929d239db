--------------------------- MODULE MCThreadManager ---------------------------
(***************************************************************************)
(* One material with its texture, and a second texture.                    *)
(***************************************************************************)
EXTENDS ThreadManager, TLC

CONSTANTS material, texture, sprite

MCSub == (material :> texture) @@ (texture :> None) @@ (sprite :> None)
MCResources == {material, texture, sprite}

=============================================================================
