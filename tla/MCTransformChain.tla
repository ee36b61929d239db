-------------------------- MODULE MCTransformChain --------------------------
(* Shifts in both directions, a uniform and a mirroring scale. *)
EXTENDS TransformChain

MCShifts == {<<1, 0>>, <<0, 2>>}
MCFactors == {<<2, 2>>, <<-1, 1>>}
=============================================================================
