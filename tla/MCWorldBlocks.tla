----------------------------- MODULE MCWorldBlocks -----------------------------
(* Small instances of WorldBlocks: two neighbouring positions in two chunks, *)
(* one of which is in the start region.                                      *)
EXTENDS WorldBlocks, TLC

CONSTANTS here, there, near, far, air, stone

MCChunkOf == (here :> near) @@ (there :> far)
MCAround == (here :> {there}) @@ (there :> {here})
Symmetry == Permutations(CallIds)
MCGenerated == (here :> stone) @@ (there :> stone)
=============================================================================
