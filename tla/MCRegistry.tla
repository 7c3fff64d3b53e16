----------------------------- MODULE MCRegistry -----------------------------
(***************************************************************************)
(* The whole catalogue.  A plugin is slow about one of the classes that    *)
(* share a name, about one item that a block leaves and about one block,   *)
(* and registers two blocks: one of its own, and one with the name of a    *)
(* block of the server and the id of the block that is late.               *)
(***************************************************************************)
EXTENDS Registry, ItemCatalogue

MCLateItems == {DiamondChestplate, Flint}
MCLateBlocks == {Prismarine}
MCCustomBlocks == {Block("marble", 900, 0), Block("stone", 168, 0)}

=============================================================================
