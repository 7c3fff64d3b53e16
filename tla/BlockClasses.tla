----------------------------- MODULE BlockClasses -----------------------------
(***************************************************************************)
(* What a block class gives its registration, and what decides its drops;  *)
(* the classes that others extend and those that stand alone.  Of a class  *)
(* the name, the Java name, the numeric id and the meta value are kept,    *)
(* the tools and the tier it asks for, and the alternatives its drops are  *)
(* chosen from; hardness, light, sound and the rest of its constants are   *)
(* left out.                                                               *)
(*                                                                         *)
(* Names are without their prefix "minecraft:".                            *)
(***************************************************************************)
EXTENDS Naturals, Sequences

\* The tiers in the order of the enum: gold is above wood, stone above gold.
Tier == [None |-> 0, Wood |-> 1, Gold |-> 2, Stone |-> 3, Iron |-> 4, Diamond |-> 5, Netherite |-> 6]

\* What a block may leave: itself, an item or another block looked up by name,
\* or nothing.
This == <<[of |-> "this", name |-> ""]>>
AnItem(name) == <<[of |-> "item", name |-> name]>>
ABlock(name) == <<[of |-> "block", name |-> name]>>
Nothing == <<>>

\* A block that any hand or tool breaks and that leaves itself.
Block(name, id, meta) ==
    [name |-> name, javaName |-> name, id |-> id, meta |-> meta,
     tools |-> {"None"}, level |-> Tier.None, drops |-> {This}]
Needs(block, tools, level) == [block EXCEPT !.tools = tools, !.level = level]
Dropping(block, drops) == [block EXCEPT !.drops = drops]
Liquid(name, id, meta) == Dropping(Block(name, id, meta), {Nothing})

(***************************************************************************)
(* Classes that others extend, with their constructors' parameters.        *)
(***************************************************************************)
StoneOf(name, type) == Dropping(Needs(Block(name, 1, type), {"Pickaxe"}, Tier.Wood), {ABlock("cobblestone")})
DirtOf(name, type) == Needs(Block(name, 3, type), {"None", "Shovel"}, Tier.None)
SandOf(name, type) == Needs(Block(name, 12, type), {"None", "Shovel"}, Tier.None)
SandstoneOf(name, type) == Needs(Block(name, 24, type), {"Pickaxe"}, Tier.Wood)
RedSandstoneOf(name, type) == Needs(Block(name, 179, type), {"Pickaxe"}, Tier.Wood)
SpongeOf(name, type) == Block(name, 19, type)
StoneSlabOf(name, type) == Block(name, 44, type)
GlassOf(name, id) == Dropping(Block(name, id, 0), {Nothing})
StainedGlass(name, type) == [GlassOf(name, 241) EXCEPT !.meta = type]
FlowingLavaOf(name, id) == Liquid(name, id, 0)
FlowingWaterOf(name, id) == Liquid(name, id, 0)
Leaves(name, type) == Needs(Block(name, 18, type), {"Shears"}, Tier.None)
Log(name, type) == Needs(Block(name, 17, type), {"None", "Axe"}, Tier.None)
Planks(name, type) == Needs(Block(name, 5, type), {"None", "Axe"}, Tier.None)
Sapling(name, type) == Block(name, 6, type)
Flower(name, type) == Block(name, 38, type)
Bed(name, type) == Dropping(Block(name, 26, type), {AnItem("bed")})
Carpet(name, type) == Block(name, 171, type)
Concrete(name, type) == Needs(Block(name, 236, type), {"Pickaxe"}, Tier.None)
ConcretePowder(name, type) == Needs(Block(name, 237, type), {"None", "Shovel"}, Tier.None)
StainedTerracotta(name, type) == Needs(Block(name, 159, type), {"Pickaxe"}, Tier.None)
Wool(name, type) == Needs(Block(name, 35, type), {"None", "Shears"}, Tier.None)

\* Blocks of their own.
Air == Block("air", 0, 0)
Basalt == Needs(Block("basalt", 489, 0), {"Pickaxe"}, Tier.Wood)
Bedrock == Block("bedrock", 7, 0)
BlackGlazedTerracotta == Needs(Block("black_glazed_terracotta", 235, 0), {"Pickaxe"}, Tier.None)
BlueGlazedTerracotta == Needs(Block("blue_glazed_terracotta", 231, 0), {"Pickaxe"}, Tier.None)
Bookshelf == Dropping(Needs(Block("bookshelf", 47, 0), {"Axe"}, Tier.None), {AnItem("book")})
BrickStairs == Needs(Block("brick_stairs", 108, 0), {"Pickaxe"}, Tier.Wood)
Bricks == Block("bricks", 45, 0)
BrownGlazedTerracotta == Needs(Block("brown_glazed_terracotta", 232, 0), {"Pickaxe"}, Tier.None)
BrownMushroom == Block("brown_mushroom", 39, 0)
ChainCommandBlock == Block("chain_command_block", 189, 0)
Chest == Needs(Block("chest", 54, 0), {"None", "Axe"}, Tier.None)
Clay == Needs(Block("clay", 82, 0), {"None", "Shovel"}, Tier.None)
CoalOre == Dropping(Needs(Block("coal_ore", 16, 0), {"Pickaxe"}, Tier.Wood), {AnItem("coal")})
Cobblestone == Needs(Block("cobblestone", 4, 0), {"Pickaxe"}, Tier.Wood)
Cobweb == Needs(Block("cobweb", 30, 0), {"Sword", "Shears"}, Tier.None)
CommandBlock == Block("command_block", 137, 0)
CraftingTable == Needs(Block("crafting_table", 58, 0), {"Axe"}, Tier.None)
CryingObsidian == Needs(Block("crying_obsidian", 544, 0), {"Pickaxe"}, Tier.Diamond)
CyanGlazedTerracotta == Needs(Block("cyan_glazed_terracotta", 229, 0), {"Pickaxe"}, Tier.None)
Dandelion == Block("dandelion", 37, 0)

DarkPrismarine == Needs(Block("dark_prismarine", 168, 1), {"Pickaxe"}, Tier.None)
DeadBush == Block("dead_bush", 32, 0)
DeadShrub == Block("dead_shrub", 31, 0)
DetectorRail == Needs(Block("detector_rail", 28, 0), {"Pickaxe"}, Tier.None)
DiamondBlock == Needs(Block("diamond_block", 57, 0), {"Pickaxe"}, Tier.Iron)
DiamondOre == Needs(Block("diamond_ore", 56, 0), {"Pickaxe"}, Tier.Iron)
Dispenser == Needs(Block("dispenser", 23, 0), {"Pickaxe"}, Tier.Wood)
DoubleStoneSlab == Block("double_stone_slab", 43, 0)
EmeraldOre == Needs(Block("emerald_ore", 129, 0), {"Pickaxe"}, Tier.Iron)
EndStoneBrickStairs == Needs(Block("end_stone_brick_stairs", 433, 0), {"Pickaxe"}, Tier.Wood)
FarmLand == Dropping(Needs(Block("farmland", 60, 0), {"None", "Shovel"}, Tier.None), {ABlock("dirt")})
Fire == Block("Fire", 51, 0)
Furnace == Needs(Block("furnace", 61, 0), {"Pickaxe"}, Tier.Wood)
GoldBlock == Needs(Block("gold_block", 41, 0), {"Pickaxe"}, Tier.Iron)
GoldOre == Needs(Block("gold_ore", 14, 0), {"Pickaxe"}, Tier.Iron)
Grass ==
    Dropping(Needs([Block("grass", 2, 0) EXCEPT !.javaName = "grass_block"], {"None", "Shovel"}, Tier.None), {ABlock("dirt")})

Gravel == Dropping(Needs(Block("gravel", 13, 0), {"None", "Shovel"}, Tier.None), {AnItem("flint"), ABlock("gravel")})
GrayGlazedTerracotta == Needs(Block("gray_glazed_terracotta", 227, 0), {"Pickaxe"}, Tier.None)
GreenGlazedTerracotta == Needs(Block("green_glazed_terracotta", 233, 0), {"Pickaxe"}, Tier.None)
Ice == Needs(Block("ice", 79, 0), {"None", "Pickaxe"}, Tier.None)
IronBlock == Needs(Block("iron_block", 42, 0), {"Pickaxe"}, Tier.Stone)
IronOre == Needs(Block("iron_ore", 15, 0), {"Pickaxe"}, Tier.Stone)
IronTrapdoor == Needs(Block("iron_trapdoor", 167, 0), {"Pickaxe"}, Tier.None)
LapisBlock == Needs(Block("lapis_block", 22, 0), {"Pickaxe"}, Tier.Stone)
LapisOre == Needs(Block("lapis_ore", 21, 0), {"Pickaxe"}, Tier.Stone)
Lever == Needs(Block("lever", 69, 0), {"Axe"}, Tier.None)
LightBlueGlazedTerracotta == Needs(Block("light_blue_glazed_terracotta", 223, 0), {"Pickaxe"}, Tier.None)
LightGrayGlazedTerracotta == Needs(Block("light_gray_glazed_terracotta", 228, 0), {"Pickaxe"}, Tier.None)
LimeGlazedTerracotta == Needs(Block("lime_glazed_terracotta", 225, 0), {"Pickaxe"}, Tier.None)
LitFurnace == Dropping(Needs(Block("lit_furnace", 62, 0), {"Pickaxe"}, Tier.Wood), {ABlock("furnace")})
MagentaGlazedTerracotta == Needs(Block("magenta_glazed_terracotta", 222, 0), {"Pickaxe"}, Tier.None)
MobSpawner == Needs(Block("mob_spawner", 52, 0), {"Pickaxe"}, Tier.Wood)
MossyCobblestone == Needs(Block("mossy_cobblestone", 48, 0), {"Pickaxe"}, Tier.Wood)
NoteBlock == Needs(Block("note_block", 25, 0), {"Axe"}, Tier.Wood)
OakButton == Needs(Block("oak_button", 143, 0), {"Axe"}, Tier.None)
OakStairs == Needs(Block("oak_stairs", 53, 0), {"Axe"}, Tier.Wood)
Obsidian == Needs(Block("obsidian", 49, 0), {"Pickaxe"}, Tier.Diamond)
OrangeGlazedTerracotta == Needs(Block("orange_glazed_terracotta", 221, 0), {"Pickaxe"}, Tier.None)
PinkGlazedTerracotta == Needs(Block("pink_glazed_terracotta", 226, 0), {"Pickaxe"}, Tier.None)
Piston == Block("piston", 33, 0)
PistonArmCollision == Block("piston_arm_collision", 34, 0)
PoweredRail == Needs(Block("powered_rail", 27, 0), {"Pickaxe"}, Tier.None)
Prismarine == Needs(Block("prismarine", 168, 0), {"Pickaxe"}, Tier.None)
PrismarineBrinks == Needs(Block("prismarine_bricks", 168, 2), {"Pickaxe"}, Tier.None)
PurpleGlazedTerracotta == Needs(Block("purple_glazed_terracotta", 219, 0), {"Pickaxe"}, Tier.None)
PurpurBlock == Needs(Block("purpur_block", 201, 0), {"Pickaxe"}, Tier.None)
PurpurPillar == Needs(Block("purpur_pillar", 201, 2), {"Pickaxe"}, Tier.None)
Rail == Needs(Block("rail", 66, 0), {"Pickaxe"}, Tier.None)
RedGlazedTerracotta == Needs(Block("red_glazed_terracotta", 234, 0), {"Pickaxe"}, Tier.None)
RedMushroom == Block("red_mushroom", 40, 0)
RedstoneOre == Needs(Block("redstone_ore", 73, 0), {"Pickaxe"}, Tier.Iron)
RedstoneWire == Block("redstone_wire", 55, 0)
RepeatingCommandBlock == Block("repeating_command_block", 188, 0)
SoulSand == Needs(Block("soul_sand", 88, 0), {"None", "Shovel"}, Tier.None)
StickyPiston == Block("sticky_piston", 29, 0)
StickyPistonArmCollision == Block("sticky_piston_arm_collision", 472, 0)
StoneButton == Needs(Block("stone_button", 77, 0), {"Pickaxe"}, Tier.None)
StructureBlock == Block("structure_block", 252, 0)
Sunflower == Block("sunflower", 175, 0)
TNT == Block("tnt", 46, 0)
TallGrass == Block("tall_grass", 31, 1)
Terracotta == Needs(Block("terracotta", 172, 0), {"Pickaxe"}, Tier.None)
Torch == Block("torch", 50, 0)
Trapdoor == Needs(Block("trapdoor", 96, 0), {"Axe"}, Tier.None)
Wheat == Block("wheat", 59, 0)
WhiteGlazedTerracotta == Needs(Block("white_glazed_terracotta", 220, 0), {"Pickaxe"}, Tier.None)
YellowGlazedTerracotta == Needs(Block("yellow_glazed_terracotta", 224, 0), {"Pickaxe"}, Tier.None)

(***************************************************************************)
(* Breaking a block with a tool, or with the bare hand when there is none. *)
(***************************************************************************)

IsCompatibleWithTool(block, tool) ==
    \/ "None" \in block.tools \/ block.level = Tier.None
    \/ \E t \in tool : t.tool \in block.tools /\ t.level >= block.level

\* tool is a set of at most one item; no item has an enchantment.
GetDrops(block, tool) == IF IsCompatibleWithTool(block, tool) THEN block.drops ELSE {Nothing}

=============================================================================
