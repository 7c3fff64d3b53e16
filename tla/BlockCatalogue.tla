--------------------------- MODULE BlockCatalogue ---------------------------
(***************************************************************************)
(* The block classes that extend another class of BlockClasses, and the    *)
(* list of all blocks the server registers.                                *)
(***************************************************************************)
EXTENDS BlockClasses

\* Stone.
Andesite == Dropping(StoneOf("andesite", 5), {ABlock("andesite")})
Diorite == Dropping(StoneOf("diorite", 3), {ABlock("diorite")})
Granite == Dropping(StoneOf("granite", 1), {ABlock("granite")})
PolishedAndesite == Dropping(StoneOf("polished_andesite", 6), {ABlock("polished_andesite")})
PolishedDiorite == Dropping(StoneOf("polished_diorite", 4), {ABlock("polished_diorite")})
PolishedGranite == Dropping(StoneOf("polished_granite", 2), {ABlock("polished_granite")})
Stone == StoneOf("stone", 0)

\* Dirt.
CoarseDirt == DirtOf("coarse_dirt", 1)
Dirt == DirtOf("dirt", 0)
Podzol == DirtOf("podzol", 2)

\* Sand.
RedSand == SandOf("red_sand", 1)
Sand == SandOf("sand", 0)

\* Sandstone.
ChiseledSandstone == SandstoneOf("chiseled_sandstone", 1)
CutSandstone == SandstoneOf("cut_sandstone", 2)
Sandstone == SandstoneOf("sandstone", 0)

\* Red sandstone.
ChiseledRedSandstone == RedSandstoneOf("chiseled_red_sandstone", 1)
CutRedSandstone == RedSandstoneOf("cut_red_sandstone", 2)
RedSandstone == RedSandstoneOf("red_sandstone", 0)

\* Sponge.
Sponge == SpongeOf("sponge", 0)
WetSponge == SpongeOf("wet_sponge", 1)

\* Slabs.
SandSlab == StoneSlabOf("sand_slab", 1)
StoneSlab == StoneSlabOf("stone_slab", 0)

\* Glass.
Glass == GlassOf("glass", 20)

\* Stained glass.
BlackStainedGlass == StainedGlass("black_stained_glass", 15)
BlueStainedGlass == StainedGlass("blue_stained_glass", 11)
BrownStainedGlass == StainedGlass("brown_stained_glass", 12)
CyanStainedGlass == StainedGlass("cyan_stained_glass", 9)
GrayStainedGlass == StainedGlass("gray_stained_glass", 7)
GreenStainedGlass == StainedGlass("green_stained_glass", 13)
LightBlueStainedGlass == StainedGlass("light_blue_stained_glass", 3)
LightGrayStainedGlass == StainedGlass("silver_stained_glass", 8)
LimeStainedGlass == StainedGlass("lime_stained_glass", 5)
MagentaStainedGlass == StainedGlass("magenta_stained_glass", 2)
OrangeStainedGlass == StainedGlass("orange_stained_glass", 1)
PinkStainedGlass == StainedGlass("pink_stained_glass", 6)
PurpleStainedGlass == StainedGlass("purple_stained_glass", 10)
RedStainedGlass == StainedGlass("red_stained_glass", 14)
WhiteStainedGlass == StainedGlass("white_stained_glass", 0)
YellowStainedGlass == StainedGlass("yellow_stained_glass", 4)

\* Lava.
FlowingLava == FlowingLavaOf("flowing_lava", 10)
Lava == FlowingLavaOf("lava", 11)

\* Water.
FlowingWater == FlowingWaterOf("flowing_water", 8)
Water == FlowingWaterOf("water", 9)

\* Leaves.
AcaciaLeaves == Leaves("acacia_leaves", 4)
BirchLeaves == Leaves("birch_leaves", 2)
DarkOakLeaves == Leaves("dark_oak_leaves", 5)
JungleLeaves == Leaves("jungle_leaves", 3)
OakLeaves == Leaves("oak_leaves", 0)
SpruceLeaves == Leaves("spruce_leaves", 1)

\* Log.
AcaciaLog == Log("acacia_log", 4)
BirchLog == Log("birch_log", 2)
DarkOakLog == Log("dark_oak_log", 5)
JungleLog == Log("jungle_log", 3)
OakLog == Log("oak_log", 0)
SpruceLog == Log("spruce_log", 1)

\* Planks.
AcaciaPlanks == Planks("acacia_planks", 4)
BirchPlanks == Planks("birch_planks", 2)
DarkOakPlanks == Planks("dark_oak_planks", 5)
JunglePlanks == Planks("jungle_planks", 3)
OakPlanks == Planks("oak_planks", 0)
SprucePlanks == Planks("spruce_planks", 1)

\* Sapling.
AcaciaSapling == Sapling("acacia_sapling", 4)
BirchSapling == Sapling("birch_sapling", 2)
DarkOakSapling == Sapling("dark_oak_sapling", 5)
JungleSapling == Sapling("jungle_sapling", 3)
OakSapling == Sapling("oak_sapling", 0)
SpruceSapling == Sapling("spruce_sapling", 1)

\* Flower.
Allium == Flower("allium", 2)
AzureBluet == Flower("azure_bluet", 4)
BlueOrchid == Flower("blue_orchid", 1)
OrangeTulip == Flower("orange_tulip", 6)
OxeyeDaisy == Flower("oxeye_daisy", 9)
PinkTulip == Flower("pink_tulip", 8)
Poppy == Flower("poppy", 0)
RedTulip == Flower("red_tulip", 5)
WhiteTulip == Flower("white_tulip", 7)

\* Bed.
BlackBed == Bed("black_bed", 15)
BlueBed == Bed("blue_bed", 11)
BrownBed == Bed("brown_bed", 12)
CyanBed == Bed("cyan_bed", 9)
GrayBed == Bed("gray_bed", 7)
GreenBed == Bed("green_bed", 13)
LightBlueBed == Bed("light_blue_bed", 3)
LightGrayBed == Bed("light_gray_bed", 8)
LimeBed == Bed("lime_bed", 5)
MagentaBed == Bed("magenta_bed", 2)
OrangeBed == Bed("orange_bed", 1)
PinkBed == Bed("pink_bed", 6)
PurpleBed == Bed("purple_bed", 10)
RedBed == Bed("Red_bed", 14)
WhiteBed == Bed("white_bed", 0)
YellowBed == Bed("yellow_bed", 4)

\* Carpet.
BlackCarpet == Carpet("black_carpet", 15)
BlueCarpet == Carpet("blue_carpet", 11)
BrownCarpet == Carpet("brown_carpet", 12)
CyanCarpet == Carpet("cyan_carpet", 9)
GrayCarpet == Carpet("gray_carpet", 7)
GreenCarpet == Carpet("green_carpet", 13)
LightBlueCarpet == Carpet("light_blue_carpet", 3)
LightGrayCarpet == Carpet("light_gray_carpet", 8)
LimeCarpet == Carpet("lime_carpet", 5)
MagentaCarpet == Carpet("magenta_carpet", 2)
OrangeCarpet == Carpet("orange_carpet", 1)
PinkCarpet == Carpet("pink_carpet", 6)
PurpleCarpet == Carpet("purple_carpet", 10)
RedCarpet == Carpet("red_carpet", 14)
WhiteCarpet == Carpet("white_carpet", 0)
YellowCarpet == Carpet("yellow_carpet", 4)

\* Concrete.
BlackConcrete == Concrete("black_concrete", 15)
BlueConcrete == Concrete("blue_concrete", 11)
BrownConcrete == Concrete("brown_concrete", 12)
CyanConcrete == Concrete("cyan_concrete", 9)
GrayConcrete == Concrete("gray_concrete", 7)
GreenConcrete == Concrete("green_concrete", 13)
LightBlueConcrete == Concrete("light_blue_concrete", 3)
LightGrayConcrete == Concrete("light_gray_concrete", 8)
LimeConcrete == Concrete("lime_concrete", 5)
MagentaConcrete == Concrete("magenta_concrete", 2)
OrangeConcrete == Concrete("orange_concrete", 1)
PinkConcrete == Concrete("pink_concrete", 6)
PurpleConcrete == Concrete("purple_concrete", 10)
RedConcrete == Concrete("red_concrete", 14)
WhiteConcrete == Concrete("white_concrete", 0)
YellowConcrete == Concrete("yellow_concrete", 4)

\* Concrete powder.
BlackConcretepowder == ConcretePowder("black_concrete_powder", 15)
BlueConcretePowder == ConcretePowder("blue_concrete_powder", 11)
BrownConcretePowder == ConcretePowder("brown_concrete_powder", 12)
CyanConcretePowder == ConcretePowder("cyan_concrete_powder", 9)
GrayConcretePowder == ConcretePowder("gray_concrete_powder", 7)
GreenConcretePowder == ConcretePowder("green_concrete_powder", 13)
LightBlueConcretePowder == ConcretePowder("light_blue_concrete_powder", 3)
LightGrayConcretePowder == ConcretePowder("light_gray_concrete_powder", 8)
LimeConcretePowder == ConcretePowder("lime_concrete_powder", 5)
MagentaConcretePowder == ConcretePowder("magenta_concrete_powder", 2)
OrangeConcretePowder == ConcretePowder("orange_concrete_powder", 1)
PinkConcretePowder == ConcretePowder("pink_concrete_powder", 6)
PurpleConcretePowder == ConcretePowder("purple_concrete_powder", 10)
RedConcretePowder == ConcretePowder("red_concrete_powder", 14)
WhiteConcretePowder == ConcretePowder("white_concrete_powder", 0)
YellowConcretePowder == ConcretePowder("yellow_concrete_powder", 4)

\* Stained terracotta.
BlackTerracotta == StainedTerracotta("black_terracotta", 15)
BlueTerracotta == StainedTerracotta("blue_terracotta", 11)
BrownTerracotta == StainedTerracotta("brown_terracotta", 12)
CyanTerracotta == StainedTerracotta("cyan_terracotta", 9)
GrayTerracotta == StainedTerracotta("gray_terracotta", 7)
GreenTerracotta == StainedTerracotta("green_terracotta", 13)
LightBlueTerracotta == StainedTerracotta("light_blue_terracotta", 3)
LightGrayTerracotta == StainedTerracotta("light_gray_terracotta", 8)
LimeTerracotta == StainedTerracotta("lime_terracotta", 5)
MagentaTerracotta == StainedTerracotta("magenta_terracotta", 2)
OrangeTerracotta == StainedTerracotta("orange_terracotta", 1)
PinkTerracotta == StainedTerracotta("pink_terracotta", 6)
PurpleTerracotta == StainedTerracotta("purple_terracotta", 10)
RedTerracotta == StainedTerracotta("red_terracotta", 14)
WhiteTerracotta == StainedTerracotta("white_terracotta", 0)
YellowTerracotta == StainedTerracotta("yellow_terracotta", 4)

\* Wool.
BlackWool == Wool("black_wool", 15)
BlueWool == Wool("blue_wool", 11)
BrownWool == Wool("brown_wool", 12)
CyanWool == Wool("cyan_wool", 9)
GrayWool == Wool("gray_wool", 7)
GreenWool == Wool("green_wool", 13)
LightBlueWool == Wool("light_blue_wool", 3)
LightGrayWool == Wool("light_gray_wool", 8)
LimeWool == Wool("lime_wool", 5)
MagentaWool == Wool("magenta_wool", 2)
OrangeWool == Wool("orange_wool", 1)
PinkWool == Wool("pink_wool", 6)
PurpleWool == Wool("purple_wool", 10)
RedWool == Wool("red_wool", 14)
WhiteWool == Wool("white_wool", 0)
YellowWool == Wool("yellow_wool", 4)

\* In the order in which they are registered.
Blocks == <<
    AcaciaLeaves, AcaciaLog, AcaciaPlanks, AcaciaSapling, Air, Allium, Andesite, AzureBluet, Basalt, Bedrock,
      BirchLeaves, BirchLog, BirchPlanks, BirchSapling, BlackBed, BlackCarpet, BlackConcrete,
      BlackConcretepowder, BlackGlazedTerracotta, BlackStainedGlass, BlackTerracotta, BlackWool, BlueBed,
      BlueCarpet, BlueConcrete, BlueConcretePowder, BlueGlazedTerracotta, BlueOrchid, BlueStainedGlass,
      BlueTerracotta, BlueWool, Bookshelf, BrickStairs, Bricks, BrownBed, BrownCarpet, BrownConcrete,
      BrownConcretePowder, BrownGlazedTerracotta, BrownMushroom, BrownStainedGlass, BrownTerracotta,
      BrownWool, ChainCommandBlock, Chest, ChiseledRedSandstone, ChiseledSandstone, Clay, CoalOre, CoarseDirt,
      Cobblestone, Cobweb, CommandBlock, CraftingTable, CryingObsidian, CutRedSandstone, CutSandstone,
      CyanBed, CyanCarpet, CyanConcrete, CyanConcretePowder, CyanGlazedTerracotta, CyanStainedGlass,
      CyanTerracotta, CyanWool, Dandelion, DarkOakLeaves, DarkOakLog, DarkOakPlanks, DarkOakSapling,
      DarkPrismarine, DeadBush, DeadShrub, DetectorRail, DiamondBlock, DiamondOre, Diorite, Dirt, Dispenser,
      DoubleStoneSlab, EmeraldOre, EndStoneBrickStairs, FarmLand, Fire, FlowingLava, FlowingWater, Furnace,
      Glass, GoldBlock, GoldOre, Granite, Grass, Gravel, GrayBed, GrayCarpet, GrayConcrete,
      GrayConcretePowder, GrayGlazedTerracotta, GrayStainedGlass, GrayTerracotta, GrayWool, GreenBed,
      GreenCarpet, GreenConcrete, GreenConcretePowder, GreenGlazedTerracotta, GreenStainedGlass,
      GreenTerracotta, GreenWool, Ice, IronBlock, IronOre, IronTrapdoor, JungleLeaves, JungleLog,
      JunglePlanks, JungleSapling, LapisBlock, LapisOre, Lava, Lever, LightBlueBed, LightBlueCarpet,
      LightBlueConcrete, LightBlueConcretePowder, LightBlueGlazedTerracotta, LightBlueStainedGlass,
      LightBlueTerracotta, LightBlueWool, LightGrayBed, LightGrayCarpet, LightGrayConcrete,
      LightGrayConcretePowder, LightGrayGlazedTerracotta, LightGrayStainedGlass, LightGrayTerracotta,
      LightGrayWool, LimeBed, LimeCarpet, LimeConcrete, LimeConcretePowder, LimeGlazedTerracotta,
      LimeStainedGlass, LimeTerracotta, LimeWool, LitFurnace, MagentaBed, MagentaCarpet, MagentaConcrete,
      MagentaConcretePowder, MagentaGlazedTerracotta, MagentaStainedGlass, MagentaTerracotta, MagentaWool,
      MobSpawner, MossyCobblestone, NoteBlock, OakButton, OakLeaves, OakLog, OakPlanks, OakSapling, OakStairs,
      Obsidian, OrangeBed, OrangeCarpet, OrangeConcrete, OrangeConcretePowder, OrangeGlazedTerracotta,
      OrangeStainedGlass, OrangeTerracotta, OrangeTulip, OrangeWool, OxeyeDaisy, PinkBed, PinkCarpet,
      PinkConcrete, PinkConcretePowder, PinkGlazedTerracotta, PinkStainedGlass, PinkTerracotta, PinkTulip,
      PinkWool, Piston, PistonArmCollision, Podzol, PolishedAndesite, PolishedDiorite, PolishedGranite, Poppy,
      PoweredRail, Prismarine, PrismarineBrinks, PurpleBed, PurpleCarpet, PurpleConcrete,
      PurpleConcretePowder, PurpleGlazedTerracotta, PurpleStainedGlass, PurpleTerracotta, PurpleWool,
      PurpurBlock, PurpurPillar, Rail, RedBed, RedCarpet, RedConcrete, RedConcretePowder, RedGlazedTerracotta,
      RedMushroom, RedSand, RedSandstone, RedStainedGlass, RedTerracotta, RedTulip, RedWool, RedstoneOre,
      RedstoneWire, RepeatingCommandBlock, Sand, SandSlab, Sandstone, SoulSand, Sponge, SpruceLeaves,
      SpruceLog, SprucePlanks, SpruceSapling, StickyPiston, StickyPistonArmCollision, Stone, StoneButton,
      StoneSlab, StructureBlock, Sunflower, TNT, TallGrass, Terracotta, Torch, Trapdoor, Water, WetSponge,
      Wheat, WhiteBed, WhiteCarpet, WhiteConcrete, WhiteConcretePowder, WhiteGlazedTerracotta,
      WhiteStainedGlass, WhiteTerracotta, WhiteTulip, WhiteWool, YellowBed, YellowCarpet, YellowConcrete,
      YellowConcretePowder, YellowGlazedTerracotta, YellowStainedGlass, YellowTerracotta, YellowWool >>

=============================================================================
