---------------------------- MODULE ItemCatalogue ----------------------------
(***************************************************************************)
(* The item classes the server registers: name, numeric id, and the tool   *)
(* and tier it counts as when a block is broken.  Durability, armour and   *)
(* burn time are left out.  Names are without their prefix "minecraft:".   *)
(***************************************************************************)
EXTENDS BlockCatalogue

Item(name, id) == [name |-> name, id |-> id, tool |-> "None", level |-> Tier.None]
Tool(name, id) == Item(name, id)
Armor(name, id) == Item(name, id)
TieredTool(name, id, tier, tool) == [Item(name, id) EXCEPT !.tool = tool, !.level = tier]

Book == Item("book", 340)
Bow == Tool("bow", 261)
CarrotOnStick == Tool("carrotonastick", 398)
ChainBoots == Armor("chainmail_boots", 305)
ChainChestplate == Armor("chainmail_chestplate", 303)
ChainHelmet == Armor("chainmail_helmet", 302)
ChainLeggings == Armor("chainmail_leggings", 304)
Crossbow == Tool("crossbow", 471)
DiamondAxe == TieredTool("diamond_axe", 279, Tier.Diamond, "Axe")
DiamondBoots == Armor("diamond_boots", 313)
DiamondChestplate == Armor("diamond_chestplate", 311)
DiamondHelmet == Armor("diamond_helmet", 310)
DiamondHoe == TieredTool("diamond_hoe", 293, Tier.Diamond, "None")
DiamondLeggings == Armor("diamond_leggings", 312)
DiamondPickaxe == TieredTool("diamond_pickaxe", 278, Tier.Diamond, "Pickaxe")
DiamondShovel == TieredTool("diamond_shovel", 277, Tier.Diamond, "Shovel")
DiamondSword == TieredTool("diamond_sword", 276, Tier.Diamond, "Sword")
Elytra == Armor("diamond_chestplate", 444)
FishingRod == Tool("fishing_rod", 346)
Flint == Item("flint", 318)
FlintSteel == Tool("flint_and_steel", 259)
GoldenAxe == TieredTool("golden_axe", 286, Tier.Gold, "Axe")
GoldenBoots == Armor("golden_boots", 317)
GoldenChestplate == Armor("golden_chestplate", 315)
GoldenHelmet == Armor("golden_helmet", 314)
GoldenHoe == TieredTool("golden_hoe", 294, Tier.Gold, "None")
GoldenLeggings == Armor("golden_leggings", 316)
GoldenPickaxe == TieredTool("golden_pickaxe", 285, Tier.Gold, "Pickaxe")
GoldenShovel == TieredTool("golden_shovel", 284, Tier.Gold, "Shovel")
GoldenSword == TieredTool("golden_sword", 283, Tier.Gold, "Sword")
IronAxe == TieredTool("iron_axe", 258, Tier.Iron, "Axe")
IronBoots == Armor("iron_boots", 309)
IronChestplate == Armor("iron_chestplate", 307)
IronHelmet == Armor("iron_helmet", 306)
IronHoe == TieredTool("iron_hoe", 292, Tier.Iron, "None")
IronLeggings == Armor("iron_leggings", 308)
IronPickaxe == TieredTool("iron_pickaxe", 257, Tier.Iron, "Pickaxe")
IronShovel == TieredTool("iron_shovel", 256, Tier.Iron, "Shovel")
IronSword == TieredTool("iron_sword", 267, Tier.Iron, "Sword")
LeatherBoots == Armor("leather_boots", 301)
LeatherChestplate == Armor("leather_chestplate", 299)
LeatherHelmet == Armor("leather_helmet", 298)
LeatherLeggings == Armor("leather_leggings", 300)
NetheriteAxe == TieredTool("netherite_axe", 746, Tier.Netherite, "Axe")
NetheriteBoots == Armor("netherite_boots", 751)
NetheriteChestplate == Armor("netherite_chestplate", 749)
NetheriteHelmet == Armor("netherite_helmet", 748)
NetheriteHoe == TieredTool("wooden_hoe", 747, Tier.Netherite, "None")
NetheriteLeggings == Armor("netherite_leggings", 750)
NetheritePickaxe == TieredTool("netherite_pickaxe", 745, Tier.Netherite, "Pickaxe")
NetheriteShovel == TieredTool("netherite_shovel", 744, Tier.Netherite, "Shovel")
NetheriteSword == TieredTool("netherite_sword", 743, Tier.Netherite, "Sword")
Shears == Tool("shears", 359)
StoneAxe == TieredTool("stone_axe", 275, Tier.Stone, "Axe")
StoneHoe == TieredTool("stone_hoe", 291, Tier.Stone, "None")
StonePickaxe == TieredTool("stone_pickaxe", 274, Tier.Stone, "Pickaxe")
StoneShovel == TieredTool("stone_shovel", 273, Tier.Stone, "Shovel")
StoneSword == TieredTool("stone_sword", 272, Tier.Stone, "Sword")
Trident == Tool("trident", 455)
TurtleHelmet == Armor("turtle_shell", 469)
WarpedFunghusOnStick == Tool("warped_fungus_on_a_stick", 757)
WoodenAxe == TieredTool("wooden_axe", 271, Tier.Wood, "Axe")
WoodenHoe == TieredTool("wooden_hoe", 290, Tier.Wood, "None")
WoodenPickaxe == TieredTool("wooden_pickaxe", 270, Tier.Wood, "Pickaxe")
WoodenShovel == TieredTool("wooden_shovel", 269, Tier.Wood, "Shovel")
WoodenSword == TieredTool("wooden_sword", 268, Tier.Wood, "Sword")

\* In the order in which they are registered.
Items == <<
    Book, Bow, CarrotOnStick, ChainBoots, ChainChestplate, ChainHelmet, ChainLeggings, Crossbow, DiamondAxe,
      DiamondBoots, DiamondChestplate, DiamondHelmet, DiamondHoe, DiamondLeggings, DiamondPickaxe,
      DiamondShovel, DiamondSword, Elytra, FishingRod, Flint, FlintSteel, GoldenAxe, GoldenBoots,
      GoldenChestplate, GoldenHelmet, GoldenHoe, GoldenLeggings, GoldenPickaxe, GoldenShovel, GoldenSword,
      IronAxe, IronBoots, IronChestplate, IronHelmet, IronHoe, IronLeggings, IronPickaxe, IronShovel,
      IronSword, LeatherBoots, LeatherChestplate, LeatherHelmet, LeatherLeggings, NetheriteAxe,
      NetheriteBoots, NetheriteChestplate, NetheriteHelmet, NetheriteHoe, NetheriteLeggings, NetheritePickaxe,
      NetheriteShovel, NetheriteSword, Shears, StoneAxe, StoneHoe, StonePickaxe, StoneShovel, StoneSword,
      Trident, TurtleHelmet, WarpedFunghusOnStick, WoodenAxe, WoodenHoe, WoodenPickaxe, WoodenShovel,
      WoodenSword >>

=============================================================================
