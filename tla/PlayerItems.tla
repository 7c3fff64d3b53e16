----------------------------- MODULE PlayerItems -----------------------------
(***************************************************************************)
(* Items: the inventories of players, the item entities they pick up, the  *)
(* transactions that move items, and the player data an account leaves     *)
(* behind and gets back (packages/prismarine/src/inventory, entity/other/  *)
(* Item.ts, network/handler/InventoryTransactionHandler.ts, World.         *)
(* savePlayerData, Player.onEnable and onDisable).                         *)
(*                                                                         *)
(* An inventory is a JavaScript Map: the entries in the order in which     *)
(* their slots were first set.  An item stands for one ContainerEntry.     *)
(* The tick subscription of a Player is never removed, so one that left    *)
(* goes on colliding with items.                                           *)
(***************************************************************************)
EXTENDS Integers, Sequences, SequencesExt, FiniteSets

CONSTANTS Slots,        (* slots of an inventory: 36                         *)
          Items,        (* item entries                                      *)
          Sessions,     (* Player objects                                    *)
          Accounts,     (* xuids                                             *)
          AccountOf     (* the account of each session                       *)

ASSUME ItemsAssumption ==
    /\ Slots \in Nat \ {0}
    /\ AccountOf \in [Sessions -> Accounts]
    /\ "air" \notin Items

VARIABLES
    inv,        (* the inventory of each session                             *)
    status,     (* "out", "online", "leaving" or "gone"                      *)
    ground,     (* items that are entities of the world                      *)
    picking,    (* collisions that wait for the despawn packets              *)
    file,       (* the inventory in the player data of each account          *)
    made,       (* history: items that exist                                 *)
    lost,       (* history: items that ceased to exist, and may              *)
    raced       (* history: items that two sessions got at, or whose account *)
                (* was logged in twice                                       *)

vars == <<inv, status, ground, picking, file, made, lost, raced>>

Air == "air"
SlotNumbers == 0 .. Slots

-----------------------------------------------------------------------------
(* Inventory.ts                                                            *)

\* Seeded fault: Map.set adds an entry for a slot that has one.
MapSetTwice(m, slot, item) == Append(m, [slot |-> slot, item |-> item])

\* Map.set: a slot keeps its place in the order.
MapSet(m, slot, item) ==
    IF \E n \in DOMAIN m : m[n].slot = slot
       THEN [n \in DOMAIN m |-> IF m[n].slot = slot THEN [slot |-> slot, item |-> item] ELSE m[n]]
       ELSE Append(m, [slot |-> slot, item |-> item])

Has(m, slot) == \E n \in DOMAIN m : m[n].slot = slot

\* setItem refuses a slot greater than the number of slots, which is one late.
Accepts(slot) == slot <= Slots
SetItem(m, slot, item) == IF Accepts(slot) THEN MapSet(m, slot, item) ELSE m

\* getItem: air for a slot without an entry.
GetItem(m, slot) ==
    IF Has(m, slot) THEN (CHOOSE e \in {m[n] : n \in DOMAIN m} : e.slot = slot).item ELSE Air

\* Seeded fault: removeItem leaves the entry.
RemoveItemNot(m, slot) == m

\* Map.delete: the entries after it move up in the order.
RemoveItem(m, slot) ==
    IF Has(m, slot) THEN RemoveAt(m, CHOOSE n \in DOMAIN m : m[n].slot = slot) ELSE m

\* The slots addItem takes for free: those that have no entry at all, not even air.
FreeSlots(m) == {i \in 0 .. Slots - 1 : ~Has(m, i)}

\* Seeded fault: addItem takes the first slot.
AddItemFirst(m, item) == SetItem(m, 0, item)

AddItem(m, item) ==
    IF FreeSlots(m) = {} THEN m
    ELSE SetItem(m, CHOOSE i \in FreeSlots(m) : \A j \in FreeSlots(m) : i <= j, item)

\* A new inventory has air in every slot.
NewInventory == [n \in 1 .. Slots |-> [slot |-> n - 1, item |-> Air]]

ItemsOf(entries) == {e.item : e \in entries} \ {Air}
ItemsIn(m) == ItemsOf(ToSet(m))

\* savePlayerData: each item under its place in the order of the Map, not under
\* its slot.
Saved(m) == {[slot |-> n - 1, item |-> m[n].item] : n \in {k \in DOMAIN m : m[k].item # Air}}

\* Seeded fault: the saved items are added, which takes slots without an entry,
\* and a new inventory has none.
RestoredAdding(saved) == NewInventory

\* Player.onEnable puts every saved item in a new inventory.  No two are saved
\* under one slot; one saved under the slot after the last makes an entry for it.
Restored(saved) ==
    LET taken == {e.slot : e \in saved}
        last == IF Slots \in taken THEN Slots + 1 ELSE Slots
        At(slot) == IF slot \in taken THEN (CHOOSE e \in saved : e.slot = slot).item ELSE Air
    IN  [n \in 1 .. last |-> [slot |-> n - 1, item |-> At(n - 1)]]

-----------------------------------------------------------------------------

Active(s) == status[s] \in {"online", "leaving"}
Exists(s) == status[s] # "out"

TypeOK ==
    /\ inv \in [Sessions -> Seq([slot : SlotNumbers, item : Items \cup {Air}])]
    /\ \A s \in Sessions : IsInjective([n \in DOMAIN inv[s] |-> inv[s][n].slot])
    /\ status \in [Sessions -> {"out", "online", "leaving", "gone"}]
    /\ ground \subseteq Items
    /\ picking \subseteq Sessions \X Items
    /\ file \in [Accounts -> SUBSET [slot : SlotNumbers, item : Items]]
    /\ \A a \in Accounts : \A e, f \in file[a] : e.slot = f.slot => e = f
    /\ made \subseteq Items /\ lost \subseteq Items
    /\ raced \subseteq Items

Init ==
    /\ inv = [s \in Sessions |-> NewInventory]
    /\ status = [s \in Sessions |-> "out"]
    /\ ground = {} /\ picking = {}
    /\ file = [a \in Accounts |-> {}]
    /\ made = {} /\ lost = {} /\ raced = {}

\* A block is broken or a plugin drops something.
Spawn(i) ==
    /\ i \notin made
    /\ made' = made \cup {i}
    /\ ground' = ground \cup {i}
    /\ UNCHANGED <<inv, status, picking, file, lost, raced>>

\* Entity.update of a player meets the item: onCollide up to the await of its
\* removal.  The item is still in the world, for other players too.
Collide(s, i) ==
    /\ Exists(s) /\ i \in ground /\ <<s, i>> \notin picking
    /\ picking' = picking \cup {<<s, i>>}
    /\ raced' = IF \E t \in Sessions : <<t, i>> \in picking THEN raced \cup {i} ELSE raced
    /\ UNCHANGED <<inv, status, ground, file, made, lost>>

\* onCollide after it: the item leaves the world and goes to the inventory.
PickUp(s, i) ==
    /\ <<s, i>> \in picking
    /\ picking' = picking \ {<<s, i>>}
    /\ ground' = ground \ {i}
    /\ inv' = [inv EXCEPT ![s] = AddItem(@, i)]
    /\ lost' = IF FreeSlots(inv[s]) = {} \/ ~Active(s) THEN lost \cup {i} ELSE lost
    /\ UNCHANGED <<status, file, made, raced>>

\* A transaction of one action that empties a slot and one that fills another.
\* What is in the other slot is replaced, also when the client merges stacks.
\* One that only fills slots (a swap, a split) changes nothing.
MoveItem(s, from, to) ==
    /\ status[s] = "online" /\ from # to
    /\ LET moved == GetItem(inv[s], from)
       IN /\ inv' = [inv EXCEPT ![s] = SetItem(RemoveItem(@, from), to, moved)]
          /\ lost' = lost \cup ({GetItem(inv[s], to)} \ {Air})
    /\ UNCHANGED <<status, ground, picking, file, made, raced>>

\* One that empties a slot, the item going to the world: that part is unknown.
DropItem(s, from) ==
    /\ status[s] = "online"
    /\ inv' = [inv EXCEPT ![s] = RemoveItem(@, from)]
    /\ lost' = lost \cup ({GetItem(inv[s], from)} \ {Air})
    /\ UNCHANGED <<status, ground, picking, file, made, raced>>

\* One from the creative window.
CreativeItem(s, i, to) ==
    /\ status[s] = "online" /\ i \notin made
    /\ made' = made \cup {i}
    /\ inv' = [inv EXCEPT ![s] = SetItem(@, to, i)]
    /\ lost' = lost \cup ({GetItem(inv[s], to)} \ {Air})
    /\ UNCHANGED <<status, ground, picking, file, raced>>

\* Player.onEnable: the inventory of the account is read from its file.
Login(s) ==
    /\ status[s] = "out"
    /\ status' = [status EXCEPT ![s] = "online"]
    /\ inv' = [inv EXCEPT ![s] = Restored(file[AccountOf[s]])]
    /\ raced' = raced \cup UNION {ItemsIn(inv[t]) \cup ItemsOf(file[AccountOf[t]]) :
                                    t \in {t \in Sessions : AccountOf[t] = AccountOf[s] /\ Active(t)}}
    /\ UNCHANGED <<ground, picking, file, made, lost>>

\* The session closed; its handler waits for packets before Player.onDisable.
Leave(s) ==
    /\ status[s] = "online"
    /\ status' = [status EXCEPT ![s] = "leaving"]
    /\ UNCHANGED <<inv, ground, picking, file, made, lost, raced>>

\* What the file holds and the session does not is gone with the older data.
SavePlayerData(S) ==
    file' = [a \in Accounts |->
        IF \E s \in S : AccountOf[s] = a
           THEN Saved(inv[CHOOSE s \in S : AccountOf[s] = a]) ELSE file[a]]

Twice(s) == \E t \in Sessions \ {s} : AccountOf[t] = AccountOf[s] /\ Active(t)

\* Player.onDisable
Disable(s) ==
    /\ status[s] = "leaving"
    /\ status' = [status EXCEPT ![s] = "gone"]
    /\ SavePlayerData({s})
    /\ raced' = IF Twice(s) THEN raced \cup ItemsIn(inv[s]) \cup ItemsOf(file[AccountOf[s]]) ELSE raced
    /\ UNCHANGED <<inv, ground, picking, made, lost>>

\* World.save, which saves every online player.
SaveAll(s) ==
    /\ status[s] = "online"
    /\ SavePlayerData({s})
    /\ raced' = IF Twice(s) THEN raced \cup ItemsIn(inv[s]) \cup ItemsOf(file[AccountOf[s]]) ELSE raced
    /\ UNCHANGED <<inv, status, ground, picking, made, lost>>

Next ==
    \/ \E i \in Items : Spawn(i)
    \/ \E s \in Sessions, i \in Items : Collide(s, i) \/ PickUp(s, i)
    \/ \E s \in Sessions, i, j \in SlotNumbers : MoveItem(s, i, j)
    \/ \E s \in Sessions, i \in SlotNumbers : DropItem(s, i)
    \/ \E s \in Sessions, i \in Items, j \in SlotNumbers : CreativeItem(s, i, j)
    \/ \E s \in Sessions : Login(s) \/ Leave(s) \/ Disable(s) \/ SaveAll(s)

Spec == Init /\ [][Next]_vars

-----------------------------------------------------------------------------
(* Properties                                                              *)

\* An item is on the ground or in one slot of one player that plays, unless two
\* players collided with it at once or its account was logged in twice.
NoItemTwice ==
    \A i \in made \ raced :
        Cardinality({s \in Sessions : Active(s) /\ i \in ItemsIn(inv[s])}
                        \cup {g \in {"ground"} : i \in ground}) <= 1
        /\ \A s \in Sessions : Cardinality({n \in DOMAIN inv[s] : inv[s][n].item = i}) <= 1

\* The ways an item may vanish are those named in `lost': replaced by a move,
\* thrown away, picked up without a slot that has no entry, or picked up by a
\* player that left.  Otherwise it is on the ground, with a player that plays,
\* or in the file of an account that does not play.
ItemsAreAccountedFor ==
    \A i \in made \ (lost \cup raced) :
        \/ i \in ground
        \/ \E s \in Sessions : Active(s) /\ i \in ItemsIn(inv[s])
        \/ \E a \in Accounts : /\ i \in ItemsOf(file[a])
                               /\ \A s \in Sessions : AccountOf[s] = a => ~Active(s)

\* Whatever was set and removed, a save and a load bring every item back, though
\* not to its slot: the places in the file are those of the Map's order.
SavingKeepsItems ==
    \A s \in Sessions : ItemsIn(Restored(Saved(inv[s]))) = ItemsIn(inv[s])

=============================================================================
