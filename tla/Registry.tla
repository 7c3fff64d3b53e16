------------------------------ MODULE Registry ------------------------------
(***************************************************************************)
(* BlockManager and ItemManager: the maps of registered blocks and items,  *)
(* filled when the server is enabled and cleared when it is disabled.      *)
(*                                                                         *)
(* Each registration checks, emits an event, waits for the plugins that    *)
(* handle it, and then sets its entries, unless a handler cancelled it.    *)
(* All registrations of an import run together, and a plugin may register  *)
(* a block of its own beside them.  Without a handler the entries are set  *)
(* in the run of the import, in the order of the export list.              *)
(*                                                                         *)
(* The lists of the classes are parameters; the catalogues give them.      *)
(***************************************************************************)
EXTENDS BlockClasses, SequencesExt

CONSTANTS
    ItemList, BlockList,        \* what the server registers, in the order of the export lists
    LateItems, LateBlocks,      \* what a plugin's handler is slow about
    CustomBlocks,               \* blocks that plugins register when they are enabled
    MaxReloads, MaxCancelled    \* bounds

\* The entries of a list with their places in it.
Places(list) == {[at |-> n, entry |-> list[n]] : n \in DOMAIN list}
ItemPlaces == Places(ItemList)
BlockPlaces == Places(BlockList)

Imported == ToSet(BlockList)
ImportedItems == ToSet(ItemList)

\* Two pairs of item classes share a name, and two items that blocks leave have no
\* class.
SharedNames == {"diamond_chestplate", "wooden_hoe"}
UnknownItems == {"bed", "coal"}

\* What the lists have to be: no two blocks share a name, or an id and a meta
\* value; items have ids of their own, and names of their own but those two; and
\* what a block leaves is in one of the lists.
ASSUME CatalogueAssumption ==
    /\ \A b, c \in Imported : b # c => b.name # c.name /\ (b.id # c.id \/ b.meta # c.meta)
    /\ \A i, j \in ImportedItems : i # j => i.id # j.id /\ (i.name # j.name \/ i.name \in SharedNames)
    /\ \A i \in ImportedItems, b \in Imported : i.name # b.name /\ i.id # b.id
    /\ \A b \in Imported : \A drops \in b.drops : \A d \in ToSet(drops) :
           \/ d.of = "this"
           \/ d.of = "block" /\ \E c \in Imported : c.name = d.name
           \/ d.of = "item" /\ (d.name \in UnknownItems \/ \E i \in ImportedItems : i.name = d.name)

ASSUME RegistryAssumption ==
    /\ DOMAIN ItemList = 1 .. Len(ItemList) /\ Len(ItemList) \in Nat
    /\ DOMAIN BlockList = 1 .. Len(BlockList) /\ Len(BlockList) \in Nat
    /\ LateItems \subseteq ImportedItems /\ LateBlocks \subseteq Imported
    /\ MaxReloads \in Nat /\ MaxCancelled \in Nat

VARIABLES
    phase,          \* "plugins", "items", "blocks", "on", or "failed": how far onEnable is
    items,          \* ItemManager.items
    blocks,         \* BlockManager.blocks
    javaBlocks,     \* BlockManager.javaBlocks
    waiting,        \* the registrations that wait for handlers
    offered,        \* the plugins' blocks still to be registered
    reloads,
    cancelled,      \* history: names whose registration was cancelled
    raced           \* history: <<id, meta>> that two registrations waited with at once

vars == <<phase, items, blocks, javaBlocks, waiting, offered, reloads, cancelled, raced>>

-----------------------------------------------------------------------------

\* A Map is the set of its entries, at most one of each name.
SetOne(map, entry) == {e \in map : e.name # entry.name} \cup {entry}

\* Entries of a list set one after the other in one run: the last one of a name
\* stays.
SetAll(map, places) ==
    LET last == {p \in places : \A q \in places : q.at > p.at => q.entry.name # p.entry.name}
        names == {p.entry.name : p \in places}
    IN  {e \in map : e.name \notin names} \cup {p.entry : p \in last}
JavaEntry(block) == [name |-> block.javaName, block |-> block]

\* The lookups give the set of the entries that fit: where it is empty the code
\* throws or gives undefined, and where it has two, the one that came first.
OrElse(found, other) == IF found = {} THEN other ELSE found

GetItem(name) == {i \in items : i.name = name}
GetItemById(id) == {i \in items : i.id = id}
GetBlock(name) == OrElse({b \in blocks : b.name = name}, {e.block : e \in {f \in javaBlocks : f.name = name}})
GetBlockByIdAndMeta(id, meta) == {b \in blocks : b.id = id /\ b.meta = meta}

\* What a saved inventory's entry is loaded as, and what a click in the creative
\* inventory gives.
LoadedEntry(name) == OrElse(GetItem(name), GetBlock(name))
CreativeEntry(id, meta) == OrElse(GetItemById(id), GetBlockByIdAndMeta(id, meta))

-----------------------------------------------------------------------------

Init ==
    /\ phase = "plugins"
    /\ items = {} /\ blocks = {} /\ javaBlocks = {}
    /\ waiting = {} /\ offered = CustomBlocks
    /\ reloads = 0
    /\ cancelled = {} /\ raced = {}

WaitingBlocks == {w.entry : w \in {v \in waiting : v.kind # "item"}}
Waiting(kind) == {w \in waiting : w.kind = kind}

\* Seeded fault: nothing waits for the registrations.
RegisteredAtOnce(kind) == TRUE

\* The await of all registrations of an import.
Registered(kind) == Waiting(kind) = {}

\* Seeded fault: the check looks for the name.
TakenByName(block) == \E b \in blocks : b.name = block.name

\* The check of registerBlock; the name is looked up too, without a consequence.
Taken(block) == GetBlockByIdAndMeta(block.id, block.meta) # {}

\* itemManager.onEnable.
ImportItems ==
    /\ phase = "plugins"
    /\ phase' = "items"
    /\ items' = SetAll(items, {p \in ItemPlaces : p.entry \notin LateItems})
    /\ waiting' = waiting \cup {[kind |-> "item", entry |-> i] : i \in LateItems}
    /\ UNCHANGED <<blocks, javaBlocks, offered, reloads, cancelled, raced>>

\* blockManager.onEnable, once every item is registered.  All checks come before
\* the first entry is set; one that throws makes the whole import reject, while
\* the other registrations go on.
ImportBlocks ==
    /\ phase = "items" /\ Registered("item")
    /\ LET free == {p \in BlockPlaces : ~Taken(p.entry)}
           now == {p \in free : p.entry \notin LateBlocks}
       IN  /\ phase' = IF free = BlockPlaces THEN "blocks" ELSE "failed"
           /\ blocks' = SetAll(blocks, now)
           /\ javaBlocks' = SetAll(javaBlocks, {[at |-> p.at, entry |-> JavaEntry(p.entry)] : p \in now})
           /\ waiting' = waiting \cup {[kind |-> "block", entry |-> p.entry] : p \in free \ now}
           /\ raced' = raced \cup {<<b.id, b.meta>> : b \in {c \in WaitingBlocks :
                                    \E p \in free : p.entry.id = c.id /\ p.entry.meta = c.meta}}
    /\ UNCHANGED <<items, offered, reloads, cancelled>>

Enabled ==
    /\ phase = "blocks" /\ Registered("block")
    /\ phase' = "on"
    /\ UNCHANGED <<items, blocks, javaBlocks, waiting, offered, reloads, cancelled, raced>>

\* A plugin calls registerBlock.
RegisterBlock(block) ==
    /\ block \in offered /\ phase # "failed"
    /\ offered' = offered \ {block}
    /\ \/ Taken(block) /\ UNCHANGED <<waiting, raced>>
       \/ /\ ~Taken(block)
          /\ waiting' = waiting \cup {[kind |-> "custom", entry |-> block]}
          /\ raced' = raced \cup {<<b.id, b.meta>> : b \in {c \in WaitingBlocks : c.id = block.id /\ c.meta = block.meta}}
    /\ UNCHANGED <<phase, items, blocks, javaBlocks, reloads, cancelled>>

FinishItem(w) ==
    /\ w \in Waiting("item")
    /\ waiting' = waiting \ {w}
    /\ items' = SetOne(items, w.entry)
    /\ UNCHANGED <<phase, blocks, javaBlocks, offered, reloads, cancelled, raced>>

FinishBlock(w) ==
    /\ w \in waiting /\ w.kind # "item"
    /\ waiting' = waiting \ {w}
    /\ blocks' = SetOne(blocks, w.entry)
    /\ javaBlocks' = SetOne(javaBlocks, JavaEntry(w.entry))
    /\ UNCHANGED <<phase, items, offered, reloads, cancelled, raced>>

\* The handler cancelled the event.
Cancel(w) ==
    /\ w \in waiting /\ Cardinality(cancelled) < MaxCancelled
    /\ waiting' = waiting \ {w}
    /\ cancelled' = cancelled \cup {w.entry.name}
    /\ UNCHANGED <<phase, items, blocks, javaBlocks, offered, reloads, raced>>

\* onDisable, and onEnable up to the plugins, which register their blocks again.
\* The Java names are not cleared.
Reload ==
    /\ phase = "on" /\ reloads < MaxReloads
    /\ reloads' = reloads + 1
    /\ phase' = "plugins"
    /\ items' = {} /\ blocks' = {}
    /\ offered' = CustomBlocks
    /\ UNCHANGED <<javaBlocks, waiting, cancelled, raced>>

Next ==
    \/ ImportItems \/ ImportBlocks \/ Enabled \/ Reload
    \/ \E b \in CustomBlocks : RegisterBlock(b)
    \/ \E w \in waiting : FinishItem(w) \/ FinishBlock(w) \/ Cancel(w)

Spec == Init /\ [][Next]_vars

-----------------------------------------------------------------------------

\* registerBlock refuses a block whose numeric id and meta value are taken.  Two
\* entries share them only when both registrations waited for handlers at once:
\* the check comes before the wait and the entry after it.
OneBlockPerId ==
    \A b, c \in blocks : b.id = c.id /\ b.meta = c.meta => b = c \/ <<b.id, b.meta>> \in raced

BlocksAreFound ==
    \A b \in Imported :
        \/ GetBlockByIdAndMeta(b.id, b.meta) = {b} /\ LoadedEntry(b.name) = {b} /\ CreativeEntry(b.id, b.meta) = {b}
        \/ <<b.id, b.meta>> \in raced \/ \E c \in CustomBlocks : c.name = b.name
        \/ b.name \in cancelled

ItemsAreFound ==
    \A i \in ImportedItems :
        \/ LoadedEntry(i.name) = {i} /\ CreativeEntry(i.id, 0) = {i}
        \/ i.name \in SharedNames \cup cancelled

\* A name that is found leads to a block that chunks can hold.  Otherwise it came
\* in beside another with its id, or only the Java names still have it: a reload
\* does not clear them, and a plugin's block that takes a name leaves them.
NamesLeadToBlocks ==
    \A name \in {b.name : b \in Imported \cup CustomBlocks} :
        \A b \in GetBlock(name) :
            \/ GetBlockByIdAndMeta(b.id, b.meta) = {b}
            \/ <<b.id, b.meta>> \in raced
            \/ b \notin blocks /\ (reloads > 0 \/ \E c \in CustomBlocks : c.name = b.name)

\* A block or item of the server is found by the name that saved inventories hold
\* and by the click in the creative inventory, and a block by the id and meta value
\* that chunks hold, as what it is; and a name leads to such a block.  Otherwise a
\* plugin's block took its name, which nothing refuses, or came in beside it under
\* its id; or its registration was cancelled; or it is one of the four item classes
\* that share two names, of which the one registered last is found.
EntriesAreFound == phase = "on" => BlocksAreFound /\ ItemsAreFound /\ NamesLeadToBlocks

\* The bare hand, and the kinds of tools there are.
Tools == {{}} \cup {{[tool |-> i.tool, level |-> i.level]} : i \in items}

\* Whatever breaks a block, what it leaves is registered.  Only beds and coal ore
\* name items that no class has, and leave nothing.
DropsAreRegistered ==
    phase = "on" =>
        \A b \in Imported, tool \in Tools :
            \A drops \in GetDrops(b, tool) : \A d \in ToSet(drops) :
                \/ d.of = "this"
                \/ d.of = "block" /\ (GetBlock(d.name) # {} \/ d.name \in cancelled)
                \/ d.of = "item" /\ (GetItem(d.name) # {} \/ d.name \in cancelled \cup UnknownItems)

=============================================================================
