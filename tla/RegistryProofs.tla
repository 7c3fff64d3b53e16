---------------------------- MODULE RegistryProofs ----------------------------
(***************************************************************************)
(* What Registry guarantees for any lists of classes that are like the     *)
(* catalogues (CatalogueAssumption), any blocks of plugins, and whatever   *)
(* handlers are slow about or cancel.                                      *)
(***************************************************************************)
EXTENDS Registry, WellFoundedInduction, NaturalsInduction, TLAPS

UniqueNames(entries) == \A e, f \in entries : e.name = f.name => e = f

-----------------------------------------------------------------------------
(* Maps                                                                    *)

LEMMA LeastNumber ==
    ASSUME NEW S, S \subseteq Nat, S # {}
    PROVE  \E i \in S : \A j \in S : i <= j
<1> DEFINE less == {p \in Nat \X Nat : p[1] < p[2]}
<1>1. IsWellFoundedOn(less, Nat)
  BY NatLessThanWellFounded DEF OpToRel
<1>2. \E i \in S : \A j \in S : ~(<<j, i>> \in less)
  BY <1>1, WFMin
<1>3. ASSUME NEW i \in S, NEW j \in S, <<j, i>> \notin less PROVE i <= j
  <2>1. i \in Nat /\ j \in Nat /\ ~(j < i)
    BY <1>3
  <2> QED
    BY <2>1
<1> HIDE DEF less
<1> QED
  BY <1>2, <1>3

LEMMA GreatestNumber ==
    ASSUME NEW n \in Nat, NEW S, S \subseteq 1 .. n, S # {}
    PROVE  \E i \in S : \A j \in S : j <= i
<1> DEFINE T == {n - i : i \in S}
<1>1. T \subseteq Nat /\ T # {}
  <2>1. \A i \in S : n - i \in Nat
    OBVIOUS
  <2> QED
    BY <2>1
<1>2. PICK t \in T : \A u \in T : t <= u
  BY <1>1, LeastNumber
<1>3. PICK i \in S : t = n - i
  OBVIOUS
<1>4. ASSUME NEW j \in S PROVE j <= i
  <2>1. n - i <= n - j
    BY <1>2, <1>3
  <2> QED
    BY <2>1
<1> QED
  BY <1>4

\* Entries of a list: no place has two.
Listed(places) ==
    /\ \E n \in Nat : \A p \in places : p.at \in 1 .. n
    /\ \A p, q \in places : p.at = q.at => p.entry = q.entry

LEMMA ListsAreListed ==
    /\ \A places : places \subseteq ItemPlaces \/ places \subseteq BlockPlaces => Listed(places)
    /\ {p.entry : p \in ItemPlaces} = ImportedItems
    /\ {p.entry : p \in BlockPlaces} = Imported
<1>1. ASSUME NEW list, DOMAIN list = 1 .. Len(list), Len(list) \in Nat
      PROVE  /\ \A places : places \subseteq Places(list) => Listed(places)
             /\ {p.entry : p \in Places(list)} = ToSet(list)
  <2>1. ASSUME NEW places, places \subseteq Places(list) PROVE Listed(places)
    <3>1. \A p \in places : p.at \in 1 .. Len(list) /\ p.entry = list[p.at]
      BY <1>1, <2>1 DEF Places
    <3> QED
      BY <1>1, <3>1 DEF Listed
  <2>2. {p.entry : p \in Places(list)} \subseteq ToSet(list)
    BY DEF Places, ToSet
  <2>3. ASSUME NEW n \in DOMAIN list PROVE list[n] \in {p.entry : p \in Places(list)}
    <3>1. [at |-> n, entry |-> list[n]] \in Places(list)
      BY DEF Places
    <3> QED
      BY <3>1
  <2> QED
    BY <2>1, <2>2, <2>3 DEF ToSet
<1> QED
  BY <1>1, RegistryAssumption DEF ItemPlaces, BlockPlaces, Imported, ImportedItems

\* Of the entries set in one run, one of each name stays, and of those that were
\* there, the ones whose names are not set.
LEMMA SetAllProperties ==
    ASSUME NEW map, NEW places, Listed(places)
    PROVE  /\ SetAll(map, places) \subseteq map \cup {p.entry : p \in places}
           /\ \A e \in map : (\A p \in places : p.entry.name # e.name) => e \in SetAll(map, places)
           /\ \A p \in places : \E q \in places :
                  q.entry.name = p.entry.name /\ q.entry \in SetAll(map, places)
           /\ UniqueNames(map) => UniqueNames(SetAll(map, places))
<1> DEFINE last == {p \in places : \A q \in places : q.at > p.at => q.entry.name # p.entry.name}
           names == {p.entry.name : p \in places}
           new == {e \in map : e.name \notin names} \cup {p.entry : p \in last}
<1>1. SetAll(map, places) = new
  BY DEF SetAll
<1>2. PICK n \in Nat : \A p \in places : p.at \in 1 .. n
  BY DEF Listed
<1>3. ASSUME NEW p \in places PROVE \E q \in last : q.entry.name = p.entry.name
  <2> DEFINE S == {q.at : q \in {r \in places : r.entry.name = p.entry.name}}
  <2>1. S \subseteq 1 .. n /\ p.at \in S
    BY <1>2
  <2> HIDE DEF S
  <2>2. PICK k \in S : \A j \in S : j <= k
    BY <2>1, GreatestNumber
  <2>3. PICK q \in places : q.at = k /\ q.entry.name = p.entry.name
    BY <2>2 DEF S
  <2>4. ASSUME NEW r \in places, r.at > q.at, r.entry.name = q.entry.name PROVE FALSE
    <3>1. r.at \in S
      BY <2>3, <2>4 DEF S
    <3>2. r.at <= q.at /\ r.at \in Nat /\ q.at \in Nat
      BY <1>2, <2>2, <2>3, <3>1
    <3> QED
      BY <2>4, <3>2
  <2> QED
    BY <2>3, <2>4
<1>4. ASSUME UniqueNames(map), NEW e \in new, NEW f \in new, e.name = f.name PROVE e = f
  <2>1. CASE e \in map /\ e.name \notin names
    <3>1. f \in map
      BY <1>4, <2>1
    <3> QED
      BY <1>4, <2>1, <3>1 DEF UniqueNames
  <2>2. CASE f \in map /\ f.name \notin names
    <3>1. e \in map
      BY <1>4, <2>2
    <3> QED
      BY <1>4, <2>2, <3>1 DEF UniqueNames
  <2>3. CASE (\E p \in last : e = p.entry) /\ (\E q \in last : f = q.entry)
    <3>1. PICK p \in last, q \in last : e = p.entry /\ f = q.entry
      BY <2>3
    <3>2. ~(p.at > q.at) /\ ~(q.at > p.at) /\ p.at \in Nat /\ q.at \in Nat
      BY <1>2, <1>4, <3>1
    <3>3. p.at = q.at
      BY <3>2
    <3> QED
      BY <3>1, <3>3 DEF Listed
  <2> QED
    BY <2>1, <2>2, <2>3
<1>5. \A p \in places : \E q \in places : q.entry.name = p.entry.name /\ q.entry \in new
  BY <1>3
<1>6. new \subseteq map \cup {p.entry : p \in places}
  OBVIOUS
<1>7. \A e \in map : (\A p \in places : p.entry.name # e.name) => e \in new
  OBVIOUS
<1> HIDE DEF new
<1> QED
  BY <1>1, <1>4, <1>5, <1>6, <1>7 DEF UniqueNames

LEMMA SetOneProperties ==
    ASSUME NEW map, NEW entry
    PROVE  /\ SetOne(map, entry) \subseteq map \cup {entry} /\ entry \in SetOne(map, entry)
           /\ \A e \in map : e \in SetOne(map, entry) \/ e.name = entry.name
           /\ UniqueNames(map) => UniqueNames(SetOne(map, entry))
BY DEF SetOne, UniqueNames

-----------------------------------------------------------------------------
(* The inductive invariant                                                 *)

\* A plugin's block has the name.
NameTaken(name) == \E c \in CustomBlocks : c.name = name

Typed ==
    /\ phase \in {"plugins", "items", "blocks", "on", "failed"} /\ reloads \in Nat
    /\ items \subseteq ImportedItems /\ UniqueNames(items)
    /\ blocks \subseteq Imported \cup CustomBlocks /\ UniqueNames(blocks)
    /\ \A w \in waiting : \/ w.kind = "item" /\ w.entry \in ImportedItems
                          \/ w.kind = "block" /\ w.entry \in Imported
                          \/ w.kind = "custom" /\ w.entry \in CustomBlocks
    /\ phase # "items" => Waiting("item") = {}
    /\ phase \in {"plugins", "items", "on"} => Waiting("block") = {}

\* No block in the map or on its way there has the id of another, but those that
\* waited together.
IdsAreTaken ==
    \A x, y \in blocks \cup WaitingBlocks :
        x.id = y.id /\ x.meta = y.meta => x = y \/ <<x.id, x.meta>> \in raced

\* From its import on, an item is registered, waits or was cancelled, or another
\* took its name, which is then in the map.
ItemsAreKept ==
    phase \in {"items", "blocks", "on"} =>
        \A i \in ImportedItems :
            \/ \E w \in Waiting("item") : w.entry = i
            \/ i.name \in cancelled
            \/ /\ \E j \in items : j.name = i.name
               /\ i \in items \/ i.name \in SharedNames

BlocksAreKept ==
    phase \in {"blocks", "on"} =>
        \A b \in Imported :
            \/ \E w \in Waiting("block") : w.entry = b
            \/ b.name \in cancelled
            \/ /\ \E c \in blocks : c.name = b.name
               /\ b \in blocks \/ NameTaken(b.name)

\* A Java name leads to a block that is registered, but after a reload and when
\* the block's own name was taken.
JavaNamesAreKept ==
    \A f \in javaBlocks :
        /\ f.block \in Imported \cup CustomBlocks
        /\ f.block \in blocks \/ reloads > 0 \/ NameTaken(f.block.name)

RegistryInv == Typed /\ IdsAreTaken /\ ItemsAreKept /\ BlocksAreKept /\ JavaNamesAreKept

LEMMA RegistryInit == Init => RegistryInv
BY DEF Init, RegistryInv, Typed, UniqueNames, Waiting, WaitingBlocks, IdsAreTaken, ItemsAreKept,
       BlocksAreKept, JavaNamesAreKept

-----------------------------------------------------------------------------
(* The steps                                                               *)

LEMMA ImportItemsStep == RegistryInv /\ ImportItems => RegistryInv'
<1> SUFFICES ASSUME RegistryInv, ImportItems PROVE RegistryInv'
  OBVIOUS
<1> DEFINE now == {p \in ItemPlaces : p.entry \notin LateItems}
<1>1. /\ phase = "plugins" /\ phase' = "items" /\ items' = SetAll(items, now)
      /\ waiting' = waiting \cup {[kind |-> "item", entry |-> i] : i \in LateItems}
      /\ UNCHANGED <<blocks, javaBlocks, offered, reloads, cancelled, raced>>
  BY DEF ImportItems
<1>2. Listed(now) /\ {p.entry : p \in now} = ImportedItems \ LateItems
  BY ListsAreListed
<1> HIDE DEF now
<1>3. /\ items' \subseteq items \cup {p.entry : p \in now}
      /\ \A p \in now : \E q \in now : q.entry.name = p.entry.name /\ q.entry \in items'
      /\ UniqueNames(items')
  BY <1>1, <1>2, SetAllProperties DEF RegistryInv, Typed
<1>4. Waiting("block")' = Waiting("block") /\ WaitingBlocks' = WaitingBlocks
  BY <1>1 DEF Waiting, WaitingBlocks
<1>5. Typed'
  BY <1>1, <1>2, <1>3, <1>4, RegistryAssumption DEF RegistryInv, Typed
<1>6. IdsAreTaken'
  BY <1>1, <1>4 DEF RegistryInv, IdsAreTaken
<1>7. ASSUME NEW i \in ImportedItems
      PROVE  \/ \E w \in Waiting("item")' : w.entry = i
             \/ /\ \E j \in items' : j.name = i.name
                /\ i \in items' \/ i.name \in SharedNames
  <2>1. CASE i \in LateItems
    <3>1. [kind |-> "item", entry |-> i] \in waiting'
      BY <1>1, <2>1
    <3> QED
      BY <3>1 DEF Waiting
  <2>2. CASE i \notin LateItems
    <3>1. PICK p \in now : p.entry = i
      BY <1>2, <2>2
    <3>2. PICK q \in now : q.entry.name = i.name /\ q.entry \in items'
      BY <1>3, <3>1
    <3>3. q.entry = i \/ i.name \in SharedNames
      BY <1>2, <3>2, CatalogueAssumption
    <3> QED
      BY <3>2, <3>3
  <2> QED
    BY <2>1, <2>2
<1>8. ItemsAreKept'
  BY <1>7 DEF ItemsAreKept
<1> QED
  BY <1>1, <1>5, <1>6, <1>8 DEF RegistryInv, BlocksAreKept, JavaNamesAreKept

LEMMA ImportBlocksStep == RegistryInv /\ ImportBlocks => RegistryInv'
<1> SUFFICES ASSUME RegistryInv, ImportBlocks PROVE RegistryInv'
  OBVIOUS
<1> DEFINE free == {p \in BlockPlaces : ~Taken(p.entry)}
           now == {p \in free : p.entry \notin LateBlocks}
           java == {[at |-> p.at, entry |-> JavaEntry(p.entry)] : p \in now}
<1>1. /\ phase = "items" /\ Waiting("item") = {}
      /\ phase' = IF free = BlockPlaces THEN "blocks" ELSE "failed"
      /\ blocks' = SetAll(blocks, now) /\ javaBlocks' = SetAll(javaBlocks, java)
      /\ waiting' = waiting \cup {[kind |-> "block", entry |-> p.entry] : p \in free \ now}
      /\ raced' = raced \cup {<<b.id, b.meta>> : b \in {c \in WaitingBlocks :
                                  \E p \in free : p.entry.id = c.id /\ p.entry.meta = c.meta}}
      /\ UNCHANGED <<items, offered, reloads, cancelled>>
  BY DEF ImportBlocks, Registered
<1>2. Listed(now) /\ {p.entry : p \in free} \subseteq Imported
  BY ListsAreListed
<1>3. Listed(java)
  BY <1>2 DEF Listed
<1>4. \A p \in free : \A b \in blocks : ~(b.id = p.entry.id /\ b.meta = p.entry.meta)
  BY DEF Taken, GetBlockByIdAndMeta
<1>5. free = BlockPlaces => {p.entry : p \in free} = Imported
  BY ListsAreListed
<1>6. now \subseteq free /\ \A p \in free : p \in now \/ p.entry \in LateBlocks
  OBVIOUS
<1>7. \A f \in java : \E p \in now : f.entry = JavaEntry(p.entry)
  OBVIOUS
<1> HIDE DEF free, now, java
<1>8. /\ blocks' \subseteq blocks \cup {p.entry : p \in now}
      /\ \A e \in blocks : (\A p \in now : p.entry.name # e.name) => e \in blocks'
      /\ \A p \in now : \E q \in now : q.entry.name = p.entry.name /\ q.entry \in blocks'
      /\ UniqueNames(blocks')
  BY <1>1, <1>2, SetAllProperties DEF RegistryInv, Typed
<1>9. javaBlocks' \subseteq javaBlocks \cup {f.entry : f \in java}
  BY <1>1, <1>3, SetAllProperties
<1>10. \A p \in now : p.entry \in blocks' /\ p.entry \in Imported
  BY <1>2, <1>6, <1>8, CatalogueAssumption
<1>11. \A w \in waiting' : w \in waiting \/ \E p \in free : w = [kind |-> "block", entry |-> p.entry]
  BY <1>1
<1>12. WaitingBlocks' \subseteq WaitingBlocks \cup {p.entry : p \in free}
  BY <1>11 DEF WaitingBlocks
<1>13. Waiting("item")' = {}
  BY <1>1, <1>11 DEF Waiting
<1>14. Typed'
  <2>1. blocks' \subseteq Imported \cup CustomBlocks
    BY <1>2, <1>6, <1>8 DEF RegistryInv, Typed
  <2>2. \A w \in waiting' : \/ w.kind = "item" /\ w.entry \in ImportedItems
                            \/ w.kind = "block" /\ w.entry \in Imported
                            \/ w.kind = "custom" /\ w.entry \in CustomBlocks
    BY <1>2, <1>11 DEF RegistryInv, Typed
  <2>3. phase' \in {"blocks", "failed"}
    BY <1>1
  <2> QED
    BY <1>1, <1>8, <1>13, <2>1, <2>2, <2>3 DEF RegistryInv, Typed
<1>15. IdsAreTaken'
  <2> SUFFICES ASSUME NEW x \in blocks' \cup WaitingBlocks', NEW y \in blocks' \cup WaitingBlocks',
                      x.id = y.id, x.meta = y.meta, x # y
               PROVE  <<x.id, x.meta>> \in raced'
    BY DEF IdsAreTaken
  <2>1. /\ x \in blocks \cup WaitingBlocks \/ \E p \in free : x = p.entry
        /\ y \in blocks \cup WaitingBlocks \/ \E p \in free : y = p.entry
    BY <1>6, <1>8, <1>12
  <2>2. CASE x \in blocks \cup WaitingBlocks /\ y \in blocks \cup WaitingBlocks
    BY <1>1, <2>2 DEF RegistryInv, IdsAreTaken
  <2>3. CASE (\E p \in free : x = p.entry) /\ (\E p \in free : y = p.entry)
    BY <1>2, <2>3, CatalogueAssumption
  <2>4. CASE x \in blocks \cup WaitingBlocks /\ \E p \in free : y = p.entry
    <3>1. x \in WaitingBlocks
      BY <1>4, <2>4
    <3> QED
      BY <1>1, <2>4, <3>1
  <2>5. CASE y \in blocks \cup WaitingBlocks /\ \E p \in free : x = p.entry
    <3>1. y \in WaitingBlocks
      BY <1>4, <2>5
    <3>2. <<y.id, y.meta>> \in raced'
      BY <1>1, <2>5, <3>1
    <3> QED
      BY <3>2
  <2> QED
    BY <2>1, <2>2, <2>3, <2>4, <2>5
<1>16. ItemsAreKept'
  BY <1>1 DEF RegistryInv, ItemsAreKept
<1>17. ASSUME phase' \in {"blocks", "on"}, NEW b \in Imported
       PROVE  (\E w \in Waiting("block")' : w.entry = b) \/ b \in blocks'
  <2>1. PICK p \in free : p.entry = b
    BY <1>1, <1>5, <1>17
  <2>2. CASE p \in now
    BY <1>10, <2>1, <2>2
  <2>3. CASE p \notin now
    <3>1. [kind |-> "block", entry |-> b] \in waiting'
      BY <1>1, <2>1, <2>3
    <3> QED
      BY <3>1 DEF Waiting
  <2> QED
    BY <2>2, <2>3
<1>18. BlocksAreKept'
  BY <1>17 DEF BlocksAreKept
<1>19. ASSUME NEW f \in javaBlocks'
       PROVE  /\ f.block \in Imported \cup CustomBlocks
              /\ f.block \in blocks' \/ reloads' > 0 \/ NameTaken(f.block.name)
  <2>1. CASE f \in javaBlocks
    <3>1. /\ f.block \in Imported \cup CustomBlocks
          /\ f.block \in blocks \/ reloads > 0 \/ NameTaken(f.block.name)
      BY <2>1 DEF RegistryInv, JavaNamesAreKept
    <3>2. CASE f.block \in blocks /\ f.block \notin blocks'
      <4>1. PICK p \in now : p.entry.name = f.block.name
        BY <1>8, <3>2
      <4>2. f.block \in CustomBlocks \/ p.entry = f.block
        BY <1>10, <3>1, <4>1, CatalogueAssumption
      <4> QED
        BY <1>10, <3>1, <3>2, <4>2 DEF NameTaken
    <3> QED
      BY <1>1, <3>1, <3>2
  <2>2. CASE f \notin javaBlocks
    <3>1. PICK p \in now : f = JavaEntry(p.entry)
      BY <1>7, <1>9, <2>2
    <3>2. f.block = p.entry
      BY <3>1 DEF JavaEntry
    <3> QED
      BY <1>10, <3>2
  <2> QED
    BY <2>1, <2>2
<1>20. JavaNamesAreKept'
  BY <1>19 DEF JavaNamesAreKept
<1> QED
  BY <1>14, <1>15, <1>16, <1>18, <1>20 DEF RegistryInv

LEMMA RegisterBlockStep ==
    ASSUME RegistryInv, NEW block \in CustomBlocks, RegisterBlock(block)
    PROVE  RegistryInv'
<1>1. /\ UNCHANGED <<phase, items, blocks, javaBlocks, reloads, cancelled>>
      /\ raced \subseteq raced'
      /\ \A w \in waiting' : w \in waiting \/ w = [kind |-> "custom", entry |-> block]
      /\ waiting \subseteq waiting'
  BY DEF RegisterBlock
<1>2. Waiting("item")' = Waiting("item") /\ Waiting("block")' = Waiting("block")
  BY <1>1 DEF Waiting
<1>3. Typed'
  BY <1>1, <1>2 DEF RegistryInv, Typed
<1>4. IdsAreTaken'
  <2>1. CASE UNCHANGED <<waiting, raced>>
    BY <1>1, <2>1 DEF RegistryInv, IdsAreTaken, WaitingBlocks
  <2>2. CASE /\ ~Taken(block)
             /\ raced' = raced \cup {<<b.id, b.meta>> :
                             b \in {c \in WaitingBlocks : c.id = block.id /\ c.meta = block.meta}}
    <3>1. WaitingBlocks' \subseteq WaitingBlocks \cup {block}
      BY <1>1 DEF WaitingBlocks
    <3>2. \A x \in blocks : ~(x.id = block.id /\ x.meta = block.meta)
      BY <2>2 DEF Taken, GetBlockByIdAndMeta
    <3> SUFFICES ASSUME NEW x \in blocks' \cup WaitingBlocks', NEW y \in blocks' \cup WaitingBlocks',
                        x.id = y.id, x.meta = y.meta, x # y
                 PROVE  <<x.id, x.meta>> \in raced'
      BY DEF IdsAreTaken
    <3>3. CASE x \in blocks \cup WaitingBlocks /\ y \in blocks \cup WaitingBlocks
      BY <1>1, <3>3 DEF RegistryInv, IdsAreTaken
    <3>4. CASE x = block /\ y \in WaitingBlocks
      <4>1. <<y.id, y.meta>> \in raced'
        BY <2>2, <3>4
      <4> QED
        BY <4>1
    <3>5. CASE y = block /\ x \in WaitingBlocks
      BY <2>2, <3>5
    <3>6. x # block \/ y \notin blocks
      BY <3>2
    <3>7. y # block \/ x \notin blocks
      BY <3>2
    <3> QED
      BY <1>1, <3>1, <3>3, <3>4, <3>5, <3>6, <3>7
  <2> QED
    BY <2>1, <2>2 DEF RegisterBlock
<1>5. ItemsAreKept' /\ BlocksAreKept' /\ JavaNamesAreKept'
  BY <1>1, <1>2 DEF RegistryInv, ItemsAreKept, BlocksAreKept, JavaNamesAreKept
<1> QED
  BY <1>3, <1>4, <1>5 DEF RegistryInv

LEMMA FinishItemStep ==
    ASSUME RegistryInv, NEW w \in waiting, FinishItem(w)
    PROVE  RegistryInv'
<1>1. /\ w.kind = "item" /\ waiting' = waiting \ {w} /\ items' = SetOne(items, w.entry)
      /\ UNCHANGED <<phase, blocks, javaBlocks, offered, reloads, cancelled, raced>>
      /\ w.entry \in ImportedItems
  BY DEF FinishItem, Waiting, RegistryInv, Typed
<1>2. /\ items' \subseteq items \cup {w.entry} /\ w.entry \in items'
      /\ \A e \in items : e \in items' \/ e.name = w.entry.name
      /\ UniqueNames(items')
  BY <1>1, SetOneProperties DEF RegistryInv, Typed
<1>3. /\ Waiting("item")' = Waiting("item") \ {w} /\ Waiting("block")' = Waiting("block")
      /\ WaitingBlocks' = WaitingBlocks
  BY <1>1 DEF Waiting, WaitingBlocks
<1>4. Typed'
  BY <1>1, <1>2, <1>3 DEF RegistryInv, Typed
<1>5. IdsAreTaken' /\ BlocksAreKept' /\ JavaNamesAreKept'
  BY <1>1, <1>3 DEF RegistryInv, IdsAreTaken, BlocksAreKept, JavaNamesAreKept
<1>6. ASSUME phase \in {"items", "blocks", "on"}, NEW i \in ImportedItems
      PROVE  \/ \E v \in Waiting("item")' : v.entry = i
             \/ i.name \in cancelled
             \/ /\ \E j \in items' : j.name = i.name
                /\ i \in items' \/ i.name \in SharedNames
  <2>1. CASE \E v \in Waiting("item") : v.entry = i
    BY <1>2, <1>3, <2>1
  <2>2. CASE /\ \E j \in items : j.name = i.name
             /\ i \in items \/ i.name \in SharedNames
    <3>1. \E j \in items' : j.name = i.name
      BY <1>2, <2>2
    <3>2. i \in items' \/ i.name \in SharedNames
      BY <1>1, <1>2, <2>2, CatalogueAssumption
    <3> QED
      BY <3>1, <3>2
  <2> QED
    BY <1>6, <2>1, <2>2 DEF RegistryInv, ItemsAreKept
<1>7. ItemsAreKept'
  BY <1>1, <1>6 DEF ItemsAreKept
<1> QED
  BY <1>4, <1>5, <1>7 DEF RegistryInv

LEMMA FinishBlockStep ==
    ASSUME RegistryInv, NEW w \in waiting, FinishBlock(w)
    PROVE  RegistryInv'
<1>1. /\ w.kind # "item" /\ waiting' = waiting \ {w} /\ blocks' = SetOne(blocks, w.entry)
      /\ javaBlocks' = SetOne(javaBlocks, JavaEntry(w.entry))
      /\ UNCHANGED <<phase, items, offered, reloads, cancelled, raced>>
  BY DEF FinishBlock
<1>2. \/ w.kind = "block" /\ w.entry \in Imported
      \/ w.kind = "custom" /\ w.entry \in CustomBlocks
  BY <1>1 DEF RegistryInv, Typed
<1>3. /\ blocks' \subseteq blocks \cup {w.entry} /\ w.entry \in blocks'
      /\ \A e \in blocks : e \in blocks' \/ e.name = w.entry.name
      /\ UniqueNames(blocks')
  BY <1>1, SetOneProperties DEF RegistryInv, Typed
<1>4. javaBlocks' \subseteq javaBlocks \cup {JavaEntry(w.entry)}
  BY <1>1, SetOneProperties
<1>5. /\ Waiting("item")' = Waiting("item") /\ Waiting("block")' = Waiting("block") \ {w}
      /\ WaitingBlocks' \subseteq WaitingBlocks /\ w.entry \in WaitingBlocks
  BY <1>1 DEF Waiting, WaitingBlocks
<1>6. Typed'
  <2>1. blocks' \subseteq Imported \cup CustomBlocks
    BY <1>2, <1>3 DEF RegistryInv, Typed
  <2> QED
    BY <1>1, <1>3, <1>5, <2>1 DEF RegistryInv, Typed
<1>7. IdsAreTaken'
  <2>1. blocks' \cup WaitingBlocks' \subseteq blocks \cup WaitingBlocks
    BY <1>3, <1>5
  <2> QED
    BY <1>1, <2>1 DEF RegistryInv, IdsAreTaken
<1>8. ItemsAreKept'
  BY <1>1, <1>5 DEF RegistryInv, ItemsAreKept
\* A block that the entry replaces has a name that a plugin took.
<1>9. ASSUME NEW b \in Imported \cup CustomBlocks, b \in blocks, b \notin blocks' PROVE NameTaken(b.name)
  <2>1. b.name = w.entry.name /\ b # w.entry
    BY <1>3, <1>9
  <2> QED
    BY <1>2, <2>1, CatalogueAssumption DEF NameTaken
<1>10. ASSUME phase \in {"blocks", "on"}, NEW b \in Imported
       PROVE  \/ \E v \in Waiting("block")' : v.entry = b
              \/ b.name \in cancelled
              \/ /\ \E c \in blocks' : c.name = b.name
                 /\ b \in blocks' \/ NameTaken(b.name)
  <2>1. CASE \E v \in Waiting("block") : v.entry = b
    BY <1>3, <1>5, <2>1
  <2>2. CASE /\ \E c \in blocks : c.name = b.name
             /\ b \in blocks \/ NameTaken(b.name)
    <3>1. \E c \in blocks' : c.name = b.name
      BY <1>3, <2>2
    <3>2. b \in blocks' \/ NameTaken(b.name)
      BY <1>9, <2>2
    <3> QED
      BY <3>1, <3>2
  <2> QED
    BY <1>10, <2>1, <2>2 DEF RegistryInv, BlocksAreKept
<1>11. BlocksAreKept'
  BY <1>1, <1>10 DEF BlocksAreKept
<1>12. ASSUME NEW f \in javaBlocks'
       PROVE  /\ f.block \in Imported \cup CustomBlocks
              /\ f.block \in blocks' \/ reloads > 0 \/ NameTaken(f.block.name)
  <2>1. CASE f \in javaBlocks
    <3>1. /\ f.block \in Imported \cup CustomBlocks
          /\ f.block \in blocks \/ reloads > 0 \/ NameTaken(f.block.name)
      BY <2>1 DEF RegistryInv, JavaNamesAreKept
    <3> QED
      BY <1>9, <3>1
  <2>2. CASE f = JavaEntry(w.entry)
    <3>1. f.block = w.entry
      BY <2>2 DEF JavaEntry
    <3> QED
      BY <1>2, <1>3, <3>1
  <2> QED
    BY <1>4, <2>1, <2>2
<1>13. JavaNamesAreKept'
  BY <1>1, <1>12 DEF JavaNamesAreKept
<1> QED
  BY <1>6, <1>7, <1>8, <1>11, <1>13 DEF RegistryInv

LEMMA CancelStep ==
    ASSUME RegistryInv, NEW w \in waiting, Cancel(w)
    PROVE  RegistryInv'
<1>1. /\ waiting' = waiting \ {w} /\ cancelled' = cancelled \cup {w.entry.name}
      /\ UNCHANGED <<phase, items, blocks, javaBlocks, offered, reloads, raced>>
  BY DEF Cancel
<1>2. /\ \A kind : Waiting(kind)' \subseteq Waiting(kind)
      /\ \A kind : \A v \in Waiting(kind) : v \in Waiting(kind)' \/ v = w
      /\ WaitingBlocks' \subseteq WaitingBlocks
  BY <1>1 DEF Waiting, WaitingBlocks
<1>3. Typed'
  BY <1>1, <1>2 DEF RegistryInv, Typed
<1>4. IdsAreTaken'
  BY <1>1, <1>2 DEF RegistryInv, IdsAreTaken
<1>5. ItemsAreKept' /\ BlocksAreKept' /\ JavaNamesAreKept'
  BY <1>1, <1>2 DEF RegistryInv, ItemsAreKept, BlocksAreKept, JavaNamesAreKept
<1> QED
  BY <1>3, <1>4, <1>5 DEF RegistryInv

LEMMA ReloadStep == RegistryInv /\ Reload => RegistryInv'
<1> SUFFICES ASSUME RegistryInv, Reload PROVE RegistryInv'
  OBVIOUS
<1>1. /\ phase = "on" /\ phase' = "plugins" /\ reloads' = reloads + 1 /\ items' = {} /\ blocks' = {}
      /\ UNCHANGED <<javaBlocks, waiting, cancelled, raced>>
  BY DEF Reload
<1>2. /\ \A kind : Waiting(kind)' = Waiting(kind)
      /\ WaitingBlocks' = WaitingBlocks
  BY <1>1 DEF Waiting, WaitingBlocks
<1>3. Typed'
  BY <1>1, <1>2 DEF RegistryInv, Typed, UniqueNames
<1>4. IdsAreTaken'
  BY <1>1, <1>2 DEF RegistryInv, IdsAreTaken
<1>5. reloads' > 0
  BY <1>1 DEF RegistryInv, Typed
<1>6. ItemsAreKept' /\ BlocksAreKept' /\ JavaNamesAreKept'
  BY <1>1, <1>5 DEF RegistryInv, ItemsAreKept, BlocksAreKept, JavaNamesAreKept
<1> QED
  BY <1>3, <1>4, <1>6 DEF RegistryInv

LEMMA RegistryStep == RegistryInv /\ [Next]_vars => RegistryInv'
<1> SUFFICES ASSUME RegistryInv, [Next]_vars PROVE RegistryInv'
  OBVIOUS
<1>1. CASE ImportItems
  BY <1>1, ImportItemsStep
<1>2. CASE ImportBlocks
  BY <1>2, ImportBlocksStep
<1>3. CASE Enabled
  <2>1. /\ phase' = "on" /\ phase = "blocks" /\ Waiting("block") = {}
        /\ UNCHANGED <<items, blocks, javaBlocks, waiting, offered, reloads, cancelled, raced>>
    BY <1>3 DEF Enabled, Registered
  <2> QED
    BY <2>1 DEF RegistryInv, Typed, IdsAreTaken, ItemsAreKept, BlocksAreKept, JavaNamesAreKept,
                Waiting, WaitingBlocks
<1>4. CASE Reload
  BY <1>4, ReloadStep
<1>5. ASSUME NEW b \in CustomBlocks, RegisterBlock(b) PROVE RegistryInv'
  BY <1>5, RegisterBlockStep
<1>6. ASSUME NEW w \in waiting, FinishItem(w) \/ FinishBlock(w) \/ Cancel(w) PROVE RegistryInv'
  BY <1>6, FinishItemStep, FinishBlockStep, CancelStep
<1>7. CASE UNCHANGED vars
  BY <1>7 DEF vars, RegistryInv, Typed, IdsAreTaken, ItemsAreKept, BlocksAreKept, JavaNamesAreKept,
              Waiting, WaitingBlocks
<1> QED
  BY <1>1, <1>2, <1>3, <1>4, <1>5, <1>6, <1>7 DEF Next

LEMMA RegistryInvariant == Spec => []RegistryInv
BY RegistryInit, RegistryStep, PTL DEF Spec

-----------------------------------------------------------------------------
(* The properties                                                          *)

\* No two registered blocks share a numeric id and a meta value, but those whose
\* registrations waited for handlers at once (OneBlockPerId).
THEOREM NoIdIsTakenTwice == Spec => []OneBlockPerId
<1>1. RegistryInv => OneBlockPerId
  BY DEF RegistryInv, IdsAreTaken, OneBlockPerId
<1> QED
  BY <1>1, RegistryInvariant, PTL

LEMMA BlocksFound == RegistryInv /\ phase = "on" => BlocksAreFound
<1> SUFFICES ASSUME RegistryInv, phase = "on", NEW b \in Imported,
                    <<b.id, b.meta>> \notin raced, ~NameTaken(b.name), b.name \notin cancelled
             PROVE  /\ GetBlockByIdAndMeta(b.id, b.meta) = {b} /\ LoadedEntry(b.name) = {b}
                    /\ CreativeEntry(b.id, b.meta) = {b}
  BY DEF BlocksAreFound, NameTaken
<1>1. b \in blocks
  BY DEF RegistryInv, Typed, BlocksAreKept
<1>2. GetBlockByIdAndMeta(b.id, b.meta) = {b}
  BY <1>1 DEF GetBlockByIdAndMeta, RegistryInv, IdsAreTaken
<1>3. {c \in blocks : c.name = b.name} = {b}
  BY <1>1 DEF RegistryInv, Typed, UniqueNames
<1>4. GetItem(b.name) = {} /\ GetItemById(b.id) = {}
  BY CatalogueAssumption DEF GetItem, GetItemById, RegistryInv, Typed
<1>5. LoadedEntry(b.name) = {b}
  BY <1>3, <1>4 DEF LoadedEntry, OrElse, GetBlock
<1>6. CreativeEntry(b.id, b.meta) = {b}
  BY <1>2, <1>4 DEF CreativeEntry, OrElse
<1> QED
  BY <1>2, <1>5, <1>6

LEMMA ItemsFound == RegistryInv /\ phase = "on" => ItemsAreFound
<1> SUFFICES ASSUME RegistryInv, phase = "on", NEW i \in ImportedItems,
                    i.name \notin SharedNames, i.name \notin cancelled
             PROVE  LoadedEntry(i.name) = {i} /\ CreativeEntry(i.id, 0) = {i}
  BY DEF ItemsAreFound
<1>1. i \in items
  BY DEF RegistryInv, Typed, ItemsAreKept
<1>2. GetItem(i.name) = {i}
  BY <1>1 DEF GetItem, RegistryInv, Typed, UniqueNames
<1>3. GetItemById(i.id) = {i}
  BY <1>1, CatalogueAssumption DEF GetItemById, RegistryInv, Typed
<1> QED
  BY <1>2, <1>3 DEF LoadedEntry, CreativeEntry, OrElse

LEMMA NamesLead == RegistryInv => NamesLeadToBlocks
<1> SUFFICES ASSUME RegistryInv, NEW name, NEW b \in GetBlock(name)
             PROVE  \/ GetBlockByIdAndMeta(b.id, b.meta) = {b}
                    \/ <<b.id, b.meta>> \in raced
                    \/ b \notin blocks /\ (reloads > 0 \/ NameTaken(b.name))
  BY DEF NamesLeadToBlocks, NameTaken
<1>1. CASE b \in blocks
  BY <1>1 DEF GetBlockByIdAndMeta, RegistryInv, IdsAreTaken
<1>2. CASE b \notin blocks
  <2>1. \E f \in javaBlocks : b = f.block
    BY <1>2 DEF GetBlock, OrElse
  <2> QED
    BY <1>2, <2>1 DEF RegistryInv, JavaNamesAreKept
<1> QED
  BY <1>1, <1>2

\* When the server is on, every block and item of the lists is found by the name that
\* saved inventories hold, by the click in the creative inventory and, a block, by
\* what chunks hold, with the exceptions that EntriesAreFound names.
THEOREM LookupsFindEntries == Spec => []EntriesAreFound
<1>1. RegistryInv => EntriesAreFound
  BY BlocksFound, ItemsFound, NamesLead DEF EntriesAreFound
<1> QED
  BY <1>1, RegistryInvariant, PTL

\* When the server is on, what any block leaves under any tool is registered, but for
\* the items that no class has (DropsAreRegistered).
THEOREM DropsExist == Spec => []DropsAreRegistered
<1>1. RegistryInv => DropsAreRegistered
  <2> SUFFICES ASSUME RegistryInv, phase = "on", NEW b \in Imported, NEW tool,
                      NEW drops \in GetDrops(b, tool), NEW d \in ToSet(drops)
               PROVE  \/ d.of = "this"
                      \/ d.of = "block" /\ (GetBlock(d.name) # {} \/ d.name \in cancelled)
                      \/ d.of = "item" /\ (GetItem(d.name) # {} \/ d.name \in cancelled \cup UnknownItems)
    BY DEF DropsAreRegistered
  <2>1. drops \in b.drops
    <3>1. ToSet(Nothing) = {}
      BY DEF ToSet, Nothing
    <3> QED
      BY <3>1 DEF GetDrops
  <2>2. \/ d.of = "this"
        \/ d.of = "block" /\ \E c \in Imported : c.name = d.name
        \/ d.of = "item" /\ (d.name \in UnknownItems \/ \E i \in ImportedItems : i.name = d.name)
    BY <2>1, CatalogueAssumption
  <2>3. ASSUME NEW c \in Imported, c.name = d.name, d.name \notin cancelled PROVE GetBlock(d.name) # {}
    <3>1. \E x \in blocks : x.name = d.name
      BY <2>3 DEF RegistryInv, Typed, BlocksAreKept
    <3> QED
      BY <3>1 DEF GetBlock, OrElse
  <2>4. ASSUME NEW i \in ImportedItems, i.name = d.name, d.name \notin cancelled PROVE GetItem(d.name) # {}
    <3>1. \E j \in items : j.name = d.name
      BY <2>4 DEF RegistryInv, Typed, ItemsAreKept
    <3> QED
      BY <3>1 DEF GetItem
  <2> QED
    BY <2>2, <2>3, <2>4
<1> QED
  BY <1>1, RegistryInvariant, PTL

=============================================================================
