--------------------------- MODULE PlayerItemsProofs ---------------------------
(***************************************************************************)
(* What PlayerItems guarantees for any number of slots, items, sessions    *)
(* and accounts.                                                           *)
(***************************************************************************)
EXTENDS PlayerItems, SequenceTheorems, FiniteSetTheorems, WellFoundedInduction, NaturalsInduction, TLAPS

Entries == [slot : SlotNumbers, item : Items \cup {Air}]

\* The entries of a Map: no slot has two.
Map(m) == m \in Seq(Entries) /\ \A n, k \in DOMAIN m : m[n].slot = m[k].slot => n = k

\* An item lies in at most one of the slots.
InOneSlot(entries, i) == \A e, f \in entries : e.item = i /\ f.item = i => e = f

-----------------------------------------------------------------------------
(* The operations of an inventory, as operations on its set of entries     *)

LEMMA MapLength ==
    ASSUME NEW m, Map(m)
    PROVE  /\ DOMAIN m = 1 .. Len(m) /\ Len(m) \in Nat /\ ToSet(m) \subseteq Entries
           /\ \A e, f \in ToSet(m) : e.slot = f.slot => e = f
BY DEF Map, ToSet

\* A Map of the slots 0 to Slots has at most so many entries and one more.
LEMMA PigeonHole ==
    ASSUME NEW m, Map(m)
    PROVE  Len(m) <= Slots + 1
<1> DEFINE place == [n \in 1 .. Len(m) |-> m[n].slot]
<1>1. place \in Injection(1 .. Len(m), 0 .. Slots)
  <2>1. \A n \in 1 .. Len(m) : m[n] \in Entries
    BY MapLength DEF ToSet
  <2>2. place \in [1 .. Len(m) -> 0 .. Slots]
    BY <2>1 DEF Entries, SlotNumbers
  <2> QED
    BY <2>2, MapLength DEF Map, Injection, IsInjective
<1>2. IsFiniteSet(0 .. Slots) /\ Cardinality(0 .. Slots) = Slots + 1
  BY FS_Interval, ItemsAssumption
<1>3. Cardinality(1 .. Len(m)) = Len(m)
  BY FS_Interval, MapLength
<1> QED
  BY <1>1, <1>2, <1>3, FS_Injection

\* setItem replaces the entry of the slot or adds one.
LEMMA SetItemEntries ==
    ASSUME NEW m, Map(m), NEW slot \in SlotNumbers, NEW item \in Items \cup {Air}
    PROVE  /\ Map(SetItem(m, slot, item))
           /\ ToSet(SetItem(m, slot, item)) =
                  {e \in ToSet(m) : e.slot # slot} \cup {[slot |-> slot, item |-> item]}
<1> DEFINE new == [slot |-> slot, item |-> item]
           s == SetItem(m, slot, item)
<1>0. new \in Entries /\ Accepts(slot) /\ new.slot = slot
  BY ItemsAssumption DEF Entries, Accepts, SlotNumbers
<1>1. s = MapSet(m, slot, item)
  BY <1>0 DEF SetItem
<1>2. CASE Has(m, slot)
  <2>1. s = [n \in DOMAIN m |-> IF m[n].slot = slot THEN new ELSE m[n]]
    BY <1>1, <1>2 DEF MapSet, Has
  <2> HIDE DEF s, new
  <2>2. s \in Seq(Entries) /\ DOMAIN s = DOMAIN m
    BY <1>0, <2>1, MapLength DEF ToSet
  <2>3. \A n \in DOMAIN m : s[n].slot = m[n].slot
    BY <1>0, <2>1
  <2>4. Map(s)
    BY <2>2, <2>3 DEF Map
  <2>5. ToSet(s) \subseteq {e \in ToSet(m) : e.slot # slot} \cup {new}
    BY <2>1 DEF ToSet
  <2>6. {e \in ToSet(m) : e.slot # slot} \cup {new} \subseteq ToSet(s)
    BY <1>2, <2>1 DEF ToSet, Has
  <2> QED
    BY <2>4, <2>5, <2>6 DEF s, new
<1>3. CASE ~Has(m, slot)
  <2>1. s = Append(m, new)
    BY <1>1, <1>3 DEF MapSet, Has
  <2> HIDE DEF s, new
  <2>2. /\ s \in Seq(Entries) /\ DOMAIN s = 1 .. Len(m) + 1 /\ s[Len(m) + 1] = new
        /\ \A n \in 1 .. Len(m) : s[n] = m[n]
    BY <1>0, <2>1, AppendProperties, MapLength DEF Map
  <2>3. Map(s)
    BY <1>0, <1>3, <2>2, MapLength DEF Map, Has
  <2>4. ToSet(s) = ToSet(m) \cup {new}
    BY <2>2, MapLength DEF ToSet
  <2>5. \A e \in ToSet(m) : e.slot # slot
    BY <1>3 DEF ToSet, Has
  <2> QED
    BY <2>3, <2>4, <2>5 DEF s, new
<1> QED
  BY <1>2, <1>3

\* removeItem takes the entry of the slot out.
LEMMA RemoveItemEntries ==
    ASSUME NEW m, Map(m), NEW slot
    PROVE  /\ Map(RemoveItem(m, slot))
           /\ ToSet(RemoveItem(m, slot)) = {e \in ToSet(m) : e.slot # slot}
<1>1. CASE ~Has(m, slot)
  BY <1>1 DEF RemoveItem, Has, ToSet
<1>2. CASE Has(m, slot)
  <2> DEFINE k == CHOOSE n \in DOMAIN m : m[n].slot = slot
             before == SubSeq(m, 1, k - 1)
             after == SubSeq(m, k + 1, Len(m))
             r == before \o after
  <2>1. k \in 1 .. Len(m) /\ m[k].slot = slot
    BY <1>2, MapLength DEF Has
  <2>2. RemoveItem(m, slot) = r
    BY <1>2 DEF RemoveItem, RemoveAt
  <2> HIDE DEF k
  <2>3. before \in Seq(Entries) /\ Len(before) = k - 1 /\ \A j \in 1 .. k - 1 : before[j] = m[j]
    BY <2>1, MapLength DEF Map
  <2>4. /\ after \in Seq(Entries) /\ Len(after) = Len(m) - k
        /\ \A j \in 1 .. Len(m) - k : after[j] = m[k + j]
    BY <2>1, MapLength DEF Map
  <2> HIDE DEF before, after
  <2>5. /\ r \in Seq(Entries) /\ Len(r) = Len(before) + Len(after)
        /\ \A j \in 1 .. Len(before) + Len(after) :
               r[j] = IF j <= Len(before) THEN before[j] ELSE after[j - Len(before)]
    BY <2>3, <2>4, ConcatProperties
  <2> HIDE DEF r
  <2>6. DOMAIN r = 1 .. Len(m) - 1 /\ Len(m) \in Nat /\ k \in Int
    BY <2>1, <2>3, <2>4, <2>5, MapLength
  <2>7. ASSUME NEW j \in 1 .. k - 1 PROVE r[j] = m[j]
    <3>1. j \in 1 .. Len(before) + Len(after) /\ j <= Len(before)
      BY <2>1, <2>3, <2>4, <2>6
    <3> QED
      BY <2>3, <2>5, <3>1
  <2>8. ASSUME NEW j \in k .. Len(m) - 1 PROVE r[j] = m[j + 1]
    <3>1. j - (k - 1) \in 1 .. Len(m) - k /\ k + (j - (k - 1)) = j + 1
      BY <2>6
    <3>2. j \in 1 .. Len(before) + Len(after) /\ ~(j <= Len(before))
      BY <2>1, <2>3, <2>4, <2>6
    <3>3. r[j] = after[j - (k - 1)]
      BY <2>3, <2>5, <3>2
    <3> QED
      BY <2>4, <3>1, <3>3
  <2>9. Map(r)
    <3> DEFINE From(j) == IF j < k THEN j ELSE j + 1
    <3>1. ASSUME NEW j \in DOMAIN r PROVE r[j] = m[From(j)] /\ From(j) \in DOMAIN m
      BY <2>1, <2>6, <2>7, <2>8, MapLength
    <3>2. ASSUME NEW j \in DOMAIN r, NEW l \in DOMAIN r, From(j) = From(l) PROVE j = l
      BY <2>6, <3>2
    <3> HIDE DEF From
    <3> QED
      BY <2>5, <3>1, <3>2 DEF Map
  <2>10. ASSUME NEW j \in DOMAIN r PROVE r[j] \in ToSet(m) /\ r[j].slot # slot
    <3>1. PICK i \in DOMAIN m : i # k /\ r[j] = m[i]
      <4>1. CASE j < k
        BY <2>1, <2>6, <2>7, <4>1, MapLength
      <4>2. CASE ~(j < k)
        <5>1. j \in k .. Len(m) - 1 /\ j + 1 \in DOMAIN m /\ j + 1 # k
          BY <2>1, <2>6, <4>2, MapLength
        <5> QED
          BY <2>8, <5>1
      <4> QED
        BY <4>1, <4>2
    <3> QED
      BY <2>1, <3>1 DEF Map, ToSet
  <2>11. ASSUME NEW n \in DOMAIN m, m[n].slot # slot PROVE \E j \in DOMAIN r : r[j] = m[n]
    <3>1. CASE n < k
      BY <2>1, <2>6, <2>7, <3>1, MapLength
    <3>2. CASE n > k
      <4>1. n - 1 \in k .. Len(m) - 1 /\ (n - 1) + 1 = n
        BY <2>6, <3>2, MapLength
      <4> QED
        BY <2>6, <2>8, <4>1, <2>1
    <3> QED
      BY <2>1, <2>6, <2>11, <3>1, <3>2, MapLength
  <2> QED
    BY <2>2, <2>9, <2>10, <2>11 DEF ToSet
<1> QED
  BY <1>1, <1>2

LEMMA LeastElement ==
    ASSUME NEW S, S \subseteq Nat, S # {}
    PROVE  \E i \in S : \A j \in S : i <= j
<1> DEFINE less == {p \in Nat \X Nat : p[1] < p[2]}
<1>1. IsWellFoundedOn(less, Nat)
  BY NatLessThanWellFounded DEF OpToRel
<1>2. \E i \in S : \A j \in S : ~(<<j, i>> \in less)
  BY <1>1, WFMin
<1>3. ASSUME NEW i \in S, NEW j \in S, <<j, i>> \notin less PROVE i <= j
  <2>1. i \in Nat /\ j \in Nat /\ ~(j < i)
    BY <1>3
  <2> QED
    BY <2>1
<1> HIDE DEF less
<1> QED
  BY <1>2, <1>3

\* addItem sets a slot that has no entry, if there is one.
LEMMA AddItemEntries ==
    ASSUME NEW m, Map(m), NEW item \in Items
    PROVE  /\ Map(AddItem(m, item))
           /\ FreeSlots(m) = {} => AddItem(m, item) = m
           /\ FreeSlots(m) # {} => \E slot \in SlotNumbers :
                  ToSet(AddItem(m, item)) = ToSet(m) \cup {[slot |-> slot, item |-> item]}
<1>1. CASE FreeSlots(m) = {}
  BY <1>1 DEF AddItem
<1>2. CASE FreeSlots(m) # {}
  <2> DEFINE slot == CHOOSE i \in FreeSlots(m) : \A j \in FreeSlots(m) : i <= j
  <2>1. FreeSlots(m) \subseteq Nat
    BY ItemsAssumption DEF FreeSlots
  <2>2. \E i \in FreeSlots(m) : \A j \in FreeSlots(m) : i <= j
    BY <1>2, <2>1, LeastElement
  <2>4. slot \in FreeSlots(m)
    BY <2>2
  <2>5. AddItem(m, item) = SetItem(m, slot, item)
    BY <1>2 DEF AddItem
  <2> HIDE DEF slot
  <2>6. slot \in SlotNumbers /\ \A e \in ToSet(m) : e.slot # slot
    BY <2>4, ItemsAssumption DEF FreeSlots, SlotNumbers, Has, ToSet
  <2>7. {e \in ToSet(m) : e.slot # slot} = ToSet(m)
    BY <2>6
  <2> QED
    BY <1>2, <2>5, <2>6, <2>7, SetItemEntries
<1> QED
  BY <1>1, <1>2

LEMMA NewInventoryEntries == Map(NewInventory) /\ ItemsIn(NewInventory) = {}
<1>1. NewInventory \in Seq(Entries) /\ DOMAIN NewInventory = 1 .. Slots
  BY ItemsAssumption DEF NewInventory, Entries, SlotNumbers
<1>2. \A n \in 1 .. Slots : NewInventory[n].slot = n - 1 /\ NewInventory[n].item = Air
  BY DEF NewInventory
<1> QED
  BY <1>1, <1>2, ItemsAssumption DEF Map, ItemsIn, ItemsOf, ToSet

\* getItem gives the item of the slot's entry.
LEMMA GetItemEntries ==
    ASSUME NEW m, Map(m), NEW slot
    PROVE  /\ GetItem(m, slot) \in Items \cup {Air}
           /\ \A e \in ToSet(m) : e.slot = slot => GetItem(m, slot) = e.item
           /\ GetItem(m, slot) # Air => [slot |-> slot, item |-> GetItem(m, slot)] \in ToSet(m)
<1>1. CASE ~Has(m, slot)
  BY <1>1 DEF GetItem, Has, ToSet
<1>2. CASE Has(m, slot)
  <2> DEFINE e == CHOOSE f \in ToSet(m) : f.slot = slot
  <2>1. \E f \in ToSet(m) : f.slot = slot
    BY <1>2 DEF Has, ToSet
  <2>2. e \in ToSet(m) /\ e.slot = slot
    BY <2>1
  <2>3. GetItem(m, slot) = e.item
    BY <1>2 DEF GetItem, ToSet
  <2> HIDE DEF e
  <2>4. e \in Entries /\ e = [slot |-> slot, item |-> e.item]
    BY <2>2, MapLength DEF Entries
  <2> QED
    BY <2>2, <2>3, <2>4, MapLength DEF Entries
<1> QED
  BY <1>1, <1>2

-----------------------------------------------------------------------------
(* Saving and loading                                                      *)

File(saved) ==
    /\ saved \subseteq [slot : SlotNumbers, item : Items]
    /\ \A e, f \in saved : e.slot = f.slot => e = f

\* A save keeps the items, one entry for each that a slot has.
LEMMA SavedEntries ==
    ASSUME NEW m, Map(m)
    PROVE  /\ File(Saved(m)) /\ ItemsOf(Saved(m)) = ItemsIn(m)
           /\ \A i : InOneSlot(ToSet(m), i) => InOneSlot(Saved(m), i)
<1>1. \A n \in DOMAIN m : m[n] \in Entries /\ n \in 1 .. Slots + 1
  BY MapLength, PigeonHole, ItemsAssumption DEF ToSet
<1>2. \A n \in DOMAIN m : n - 1 \in SlotNumbers
  BY <1>1, ItemsAssumption DEF SlotNumbers
<1>3. \A e \in Saved(m) : \E n \in DOMAIN m :
          e = [slot |-> n - 1, item |-> m[n].item] /\ m[n].item # Air
  BY DEF Saved
<1>4. File(Saved(m))
  <2>1. Saved(m) \subseteq [slot : SlotNumbers, item : Items]
    BY <1>1, <1>2, <1>3 DEF Entries
  <2>2. \A e, f \in Saved(m) : e.slot = f.slot => e = f
    BY <1>1, <1>3
  <2> QED
    BY <2>1, <2>2 DEF File
<1>5. ItemsOf(Saved(m)) = ItemsIn(m)
  <2>1. ASSUME NEW i \in ItemsOf(Saved(m)) PROVE i \in ItemsIn(m)
    BY <1>3 DEF ItemsIn, ItemsOf, ToSet
  <2>2. ASSUME NEW i \in ItemsIn(m) PROVE i \in ItemsOf(Saved(m))
    <3>1. PICK n \in DOMAIN m : i = m[n].item /\ i # Air
      BY DEF ItemsIn, ItemsOf, ToSet
    <3>2. [slot |-> n - 1, item |-> m[n].item] \in Saved(m)
      BY <3>1 DEF Saved
    <3> QED
      BY <3>1, <3>2 DEF ItemsOf
  <2> QED
    BY <2>1, <2>2
<1>6. ASSUME NEW i, InOneSlot(ToSet(m), i), NEW e \in Saved(m), NEW f \in Saved(m), e.item = i, f.item = i
      PROVE  e = f
  <2>1. PICK n \in DOMAIN m : e = [slot |-> n - 1, item |-> m[n].item]
    BY <1>3
  <2>2. PICK k \in DOMAIN m : f = [slot |-> k - 1, item |-> m[k].item]
    BY <1>3
  <2>3. m[n] = m[k]
    BY <1>6, <2>1, <2>2 DEF InOneSlot, ToSet
  <2> QED
    BY <2>1, <2>2, <2>3 DEF Map
<1> QED
  BY <1>4, <1>5, <1>6 DEF InOneSlot

\* A load puts every saved item in its slot, and air in the others.
LEMMA RestoredEntries ==
    ASSUME NEW saved, File(saved)
    PROVE  /\ Map(Restored(saved)) /\ ItemsIn(Restored(saved)) = ItemsOf(saved)
           /\ {e \in ToSet(Restored(saved)) : e.item # Air} = saved
<1> DEFINE taken == {e.slot : e \in saved}
           last == IF Slots \in taken THEN Slots + 1 ELSE Slots
           At(slot) == IF slot \in taken THEN (CHOOSE e \in saved : e.slot = slot).item ELSE Air
           r == [n \in 1 .. last |-> [slot |-> n - 1, item |-> At(n - 1)]]
<1>1. Restored(saved) = r
  BY DEF Restored
<1>2. last \in Nat /\ last <= Slots + 1 /\ last >= Slots
  BY ItemsAssumption
<1>3. \A e \in saved : e \in [slot : SlotNumbers, item : Items] /\ e.item # Air /\ At(e.slot) = e.item
  BY ItemsAssumption DEF File, Air
<1>4. \A slot : At(slot) # Air => \E e \in saved : e.slot = slot /\ At(slot) = e.item
  OBVIOUS
<1>5. \A e \in saved : e.slot + 1 \in 1 .. last
  BY <1>3, ItemsAssumption DEF SlotNumbers
<1> HIDE DEF At, last, taken
<1>6. \A n \in 1 .. last : n - 1 \in SlotNumbers /\ At(n - 1) \in Items \cup {Air}
  BY <1>2, <1>3, <1>4, ItemsAssumption DEF SlotNumbers
<1>7. \A n \in 1 .. last : r[n] = [slot |-> n - 1, item |-> At(n - 1)]
  OBVIOUS
<1>8. r \in Seq(Entries) /\ DOMAIN r = 1 .. last
  BY <1>2, <1>6 DEF Entries
<1> HIDE DEF r
<1>9. Map(r)
  BY <1>2, <1>7, <1>8 DEF Map
<1>10. ASSUME NEW e \in saved PROVE e \in ToSet(r) /\ e.item # Air
  <2>1. e.slot \in Int /\ e = [slot |-> e.slot, item |-> e.item]
    BY <1>3, ItemsAssumption DEF SlotNumbers
  <2>2. (e.slot + 1) - 1 = e.slot
    BY <2>1
  <2>3. r[e.slot + 1] = e
    BY <1>3, <1>5, <1>7, <2>1, <2>2
  <2> QED
    BY <1>3, <1>5, <1>8, <2>3 DEF ToSet
<1>11. ASSUME NEW e \in ToSet(r), e.item # Air PROVE e \in saved
  <2>1. PICK n \in 1 .. last : e = [slot |-> n - 1, item |-> At(n - 1)]
    BY <1>7, <1>8 DEF ToSet
  <2>2. PICK f \in saved : f.slot = n - 1 /\ At(n - 1) = f.item
    BY <1>4, <1>11, <2>1
  <2>3. f = [slot |-> f.slot, item |-> f.item]
    BY <1>3
  <2> QED
    BY <2>1, <2>2, <2>3
<1>12. {e \in ToSet(r) : e.item # Air} = saved
  BY <1>10, <1>11
<1>13. ItemsIn(r) = ItemsOf(saved)
  BY <1>12 DEF ItemsIn, ItemsOf
<1> QED
  BY <1>1, <1>9, <1>12, <1>13

-----------------------------------------------------------------------------
(* What the operations do to the items                                     *)

\* An inventory m is changed to n: only the items of `added' are new in it, only
\* those of `replaced' are gone, and an item that had one slot has one still,
\* unless it was added where it was already.
Handling(m, n, added, replaced) ==
    /\ Map(n)
    /\ ItemsIn(n) \subseteq ItemsIn(m) \cup added
    /\ ItemsIn(m) \ replaced \subseteq ItemsIn(n)
    /\ \A i \in Items : InOneSlot(ToSet(m), i) /\ (i \in added => i \notin ItemsIn(m))
                           => InOneSlot(ToSet(n), i)

LEMMA ItemsInProperties ==
    ASSUME NEW m, Map(m)
    PROVE  /\ ItemsIn(m) \subseteq Items
           /\ \A i \in Items : i \in ItemsIn(m) <=> \E e \in ToSet(m) : e.item = i
<1>1. \A e \in ToSet(m) : e.item \in Items \cup {Air}
  BY MapLength DEF Entries
<1> QED
  BY <1>1, ItemsAssumption DEF ItemsIn, ItemsOf, Air

\* The item of an entry, if there is one.
LEMMA EntryHolds ==
    ASSUME NEW m, NEW e \in ToSet(m), NEW j \in Items, e.item = j
    PROVE  j \in ItemsIn(m)
<1>1. j # Air
  BY ItemsAssumption DEF Air
<1> QED
  BY <1>1 DEF ItemsIn, ItemsOf

LEMMA SetItemHandling ==
    ASSUME NEW m, Map(m), NEW slot \in SlotNumbers, NEW i \in Items
    PROVE  Handling(m, SetItem(m, slot, i), {i}, {GetItem(m, slot)} \ {Air})
<1> DEFINE n == SetItem(m, slot, i)
<1>1. Map(n) /\ ToSet(n) = {e \in ToSet(m) : e.slot # slot} \cup {[slot |-> slot, item |-> i]}
  BY SetItemEntries
<1> HIDE DEF n
<1>2. ItemsIn(n) \subseteq ItemsIn(m) \cup {i}
  BY <1>1 DEF ItemsIn, ItemsOf
<1>3. ASSUME NEW j \in ItemsIn(m), j # GetItem(m, slot) PROVE j \in ItemsIn(n)
  <2>1. PICK e \in ToSet(m) : e.item = j /\ j # Air
    BY DEF ItemsIn, ItemsOf
  <2>2. e.slot # slot
    BY <1>3, <2>1, GetItemEntries
  <2> QED
    BY <1>1, <2>1, <2>2 DEF ItemsIn, ItemsOf
<1>4. ASSUME NEW j \in Items, InOneSlot(ToSet(m), j), j = i => j \notin ItemsIn(m)
      PROVE  InOneSlot(ToSet(n), j)
  <2>1. j = i => \A e \in ToSet(m) : e.item # j
    BY <1>4, ItemsInProperties
  <2> QED
    BY <1>1, <1>4, <2>1 DEF InOneSlot
<1>5. \A j \in ItemsIn(m) : j # Air
  BY DEF ItemsIn, ItemsOf
<1> QED
  BY <1>1, <1>2, <1>3, <1>4, <1>5 DEF Handling, n

LEMMA RemoveItemHandling ==
    ASSUME NEW m, Map(m), NEW slot
    PROVE  Handling(m, RemoveItem(m, slot), {}, {GetItem(m, slot)} \ {Air})
<1> DEFINE n == RemoveItem(m, slot)
<1>1. Map(n) /\ ToSet(n) = {e \in ToSet(m) : e.slot # slot}
  BY RemoveItemEntries
<1> HIDE DEF n
<1>2. ItemsIn(n) \subseteq ItemsIn(m)
  BY <1>1 DEF ItemsIn, ItemsOf
<1>3. ASSUME NEW j \in ItemsIn(m), j # GetItem(m, slot) PROVE j \in ItemsIn(n)
  <2>1. PICK e \in ToSet(m) : e.item = j /\ j # Air
    BY DEF ItemsIn, ItemsOf
  <2>2. e.slot # slot
    BY <1>3, <2>1, GetItemEntries
  <2> QED
    BY <1>1, <2>1, <2>2 DEF ItemsIn, ItemsOf
<1>4. \A j \in Items : InOneSlot(ToSet(m), j) => InOneSlot(ToSet(n), j)
  BY <1>1 DEF InOneSlot
<1>5. \A j \in ItemsIn(m) : j # Air
  BY DEF ItemsIn, ItemsOf
<1> QED
  BY <1>1, <1>2, <1>3, <1>4, <1>5 DEF Handling, n

LEMMA MoveHandling ==
    ASSUME NEW m, Map(m), NEW from, NEW to \in SlotNumbers, from # to
    PROVE  Handling(m, SetItem(RemoveItem(m, from), to, GetItem(m, from)), {}, {GetItem(m, to)} \ {Air})
<1> DEFINE r == RemoveItem(m, from)
           moved == GetItem(m, from)
           n == SetItem(r, to, moved)
<1>1. Map(r) /\ ToSet(r) = {e \in ToSet(m) : e.slot # from}
  BY RemoveItemEntries
<1>2. /\ moved \in Items \cup {Air}
      /\ \A e \in ToSet(m) : e.slot = from => e.item = moved
      /\ moved # Air => [slot |-> from, item |-> moved] \in ToSet(m)
  BY GetItemEntries
<1> HIDE DEF r, moved
<1>3. /\ Map(n)
      /\ ToSet(n) = {e \in ToSet(m) : e.slot # from /\ e.slot # to} \cup {[slot |-> to, item |-> moved]}
  BY <1>1, <1>2, SetItemEntries
<1> HIDE DEF n
<1>4. ItemsIn(n) \subseteq ItemsIn(m)
  <2> SUFFICES ASSUME NEW e \in ToSet(n), e.item # Air
               PROVE  \E f \in ToSet(m) : f.item = e.item
    BY DEF ItemsIn, ItemsOf
  <2>1. CASE e \in ToSet(m)
    BY <2>1
  <2>2. CASE e = [slot |-> to, item |-> moved]
    <3>1. [slot |-> from, item |-> moved] \in ToSet(m) /\ [slot |-> from, item |-> moved].item = e.item
      BY <1>2, <2>2
    <3> QED
      BY <3>1
  <2> QED
    BY <1>3, <2>1, <2>2
<1>5. ASSUME NEW j \in ItemsIn(m), j # GetItem(m, to) PROVE j \in ItemsIn(n)
  <2>1. PICK e \in ToSet(m) : e.item = j /\ j # Air
    BY DEF ItemsIn, ItemsOf
  <2>2. e.slot # to
    BY <1>5, <2>1, GetItemEntries
  <2>3. CASE e.slot = from
    <3>1. [slot |-> to, item |-> moved] \in ToSet(n) /\ [slot |-> to, item |-> moved].item = j
      BY <1>2, <1>3, <2>1, <2>3
    <3> QED
      BY <2>1, <3>1 DEF ItemsIn, ItemsOf
  <2>4. CASE e.slot # from
    BY <1>3, <2>1, <2>2, <2>4 DEF ItemsIn, ItemsOf
  <2> QED
    BY <2>3, <2>4
<1>6. ASSUME NEW j \in Items, InOneSlot(ToSet(m), j) PROVE InOneSlot(ToSet(n), j)
  <2>1. CASE j = moved
    <3>1. [slot |-> from, item |-> j] \in ToSet(m)
      BY <1>2, <2>1, ItemsAssumption DEF Air
    <3>2. \A e \in ToSet(m) : e.item = j => e.slot = from
      BY <1>6, <3>1 DEF InOneSlot
    <3> QED
      BY <1>3, <3>2 DEF InOneSlot
  <2>2. CASE j # moved
    BY <1>3, <1>6, <2>2 DEF InOneSlot
  <2> QED
    BY <2>1, <2>2
<1>7. \A j \in ItemsIn(m) : j # Air
  BY DEF ItemsIn, ItemsOf
<1> QED
  BY <1>3, <1>4, <1>5, <1>6, <1>7 DEF Handling, n, r, moved

LEMMA AddItemHandling ==
    ASSUME NEW m, Map(m), NEW i \in Items
    PROVE  /\ Handling(m, AddItem(m, i), {i}, {})
           /\ FreeSlots(m) # {} => i \in ItemsIn(AddItem(m, i))
<1> DEFINE n == AddItem(m, i)
<1>1. CASE FreeSlots(m) = {}
  BY <1>1, AddItemEntries DEF Handling
<1>2. CASE FreeSlots(m) # {}
  <2>1. PICK slot \in SlotNumbers : ToSet(n) = ToSet(m) \cup {[slot |-> slot, item |-> i]}
    BY <1>2, AddItemEntries
  <2>2. Map(n)
    BY AddItemEntries
  <2> HIDE DEF n
  <2>3. i \in ItemsIn(n)
    <3>1. [slot |-> slot, item |-> i] \in ToSet(n) /\ [slot |-> slot, item |-> i].item = i
      BY <2>1
    <3> QED
      BY <2>2, <3>1, ItemsInProperties
  <2>4. ItemsIn(n) \subseteq ItemsIn(m) \cup {i} /\ ItemsIn(m) \subseteq ItemsIn(n)
    BY <2>1 DEF ItemsIn, ItemsOf
  <2>5. ASSUME NEW j \in Items, InOneSlot(ToSet(m), j), j = i => j \notin ItemsIn(m)
        PROVE  InOneSlot(ToSet(n), j)
    <3>1. j = i => \A e \in ToSet(m) : e.item # j
      BY <2>5, ItemsInProperties
    <3> QED
      BY <2>1, <2>5, <3>1 DEF InOneSlot
  <2> QED
    BY <2>2, <2>3, <2>4, <2>5 DEF Handling, n
<1> QED
  BY <1>1, <1>2

-----------------------------------------------------------------------------
(* Type correctness                                                        *)

\* TypeOK, said with Maps and Files.
TypeInv ==
    /\ inv \in [Sessions -> Seq(Entries)] /\ \A s \in Sessions : Map(inv[s])
    /\ status \in [Sessions -> {"out", "online", "leaving", "gone"}]
    /\ ground \subseteq Items
    /\ picking \subseteq Sessions \X Items
    /\ file \in [Accounts -> SUBSET [slot : SlotNumbers, item : Items]]
    /\ \A a \in Accounts : File(file[a])
    /\ made \subseteq Items /\ lost \subseteq Items /\ raced \subseteq Items

LEMMA TypeInvIsTypeOK == TypeInv <=> TypeOK
<1>1. ASSUME inv \in [Sessions -> Seq(Entries)], NEW s \in Sessions
      PROVE  Map(inv[s]) <=> IsInjective([n \in DOMAIN inv[s] |-> inv[s][n].slot])
  BY <1>1 DEF Map, IsInjective
<1>2. ASSUME file \in [Accounts -> SUBSET [slot : SlotNumbers, item : Items]], NEW a \in Accounts
      PROVE  File(file[a]) <=> \A e, f \in file[a] : e.slot = f.slot => e = f
  BY <1>2 DEF File
<1> QED
  BY <1>1, <1>2 DEF TypeOK, TypeInv, Entries

LEMMA TypedItems ==
    ASSUME TypeInv
    PROVE  /\ \A s \in Sessions : Map(inv[s]) /\ ItemsIn(inv[s]) \subseteq Items
           /\ \A a \in Accounts : File(file[a]) /\ ItemsOf(file[a]) \subseteq Items
           /\ \A s \in Sessions : AccountOf[s] \in Accounts
<1>1. ASSUME NEW saved, File(saved) PROVE ItemsOf(saved) \subseteq Items
  BY <1>1 DEF File, ItemsOf
<1> QED
  BY <1>1, ItemsInProperties, ItemsAssumption DEF TypeInv

\* One inventory changes.
LEMMA OneInventory ==
    ASSUME TypeInv, NEW s \in Sessions, NEW n, Map(n), inv' = [inv EXCEPT ![s] = n]
    PROVE  /\ inv' \in [Sessions -> Seq(Entries)] /\ \A t \in Sessions : Map(inv'[t])
           /\ inv'[s] = n /\ \A t \in Sessions : t # s => inv'[t] = inv[t]
BY DEF TypeInv, Map

\* A save writes the file of the player's account.
LEMMA OneSave ==
    ASSUME TypeInv, NEW s \in Sessions, SavePlayerData({s})
    PROVE  /\ file' = [file EXCEPT ![AccountOf[s]] = Saved(inv[s])]
           /\ file' \in [Accounts -> SUBSET [slot : SlotNumbers, item : Items]]
           /\ \A a \in Accounts : File(file'[a])
           /\ file'[AccountOf[s]] = Saved(inv[s])
           /\ \A a \in Accounts : a # AccountOf[s] => file'[a] = file[a]
<1>1. \A a \in Accounts : (\E t \in {s} : AccountOf[t] = a) <=> a = AccountOf[s]
  OBVIOUS
<1>2. (CHOOSE t \in {s} : AccountOf[t] = AccountOf[s]) = s
  OBVIOUS
<1>3. AccountOf[s] \in Accounts /\ Map(inv[s])
  BY TypedItems
<1>4. \A a \in Accounts : file'[a] = IF a = AccountOf[s] THEN Saved(inv[s]) ELSE file[a]
  BY <1>1, <1>2 DEF SavePlayerData
<1>5. file' = [a \in Accounts |-> file'[a]] /\ file = [a \in Accounts |-> file[a]]
  BY DEF SavePlayerData, TypeInv
<1>6. File(Saved(inv[s]))
  BY <1>3, SavedEntries
<1>7. file' \in [Accounts -> SUBSET [slot : SlotNumbers, item : Items]]
  BY <1>4, <1>5, <1>6 DEF File, TypeInv
<1>8. file' = [file EXCEPT ![AccountOf[s]] = Saved(inv[s])]
  BY <1>3, <1>4, <1>5
<1> QED
  BY <1>3, <1>4, <1>6, <1>7, <1>8 DEF TypeInv

LEMMA TypeInit == Init => TypeInv
<1> SUFFICES ASSUME Init PROVE TypeInv
  OBVIOUS
<1>1. Map(NewInventory) /\ NewInventory \in Seq(Entries)
  BY NewInventoryEntries DEF Map
<1>2. File({})
  BY DEF File
<1> QED
  BY <1>1, <1>2 DEF Init, TypeInv

\* The items that a login or a save finds with an account that plays twice.
LEMMA RacedItems ==
    ASSUME TypeInv, NEW s \in Sessions
    PROVE  ItemsIn(inv[s]) \cup ItemsOf(file[AccountOf[s]]) \subseteq Items
BY TypedItems

LEMMA TypeStep == TypeInv /\ [Next]_vars => TypeInv'
<1> SUFFICES ASSUME TypeInv, [Next]_vars PROVE TypeInv'
  OBVIOUS
<1>1. ASSUME NEW i \in Items, Spawn(i) PROVE TypeInv'
  BY <1>1 DEF Spawn, TypeInv
<1>2. ASSUME NEW s \in Sessions, NEW i \in Items, Collide(s, i) PROVE TypeInv'
  <2>1. raced' \subseteq Items
    BY <1>2 DEF Collide, TypeInv
  <2>2. picking' \subseteq Sessions \X Items
    BY <1>2 DEF Collide, TypeInv
  <2> QED
    BY <1>2, <2>1, <2>2 DEF Collide, TypeInv
<1>3. ASSUME NEW s \in Sessions, NEW i \in Items, PickUp(s, i) PROVE TypeInv'
  <2>1. Map(AddItem(inv[s], i))
    BY AddItemEntries DEF TypeInv
  <2>2. inv' \in [Sessions -> Seq(Entries)] /\ \A t \in Sessions : Map(inv'[t])
    BY <1>3, <2>1, OneInventory DEF PickUp
  <2> QED
    BY <1>3, <2>2 DEF PickUp, TypeInv
<1>4. ASSUME NEW s \in Sessions, NEW from \in SlotNumbers, NEW to \in SlotNumbers, MoveItem(s, from, to)
      PROVE  TypeInv'
  <2>1. Map(SetItem(RemoveItem(inv[s], from), to, GetItem(inv[s], from)))
    BY <1>4, MoveHandling DEF TypeInv, Handling, MoveItem
  <2>2. inv' \in [Sessions -> Seq(Entries)] /\ \A t \in Sessions : Map(inv'[t])
    BY <1>4, <2>1, OneInventory DEF MoveItem
  <2>3. {GetItem(inv[s], to)} \ {Air} \subseteq Items
    BY GetItemEntries DEF TypeInv
  <2> QED
    BY <1>4, <2>2, <2>3 DEF MoveItem, TypeInv
<1>5. ASSUME NEW s \in Sessions, NEW from \in SlotNumbers, DropItem(s, from) PROVE TypeInv'
  <2>1. Map(RemoveItem(inv[s], from))
    BY RemoveItemEntries DEF TypeInv
  <2>2. inv' \in [Sessions -> Seq(Entries)] /\ \A t \in Sessions : Map(inv'[t])
    BY <1>5, <2>1, OneInventory DEF DropItem
  <2>3. {GetItem(inv[s], from)} \ {Air} \subseteq Items
    BY GetItemEntries DEF TypeInv
  <2> QED
    BY <1>5, <2>2, <2>3 DEF DropItem, TypeInv
<1>6. ASSUME NEW s \in Sessions, NEW i \in Items, NEW to \in SlotNumbers, CreativeItem(s, i, to)
      PROVE  TypeInv'
  <2>1. Map(SetItem(inv[s], to, i))
    BY SetItemEntries DEF TypeInv
  <2>2. inv' \in [Sessions -> Seq(Entries)] /\ \A t \in Sessions : Map(inv'[t])
    BY <1>6, <2>1, OneInventory DEF CreativeItem
  <2>3. {GetItem(inv[s], to)} \ {Air} \subseteq Items
    BY GetItemEntries DEF TypeInv
  <2> QED
    BY <1>6, <2>2, <2>3 DEF CreativeItem, TypeInv
<1>7. ASSUME NEW s \in Sessions, Login(s) PROVE TypeInv'
  <2>1. Map(Restored(file[AccountOf[s]]))
    BY TypedItems, RestoredEntries
  <2>2. inv' \in [Sessions -> Seq(Entries)] /\ \A t \in Sessions : Map(inv'[t])
    BY <1>7, <2>1, OneInventory DEF Login
  <2>3. raced' \subseteq Items
    BY <1>7, RacedItems DEF Login, TypeInv
  <2> QED
    BY <1>7, <2>2, <2>3 DEF Login, TypeInv
<1>8. ASSUME NEW s \in Sessions, Leave(s) PROVE TypeInv'
  BY <1>8 DEF Leave, TypeInv
<1>9. ASSUME NEW s \in Sessions, Disable(s) PROVE TypeInv'
  <2>1. /\ file' \in [Accounts -> SUBSET [slot : SlotNumbers, item : Items]]
        /\ \A a \in Accounts : File(file'[a])
    BY <1>9, OneSave DEF Disable
  <2>2. raced' \subseteq Items
    BY <1>9, RacedItems DEF Disable, TypeInv
  <2> QED
    BY <1>9, <2>1, <2>2 DEF Disable, TypeInv
<1>10. ASSUME NEW s \in Sessions, SaveAll(s) PROVE TypeInv'
  <2>1. /\ file' \in [Accounts -> SUBSET [slot : SlotNumbers, item : Items]]
        /\ \A a \in Accounts : File(file'[a])
    BY <1>10, OneSave DEF SaveAll
  <2>2. raced' \subseteq Items
    BY <1>10, RacedItems DEF SaveAll, TypeInv
  <2> QED
    BY <1>10, <2>1, <2>2 DEF SaveAll, TypeInv
<1>11. CASE UNCHANGED vars
  BY <1>11 DEF vars, TypeInv
<1> QED
  BY <1>1, <1>2, <1>3, <1>4, <1>5, <1>6, <1>7, <1>8, <1>9, <1>10, <1>11 DEF Next

\* The slots of an inventory are those of the window and one more, and no slot is
\* in the Map twice; a save puts no two items under one place, and none beyond what
\* a load accepts, whatever was set and removed before (TypeOK).
THEOREM TypeCorrect == Spec => []TypeOK
<1>1. Spec => []TypeInv
  BY TypeInit, TypeStep, PTL DEF Spec
<1> QED
  BY <1>1, TypeInvIsTypeOK, PTL

\* A save and a load bring every item of every inventory back (SavingKeepsItems).
THEOREM SavingKeepsEveryItem == Spec => []SavingKeepsItems
<1>1. TypeInv => SavingKeepsItems
  BY SavedEntries, RestoredEntries, TypedItems DEF SavingKeepsItems
<1>2. Spec => []TypeInv
  BY TypeInit, TypeStep, PTL DEF Spec
<1> QED
  BY <1>1, <1>2, PTL

-----------------------------------------------------------------------------
(* The inductive invariant of NoItemTwice                                  *)

\* Nothing is anywhere before it is made.
ItemsAreMade ==
    /\ \A s \in Sessions : ItemsIn(inv[s]) \subseteq made
    /\ \A a \in Accounts : ItemsOf(file[a]) \subseteq made
    /\ ground \subseteq made
    /\ \A s \in Sessions, i \in Items : <<s, i>> \in picking => i \in made

\* An item on the ground was never anywhere else, and only such an item is being
\* picked up, by one player.
OnTheGround(i) ==
    /\ i \in ground => /\ \A s \in Sessions : i \notin ItemsIn(inv[s])
                       /\ \A a \in Accounts : i \notin ItemsOf(file[a])
    /\ \A s \in Sessions : <<s, i>> \in picking =>
           i \in ground /\ \A t \in Sessions : <<t, i>> \in picking => t = s

\* One player that plays has the item, in one slot.
WithOnePlayer(i) ==
    /\ \A s \in Sessions : InOneSlot(ToSet(inv[s]), i)
    /\ \A s, t \in Sessions :
           Active(s) /\ Active(t) /\ i \in ItemsIn(inv[s]) /\ i \in ItemsIn(inv[t]) => s = t

\* One file has the item, once, and a player that plays and has it too is of the
\* file's account, of which no other plays.
InOneFile(i) ==
    \A a \in Accounts :
        /\ InOneSlot(file[a], i)
        /\ i \in ItemsOf(file[a]) =>
               /\ \A b \in Accounts : i \in ItemsOf(file[b]) => b = a
               /\ \A s \in Sessions : Active(s) /\ i \in ItemsIn(inv[s]) => AccountOf[s] = a
               /\ \A s, t \in Sessions :
                      Active(s) /\ Active(t) /\ AccountOf[s] = a /\ AccountOf[t] = a => s = t

PlacesInv ==
    /\ ItemsAreMade
    /\ \A i \in made \ raced : OnTheGround(i) /\ WithOnePlayer(i) /\ InOneFile(i)

LEMMA PlacesInit == Init => PlacesInv
<1> SUFFICES ASSUME Init PROVE PlacesInv
  OBVIOUS
<1>1. \A s \in Sessions : ItemsIn(inv[s]) = {}
  BY NewInventoryEntries DEF Init
<1>2. \A a \in Accounts : ItemsOf(file[a]) = {}
  BY DEF Init, ItemsOf
<1> QED
  BY <1>1, <1>2 DEF Init, PlacesInv, ItemsAreMade

\* An inventory changes; what is added to it was nowhere but on the ground.
LEMMA HandlingKeepsPlaces ==
    ASSUME TypeInv, PlacesInv,
           NEW s \in Sessions, NEW n, NEW added \in SUBSET Items, NEW replaced,
           Handling(inv[s], n, added, replaced), inv' = [inv EXCEPT ![s] = n],
           UNCHANGED <<status, file, raced>>, made' = made \cup added,
           ground' \subseteq ground, picking' \subseteq picking,
           \A j \in Items \ added : /\ j \in ground => j \in ground'
                                    /\ \A t \in Sessions : <<t, j>> \in picking => <<t, j>> \in picking',
           \A j \in added \ raced : /\ j \notin ground'
                                    /\ \A t \in Sessions : <<t, j>> \notin picking' /\ j \notin ItemsIn(inv[t])
                                    /\ \A a \in Accounts : j \notin ItemsOf(file[a])
    PROVE  PlacesInv'
<1>1. /\ inv'[s] = n /\ \A t \in Sessions : t # s => inv'[t] = inv[t]
      /\ Map(inv[s]) /\ Map(n) /\ ItemsIn(n) \subseteq ItemsIn(inv[s]) \cup added
  BY OneInventory DEF Handling, TypeInv
<1>2. \A t \in Sessions : ItemsIn(inv'[t]) \subseteq ItemsIn(inv[t]) \cup (IF t = s THEN added ELSE {})
  BY <1>1
<1>3. ItemsAreMade'
  BY <1>2 DEF PlacesInv, ItemsAreMade
<1>4. ASSUME NEW j \in made' \ raced', j \notin added
      PROVE  OnTheGround(j)' /\ WithOnePlayer(j)' /\ InOneFile(j)'
  <2>1. j \in Items /\ OnTheGround(j) /\ WithOnePlayer(j) /\ InOneFile(j)
    BY <1>4 DEF PlacesInv, TypeInv
  <2>2. \A t \in Sessions : j \in ItemsIn(inv'[t]) => j \in ItemsIn(inv[t])
    BY <1>2, <1>4
  <2>3. OnTheGround(j)'
    BY <1>4, <2>1, <2>2 DEF OnTheGround
  <2>4. \A t \in Sessions : InOneSlot(ToSet(inv'[t]), j)
    BY <1>1, <1>4, <2>1 DEF WithOnePlayer, Handling
  <2>5. WithOnePlayer(j)'
    BY <2>1, <2>2, <2>4 DEF WithOnePlayer, Active
  <2>6. InOneFile(j)'
    BY <2>1, <2>2 DEF InOneFile, Active
  <2> QED
    BY <2>3, <2>5, <2>6
<1>5. ASSUME NEW j \in made' \ raced', j \in added
      PROVE  OnTheGround(j)' /\ WithOnePlayer(j)' /\ InOneFile(j)'
  <2>1. /\ j \in Items /\ j \notin ground'
        /\ \A t \in Sessions : <<t, j>> \notin picking' /\ j \notin ItemsIn(inv[t])
        /\ \A a \in Accounts : j \notin ItemsOf(file'[a])
    BY <1>5
  <2>2. \A t \in Sessions : j \in ItemsIn(inv'[t]) => t = s
    BY <1>1, <2>1
  <2>3. OnTheGround(j)'
    BY <2>1 DEF OnTheGround
  <2>4. ASSUME NEW t \in Sessions PROVE InOneSlot(ToSet(inv[t]), j)
    <3>1. \A e \in ToSet(inv[t]) : e.item # j
      BY <2>1, EntryHolds
    <3> QED
      BY <3>1 DEF InOneSlot
  <2>5. \A t \in Sessions : InOneSlot(ToSet(inv'[t]), j)
    BY <1>1, <2>1, <2>4 DEF Handling
  <2>6. WithOnePlayer(j)'
    BY <2>2, <2>5 DEF WithOnePlayer
  <2>7. ASSUME NEW a \in Accounts PROVE InOneSlot(file'[a], j)
    <3>1. \A e \in file[a] : e.item = j => j \in ItemsOf(file[a])
      BY <2>1, ItemsAssumption DEF ItemsOf, Air
    <3> QED
      BY <2>1, <3>1 DEF InOneSlot
  <2>8. InOneFile(j)'
    BY <2>1, <2>7 DEF InOneFile
  <2> QED
    BY <2>3, <2>6, <2>8
<1> QED
  BY <1>3, <1>4, <1>5 DEF PlacesInv

LEMMA NothingAddedKeepsPlaces ==
    ASSUME TypeInv, PlacesInv,
           NEW s \in Sessions, NEW n, NEW replaced,
           Handling(inv[s], n, {}, replaced), inv' = [inv EXCEPT ![s] = n],
           UNCHANGED <<status, ground, picking, file, made, raced>>
    PROVE  PlacesInv'
<1> DEFINE added == {}
<1>1. /\ added \in SUBSET Items /\ ground' \subseteq ground /\ picking' \subseteq picking
      /\ UNCHANGED <<status, file, raced>> /\ made' = made \cup added
      /\ Handling(inv[s], n, added, replaced)
  OBVIOUS
<1>2. \A j \in Items \ added :
          /\ j \in ground => j \in ground'
          /\ \A t \in Sessions : <<t, j>> \in picking => <<t, j>> \in picking'
  OBVIOUS
<1>3. \A j \in added \ raced :
          /\ j \notin ground'
          /\ \A t \in Sessions : <<t, j>> \notin picking' /\ j \notin ItemsIn(inv[t])
          /\ \A a \in Accounts : j \notin ItemsOf(file[a])
  OBVIOUS
<1> HIDE DEF added
<1> QED
  BY <1>1, <1>2, <1>3, HandlingKeepsPlaces

\* A player that plays is saved.
LEMMA SavingKeepsPlaces ==
    ASSUME TypeInv, PlacesInv, NEW s \in Sessions, Active(s), SavePlayerData({s}),
           UNCHANGED <<inv, ground, picking, made>>,
           \A t \in Sessions : Active(t)' => Active(t),
           raced' = IF Twice(s) THEN raced \cup ItemsIn(inv[s]) \cup ItemsOf(file[AccountOf[s]]) ELSE raced
    PROVE  PlacesInv'
<1> DEFINE a == AccountOf[s]
<1>1. /\ a \in Accounts /\ file'[a] = Saved(inv[s])
      /\ \A b \in Accounts : b # a => file'[b] = file[b]
      /\ Map(inv[s])
  BY OneSave, TypedItems
<1>2. ItemsOf(file'[a]) = ItemsIn(inv[s])
  BY <1>1, SavedEntries
<1> HIDE DEF a
<1>3. ItemsAreMade'
  BY <1>1, <1>2 DEF PlacesInv, ItemsAreMade
<1>4. ASSUME NEW j \in made' \ raced'
      PROVE  OnTheGround(j)' /\ WithOnePlayer(j)' /\ InOneFile(j)'
  <2>1. OnTheGround(j) /\ WithOnePlayer(j) /\ InOneFile(j)
    BY <1>4 DEF PlacesInv
  <2>2. j \in ItemsIn(inv[s]) => ~Twice(s)
    BY <1>4
  <2>3. OnTheGround(j)'
    BY <1>1, <1>2, <2>1 DEF OnTheGround
  <2>4. WithOnePlayer(j)'
    BY <2>1 DEF WithOnePlayer
  <2>5. ASSUME NEW b \in Accounts PROVE InOneSlot(file'[b], j)
    <3>1. CASE b = a
      BY <1>1, <2>1, <3>1, SavedEntries DEF WithOnePlayer
    <3>2. CASE b # a
      BY <1>1, <2>1, <3>2 DEF InOneFile
    <3> QED
      BY <3>1, <3>2
  <2>6. CASE j \in ItemsIn(inv[s])
    <3>1. \A b \in Accounts : j \in ItemsOf(file'[b]) => b = a
      BY <1>1, <2>1, <2>6 DEF InOneFile, a
    <3>2. \A t \in Sessions : Active(t)' /\ j \in ItemsIn(inv'[t]) => t = s
      BY <2>1, <2>6 DEF WithOnePlayer
    <3>3. \A t \in Sessions : Active(t)' /\ AccountOf[t] = a => t = s
      BY <2>2, <2>6 DEF Twice, a
    <3> QED
      BY <2>3, <2>4, <2>5, <3>1, <3>2, <3>3 DEF InOneFile, a
  <2>7. CASE j \notin ItemsIn(inv[s])
    <3>1. \A b \in Accounts : j \in ItemsOf(file'[b]) => b # a /\ j \in ItemsOf(file[b])
      BY <1>1, <1>2, <2>7
    <3> QED
      BY <2>1, <2>3, <2>4, <2>5, <3>1 DEF InOneFile
  <2> QED
    BY <2>6, <2>7
<1> QED
  BY <1>3, <1>4 DEF PlacesInv

\* A player gets what the file of the account holds.
LEMMA LoginKeepsPlaces ==
    ASSUME TypeInv, PlacesInv, NEW s \in Sessions, Login(s)
    PROVE  PlacesInv'
<1> DEFINE a == AccountOf[s]
           others == {t \in Sessions : AccountOf[t] = a /\ Active(t)}
<1>1. /\ a \in Accounts /\ File(file[a]) /\ Map(Restored(file[a]))
      /\ ItemsIn(Restored(file[a])) = ItemsOf(file[a])
      /\ {e \in ToSet(Restored(file[a])) : e.item # Air} = file[a]
  BY TypedItems, RestoredEntries
<1>2. /\ inv'[s] = Restored(file[a]) /\ \A t \in Sessions : t # s => inv'[t] = inv[t]
      /\ ItemsIn(inv'[s]) = ItemsOf(file[a])
  BY <1>1, OneInventory DEF Login
<1>3. /\ \A t \in Sessions : Active(t)' <=> Active(t) \/ t = s
      /\ ~Active(s)
  BY DEF Login, Active, TypeInv
<1>4. \A t \in others : ItemsOf(file[a]) \subseteq raced'
  <2>1. raced' = raced \cup UNION {ItemsIn(inv[t]) \cup ItemsOf(file[AccountOf[t]]) : t \in others}
    BY DEF Login
  <2> QED
    BY <2>1
<1>5. raced \subseteq raced' /\ UNCHANGED <<ground, picking, file, made>>
  BY DEF Login
<1>6. others = {} \/ \E t \in Sessions : t \in others
  OBVIOUS
<1>7. \A t \in Sessions : Active(t) /\ AccountOf[t] = a => t \in others
  OBVIOUS
<1> HIDE DEF a, others
<1>8. ItemsAreMade'
  BY <1>1, <1>2, <1>5 DEF PlacesInv, ItemsAreMade
<1>9. ASSUME NEW j \in made' \ raced'
      PROVE  OnTheGround(j)' /\ WithOnePlayer(j)' /\ InOneFile(j)'
  <2>1. j \in Items /\ OnTheGround(j) /\ WithOnePlayer(j) /\ InOneFile(j)
    BY <1>5, <1>9 DEF PlacesInv, TypeInv
  <2>2. j \in ItemsOf(file[a]) => \A t \in Sessions : ~(Active(t) /\ AccountOf[t] = a)
    BY <1>4, <1>7, <1>9
  <2>3. OnTheGround(j)'
    BY <1>1, <1>2, <1>5, <2>1 DEF OnTheGround
  <2>4. InOneSlot(ToSet(inv'[s]), j)
    <3>1. j # Air
      BY <2>1, ItemsAssumption DEF Air
    <3> QED
      BY <1>1, <1>2, <2>1, <3>1 DEF InOneFile, InOneSlot
  <2>5. \A t \in Sessions : InOneSlot(ToSet(inv'[t]), j)
    BY <1>2, <2>1, <2>4 DEF WithOnePlayer
  <2>6. ASSUME NEW t \in Sessions, t # s, Active(t), j \in ItemsIn(inv[t]), j \in ItemsOf(file[a])
        PROVE  FALSE
    <3>1. AccountOf[t] = a
      BY <1>1, <2>1, <2>6 DEF InOneFile
    <3> QED
      BY <2>2, <2>6, <3>1
  <2>7. ASSUME NEW t \in Sessions, NEW u \in Sessions, Active(t)', Active(u)',
               j \in ItemsIn(inv'[t]), j \in ItemsIn(inv'[u])
        PROVE  t = u
    BY <1>2, <1>3, <2>1, <2>6, <2>7 DEF WithOnePlayer
  <2>8. WithOnePlayer(j)'
    BY <2>5, <2>7 DEF WithOnePlayer
  <2>9. ASSUME NEW b \in Accounts, j \in ItemsOf(file'[b])
        PROVE  /\ \A c \in Accounts : j \in ItemsOf(file'[c]) => c = b
               /\ \A t \in Sessions : Active(t)' /\ j \in ItemsIn(inv'[t]) => AccountOf[t] = b
               /\ \A t, u \in Sessions :
                      Active(t)' /\ Active(u)' /\ AccountOf[t] = b /\ AccountOf[u] = b => t = u
    <3>1. \A c \in Accounts : j \in ItemsOf(file'[c]) => c = b
      BY <1>5, <2>1, <2>9 DEF InOneFile
    <3>2. ASSUME NEW t \in Sessions, Active(t)', j \in ItemsIn(inv'[t]) PROVE AccountOf[t] = b
      <4>1. CASE t = s
        BY <1>1, <1>2, <1>5, <3>1, <3>2, <4>1 DEF a
      <4>2. CASE t # s
        BY <1>2, <1>3, <1>5, <2>1, <2>9, <3>2, <4>2 DEF InOneFile
      <4> QED
        BY <4>1, <4>2
    <3>3. ASSUME NEW t \in Sessions, NEW u \in Sessions, Active(t)', Active(u)',
                 AccountOf[t] = b, AccountOf[u] = b
          PROVE  t = u
      <4>1. CASE b = a
        BY <1>3, <1>5, <2>2, <2>9, <3>3, <4>1
      <4>2. CASE b # a
        BY <1>3, <1>5, <2>1, <2>9, <3>3, <4>2 DEF InOneFile, a
      <4> QED
        BY <4>1, <4>2
    <3> QED
      BY <3>1, <3>2, <3>3
  <2>10. \A b \in Accounts : InOneSlot(file'[b], j)
    BY <1>5, <2>1 DEF InOneFile
  <2> QED
    BY <2>3, <2>8, <2>9, <2>10 DEF InOneFile
<1> QED
  BY <1>8, <1>9 DEF PlacesInv

LEMMA PlacesStep == TypeInv /\ PlacesInv /\ [Next]_vars => PlacesInv'
<1> SUFFICES ASSUME TypeInv, PlacesInv, [Next]_vars PROVE PlacesInv'
  OBVIOUS
<1>0. \A s \in Sessions : Map(inv[s])
  BY DEF TypeInv
<1>1. ASSUME NEW i \in Items, Spawn(i) PROVE PlacesInv'
  <2>1. /\ i \notin made /\ made' = made \cup {i} /\ ground' = ground \cup {i}
        /\ UNCHANGED <<inv, status, picking, file, raced>>
    BY <1>1 DEF Spawn
  <2>2. ItemsAreMade'
    BY <2>1 DEF PlacesInv, ItemsAreMade
  <2>3. ASSUME NEW j \in made' \ raced', j # i
        PROVE  OnTheGround(j)' /\ WithOnePlayer(j)' /\ InOneFile(j)'
    BY <2>1, <2>3 DEF PlacesInv, OnTheGround, WithOnePlayer, InOneFile, Active
  <2>4. OnTheGround(i)' /\ WithOnePlayer(i)' /\ InOneFile(i)'
    <3>1. /\ \A s \in Sessions : i \notin ItemsIn(inv[s]) /\ <<s, i>> \notin picking
          /\ \A a \in Accounts : i \notin ItemsOf(file[a])
      BY <2>1 DEF PlacesInv, ItemsAreMade
    <3>2. \A s \in Sessions : InOneSlot(ToSet(inv[s]), i)
      BY <1>0, <3>1, ItemsInProperties DEF InOneSlot
    <3>3. \A a \in Accounts : InOneSlot(file[a], i)
      BY <3>1, ItemsAssumption DEF InOneSlot, ItemsOf, Air
    <3> QED
      BY <2>1, <3>1, <3>2, <3>3 DEF OnTheGround, WithOnePlayer, InOneFile
  <2> QED
    BY <2>1, <2>2, <2>3, <2>4 DEF PlacesInv
<1>2. ASSUME NEW s \in Sessions, NEW i \in Items, Collide(s, i) PROVE PlacesInv'
  <2>1. /\ i \in ground /\ picking' = picking \cup {<<s, i>>} /\ raced \subseteq raced'
        /\ UNCHANGED <<inv, status, ground, file, made>>
        /\ (\E t \in Sessions : <<t, i>> \in picking) => i \in raced'
    BY <1>2 DEF Collide
  <2>2. ItemsAreMade'
    BY <2>1 DEF PlacesInv, ItemsAreMade
  <2>3. ASSUME NEW j \in made' \ raced'
        PROVE  OnTheGround(j)' /\ WithOnePlayer(j)' /\ InOneFile(j)'
    <3>1. OnTheGround(j) /\ WithOnePlayer(j) /\ InOneFile(j)
      BY <2>1, <2>3 DEF PlacesInv
    <3>2. OnTheGround(j)'
      <4>1. CASE j = i
        BY <2>1, <2>3, <3>1, <4>1 DEF OnTheGround
      <4>2. CASE j # i
        BY <2>1, <3>1, <4>2 DEF OnTheGround
      <4> QED
        BY <4>1, <4>2
    <3> QED
      BY <2>1, <3>1, <3>2 DEF WithOnePlayer, InOneFile, Active
  <2> QED
    BY <2>2, <2>3 DEF PlacesInv
<1>3. ASSUME NEW s \in Sessions, NEW i \in Items, PickUp(s, i) PROVE PlacesInv'
  <2>1. Handling(inv[s], AddItem(inv[s], i), {i}, {}) /\ i \in made
    BY <1>0, <1>3, AddItemHandling DEF PickUp, PlacesInv, ItemsAreMade
  <2>2. /\ <<s, i>> \in picking /\ picking' = picking \ {<<s, i>>} /\ ground' = ground \ {i}
        /\ inv' = [inv EXCEPT ![s] = AddItem(@, i)] /\ UNCHANGED <<status, file, made, raced>>
    BY <1>3 DEF PickUp
  <2>3. made' = made \cup {i}
    BY <2>1, <2>2
  <2>4. ASSUME i \notin raced
        PROVE  /\ i \notin ground'
               /\ \A t \in Sessions : <<t, i>> \notin picking' /\ i \notin ItemsIn(inv[t])
               /\ \A a \in Accounts : i \notin ItemsOf(file[a])
    BY <2>1, <2>2, <2>4 DEF PlacesInv, OnTheGround
  <2> DEFINE n == AddItem(inv[s], i)
             added == {i}
  <2>5. /\ added \in SUBSET Items /\ ground' \subseteq ground /\ picking' \subseteq picking
        /\ UNCHANGED <<status, file, raced>> /\ made' = made \cup added
        /\ Handling(inv[s], n, added, {}) /\ inv' = [inv EXCEPT ![s] = n]
    BY <2>1, <2>2, <2>3
  <2>6. \A j \in Items \ added :
            /\ j \in ground => j \in ground'
            /\ \A t \in Sessions : <<t, j>> \in picking => <<t, j>> \in picking'
    BY <2>2
  <2>7. \A j \in added \ raced :
            /\ j \notin ground'
            /\ \A t \in Sessions : <<t, j>> \notin picking' /\ j \notin ItemsIn(inv[t])
            /\ \A a \in Accounts : j \notin ItemsOf(file[a])
    BY <2>4
  <2> HIDE DEF n, added
  <2> QED
    BY <2>5, <2>6, <2>7, HandlingKeepsPlaces
<1>4. ASSUME NEW s \in Sessions, NEW from \in SlotNumbers, NEW to \in SlotNumbers, MoveItem(s, from, to)
      PROVE  PlacesInv'
  <2> DEFINE n == SetItem(RemoveItem(inv[s], from), to, GetItem(inv[s], from))
             replaced == {GetItem(inv[s], to)} \ {Air}
  <2>1. Handling(inv[s], n, {}, replaced)
    BY <1>0, <1>4, MoveHandling DEF MoveItem
  <2>2. /\ inv' = [inv EXCEPT ![s] = n]
        /\ UNCHANGED <<status, file, raced, made, ground, picking>>
    BY <1>4 DEF MoveItem
  <2> HIDE DEF n, replaced
  <2> QED
    BY <2>1, <2>2, NothingAddedKeepsPlaces
<1>5. ASSUME NEW s \in Sessions, NEW from \in SlotNumbers, DropItem(s, from) PROVE PlacesInv'
  <2> DEFINE n == RemoveItem(inv[s], from)
             replaced == {GetItem(inv[s], from)} \ {Air}
  <2>1. Handling(inv[s], n, {}, replaced)
    BY <1>0, RemoveItemHandling
  <2>2. /\ inv' = [inv EXCEPT ![s] = n]
        /\ UNCHANGED <<status, file, raced, made, ground, picking>>
    BY <1>5 DEF DropItem
  <2> HIDE DEF n, replaced
  <2> QED
    BY <2>1, <2>2, NothingAddedKeepsPlaces
<1>6. ASSUME NEW s \in Sessions, NEW i \in Items, NEW to \in SlotNumbers, CreativeItem(s, i, to)
      PROVE  PlacesInv'
  <2> DEFINE n == SetItem(inv[s], to, i)
             replaced == {GetItem(inv[s], to)} \ {Air}
  <2>1. Handling(inv[s], n, {i}, replaced)
    BY <1>0, SetItemHandling
  <2>2. /\ i \notin made /\ made' = made \cup {i} /\ inv' = [inv EXCEPT ![s] = n]
        /\ UNCHANGED <<status, file, raced, ground, picking>>
    BY <1>6 DEF CreativeItem
  <2>3. /\ i \notin ground'
        /\ \A t \in Sessions : <<t, i>> \notin picking' /\ i \notin ItemsIn(inv[t])
        /\ \A a \in Accounts : i \notin ItemsOf(file[a])
    BY <2>2 DEF PlacesInv, ItemsAreMade
  <2> DEFINE added == {i}
  <2>4. /\ added \in SUBSET Items /\ ground' \subseteq ground /\ picking' \subseteq picking
        /\ UNCHANGED <<status, file, raced>> /\ made' = made \cup added
        /\ Handling(inv[s], n, added, replaced) /\ inv' = [inv EXCEPT ![s] = n]
    BY <2>1, <2>2
  <2>5. \A j \in Items \ added :
            /\ j \in ground => j \in ground'
            /\ \A t \in Sessions : <<t, j>> \in picking => <<t, j>> \in picking'
    BY <2>2
  <2>6. \A j \in added \ raced :
            /\ j \notin ground'
            /\ \A t \in Sessions : <<t, j>> \notin picking' /\ j \notin ItemsIn(inv[t])
            /\ \A a \in Accounts : j \notin ItemsOf(file[a])
    BY <2>3
  <2> HIDE DEF n, replaced, added
  <2> QED
    BY <2>4, <2>5, <2>6, HandlingKeepsPlaces
<1>7. ASSUME NEW s \in Sessions, Login(s) PROVE PlacesInv'
  BY <1>7, LoginKeepsPlaces
<1>8. ASSUME NEW s \in Sessions, Leave(s) PROVE PlacesInv'
  <2>1. \A t \in Sessions : Active(t)' <=> Active(t)
    BY <1>8 DEF Leave, Active, TypeInv
  <2>2. UNCHANGED <<inv, ground, picking, file, made, raced>>
    BY <1>8 DEF Leave
  <2> QED
    BY <2>1, <2>2 DEF PlacesInv, ItemsAreMade, OnTheGround, WithOnePlayer, InOneFile
<1>9. ASSUME NEW s \in Sessions, Disable(s) PROVE PlacesInv'
  <2>1. Active(s) /\ \A t \in Sessions : Active(t)' => Active(t)
    BY <1>9 DEF Disable, Active, TypeInv
  <2> QED
    BY <1>9, <2>1, SavingKeepsPlaces DEF Disable
<1>10. ASSUME NEW s \in Sessions, SaveAll(s) PROVE PlacesInv'
  <2>1. Active(s) /\ \A t \in Sessions : Active(t)' => Active(t)
    BY <1>10 DEF SaveAll, Active
  <2> QED
    BY <1>10, <2>1, SavingKeepsPlaces DEF SaveAll
<1>11. CASE UNCHANGED vars
  BY <1>11 DEF vars, PlacesInv, ItemsAreMade, OnTheGround, WithOnePlayer, InOneFile, Active
<1> QED
  BY <1>1, <1>2, <1>3, <1>4, <1>5, <1>6, <1>7, <1>8, <1>9, <1>10, <1>11 DEF Next

LEMMA AtMostOne ==
    ASSUME NEW S, \A x, y \in S : x = y
    PROVE  Cardinality(S) <= 1
<1>1. CASE S = {}
  BY <1>1, FS_EmptySet
<1>2. CASE S # {}
  <2>1. PICK x : S = {x}
    BY <1>2
  <2> QED
    BY <2>1, FS_Singleton
<1> QED
  BY <1>1, <1>2

\* No item is on the ground and with a player, with two players, or in two slots of
\* one, but those that two players touched at once and those of an account that was
\* logged in twice, whatever is moved, saved and loaded (NoItemTwice).
THEOREM ItemsAreNotDuplicated == Spec => []NoItemTwice
<1>1. TypeInv /\ PlacesInv => NoItemTwice
  <2> SUFFICES ASSUME TypeInv, PlacesInv, NEW i \in made \ raced
               PROVE  /\ Cardinality({s \in Sessions : Active(s) /\ i \in ItemsIn(inv[s])}
                                        \cup {g \in {"ground"} : i \in ground}) <= 1
                      /\ \A s \in Sessions : Cardinality({n \in DOMAIN inv[s] : inv[s][n].item = i}) <= 1
    BY DEF NoItemTwice
  <2>1. OnTheGround(i) /\ WithOnePlayer(i)
    BY DEF PlacesInv
  <2> DEFINE places == {s \in Sessions : Active(s) /\ i \in ItemsIn(inv[s])} \cup {g \in {"ground"} : i \in ground}
  <2>2. \A x, y \in places : x = y
    BY <2>1 DEF OnTheGround, WithOnePlayer
  <2>3. Cardinality(places) <= 1
    <3> HIDE DEF places
    <3> QED
      BY <2>2, AtMostOne
  <2>4. ASSUME NEW s \in Sessions PROVE Cardinality({n \in DOMAIN inv[s] : inv[s][n].item = i}) <= 1
    <3> DEFINE slots == {n \in DOMAIN inv[s] : inv[s][n].item = i}
    <3>1. Map(inv[s]) /\ InOneSlot(ToSet(inv[s]), i)
      BY <2>1 DEF TypeInv, WithOnePlayer
    <3>2. ASSUME NEW n \in slots, NEW k \in slots PROVE n = k
      <4>1. inv[s][n] = inv[s][k]
        BY <3>1 DEF InOneSlot, ToSet
      <4> QED
        BY <3>1, <4>1 DEF Map
    <3> HIDE DEF slots
    <3>3. Cardinality(slots) <= 1
      BY <3>2, AtMostOne
    <3> QED
      BY <3>3 DEF slots
  <2> QED
    BY <2>3, <2>4
<1> QED
  BY <1>1, TypeInit, TypeStep, PlacesInit, PlacesStep, PTL DEF Spec

-----------------------------------------------------------------------------
(* ItemsAreAccountedFor, which is inductive with the types                 *)

\* Where an item is that is not lost.
SomewhereKnown(i) ==
    \/ i \in ground
    \/ \E s \in Sessions : Active(s) /\ i \in ItemsIn(inv[s])
    \/ \E a \in Accounts : i \in ItemsOf(file[a]) /\ \A s \in Sessions : AccountOf[s] = a => ~Active(s)

\* A player's inventory changes; what is replaced in it counts as lost.
LEMMA HandlingKeepsTrack ==
    ASSUME TypeInv, NEW s \in Sessions, NEW n, NEW added, NEW replaced,
           Handling(inv[s], n, added, replaced), inv' = [inv EXCEPT ![s] = n],
           UNCHANGED <<status, file>>,
           NEW i, SomewhereKnown(i), i \notin replaced, i \in ground => i \in ground'
    PROVE  SomewhereKnown(i)'
<1>1. /\ \A t \in Sessions : t # s => inv'[t] = inv[t]
      /\ ItemsIn(inv[s]) \ replaced \subseteq ItemsIn(inv'[s])
  BY OneInventory DEF Handling
<1>2. \A t \in Sessions : i \in ItemsIn(inv[t]) => i \in ItemsIn(inv'[t])
  BY <1>1
<1> QED
  BY <1>2 DEF SomewhereKnown, Active

\* A save moves nothing out of sight, unless the account plays twice.
LEMMA SavingKeepsTrack ==
    ASSUME TypeInv, NEW s \in Sessions, Active(s), SavePlayerData({s}), UNCHANGED <<inv, ground>>,
           \A t \in Sessions \ {s} : Active(t)' <=> Active(t),
           NEW i, SomewhereKnown(i),
           Twice(s) => i \notin ItemsIn(inv[s])
    PROVE  SomewhereKnown(i)'
<1>1. /\ AccountOf[s] \in Accounts
      /\ ItemsOf(file'[AccountOf[s]]) = ItemsIn(inv[s])
      /\ \A a \in Accounts : a # AccountOf[s] => file'[a] = file[a]
  BY OneSave, TypedItems, SavedEntries
<1>2. CASE i \in ground
  BY <1>2 DEF SomewhereKnown
<1>3. ASSUME NEW t \in Sessions, Active(t), i \in ItemsIn(inv[t]) PROVE SomewhereKnown(i)'
  <2>1. CASE Active(t)'
    BY <1>3, <2>1 DEF SomewhereKnown
  <2>2. CASE ~Active(t)'
    <3>1. t = s
      BY <1>3, <2>2
    <3>2. \A u \in Sessions : AccountOf[u] = AccountOf[s] => ~Active(u)'
      BY <1>3, <2>2, <3>1 DEF Twice
    <3> QED
      BY <1>1, <1>3, <3>1, <3>2 DEF SomewhereKnown
  <2> QED
    BY <2>1, <2>2
<1>4. ASSUME NEW a \in Accounts, i \in ItemsOf(file[a]), \A t \in Sessions : AccountOf[t] = a => ~Active(t)
      PROVE  SomewhereKnown(i)'
  <2>1. a # AccountOf[s]
    BY <1>4
  <2>2. \A t \in Sessions : AccountOf[t] = a => ~Active(t)'
    BY <1>4, <2>1
  <2> QED
    BY <1>1, <1>4, <2>1, <2>2 DEF SomewhereKnown
<1> QED
  BY <1>2, <1>3, <1>4 DEF SomewhereKnown

\* A login puts what the file holds in the inventory.
LEMMA LoginKeepsTrack ==
    ASSUME TypeInv, NEW s \in Sessions, Login(s), NEW i, SomewhereKnown(i)
    PROVE  SomewhereKnown(i)'
<1>1. /\ AccountOf[s] \in Accounts
      /\ ItemsIn(Restored(file[AccountOf[s]])) = ItemsOf(file[AccountOf[s]])
      /\ Map(Restored(file[AccountOf[s]]))
  BY TypedItems, RestoredEntries
<1>2. /\ ItemsIn(inv'[s]) = ItemsOf(file[AccountOf[s]])
      /\ \A t \in Sessions : t # s => inv'[t] = inv[t]
      /\ UNCHANGED <<ground, file>>
  BY <1>1, OneInventory DEF Login
<1>3. ~Active(s) /\ Active(s)' /\ \A t \in Sessions : t # s => (Active(t)' <=> Active(t))
  BY DEF Login, Active, TypeInv
<1>4. ASSUME NEW a \in Accounts, i \in ItemsOf(file[a]), \A t \in Sessions : AccountOf[t] = a => ~Active(t)
      PROVE  SomewhereKnown(i)'
  <2>1. CASE a = AccountOf[s]
    BY <1>2, <1>3, <1>4, <2>1 DEF SomewhereKnown
  <2>2. CASE a # AccountOf[s]
    <3>1. \A t \in Sessions : AccountOf[t] = a => ~Active(t)'
      BY <1>3, <1>4, <2>2
    <3> QED
      BY <1>2, <1>4, <3>1 DEF SomewhereKnown
  <2> QED
    BY <2>1, <2>2
<1>5. ASSUME NEW t \in Sessions, Active(t), i \in ItemsIn(inv[t]) PROVE SomewhereKnown(i)'
  BY <1>2, <1>3, <1>5 DEF SomewhereKnown
<1>6. CASE i \in ground
  BY <1>2, <1>6 DEF SomewhereKnown
<1> QED
  BY <1>4, <1>5, <1>6 DEF SomewhereKnown

LEMMA AccountedStep == TypeInv /\ ItemsAreAccountedFor /\ [Next]_vars => ItemsAreAccountedFor'
<1> SUFFICES ASSUME TypeInv, ItemsAreAccountedFor, [Next]_vars,
                    NEW i \in made' \ (lost' \cup raced')
             PROVE  SomewhereKnown(i)'
  BY DEF ItemsAreAccountedFor, SomewhereKnown
<1>0. /\ i \in made /\ i \notin lost /\ i \notin raced => SomewhereKnown(i)
      /\ i \notin lost' /\ i \notin raced' /\ i \in made' /\ \A s \in Sessions : Map(inv[s])
  BY DEF ItemsAreAccountedFor, SomewhereKnown, TypeInv
<1>1. ASSUME NEW j \in Items, Spawn(j) PROVE SomewhereKnown(i)'
  <2>1. CASE i = j
    BY <1>1, <2>1 DEF Spawn, SomewhereKnown
  <2>2. CASE i # j
    <3>1. SomewhereKnown(i)
      BY <1>0, <1>1, <2>2 DEF Spawn
    <3> QED
      BY <1>1, <3>1 DEF Spawn, SomewhereKnown, Active
  <2> QED
    BY <2>1, <2>2
<1>2. ASSUME NEW s \in Sessions, NEW j \in Items, Collide(s, j) PROVE SomewhereKnown(i)'
  <2>1. raced \subseteq raced' /\ UNCHANGED <<inv, status, ground, file, made, lost>>
    BY <1>2 DEF Collide
  <2>2. SomewhereKnown(i)
    BY <1>0, <2>1
  <2> QED
    BY <2>1, <2>2 DEF SomewhereKnown, Active
<1>3. ASSUME NEW s \in Sessions, NEW j \in Items, PickUp(s, j) PROVE SomewhereKnown(i)'
  <2> DEFINE n == AddItem(inv[s], j)
  <2>1. /\ inv' = [inv EXCEPT ![s] = n] /\ ground' = ground \ {j}
        /\ lost' = IF FreeSlots(inv[s]) = {} \/ ~Active(s) THEN lost \cup {j} ELSE lost
        /\ UNCHANGED <<status, file, made, raced>>
    BY <1>3 DEF PickUp
  <2>2. SomewhereKnown(i)
    BY <1>0, <2>1
  <2>3. CASE i = j
    <3>1. FreeSlots(inv[s]) # {} /\ Active(s)
      BY <1>0, <2>1, <2>3
    <3>2. Map(n) /\ i \in ItemsIn(n)
      BY <1>0, <2>3, <3>1, AddItemHandling DEF Handling
    <3> HIDE DEF n
    <3>3. i \in ItemsIn(inv'[s])
      BY <2>1, <3>2, OneInventory
    <3> QED
      BY <2>1, <3>1, <3>3 DEF SomewhereKnown, Active
  <2>4. CASE i # j
    <3> DEFINE none == {}
    <3>1. Handling(inv[s], n, {j}, none) /\ i \notin none
      BY <1>0, AddItemHandling
    <3>2. i \in ground => i \in ground'
      BY <2>1, <2>4
    <3> HIDE DEF n, none
    <3> QED
      BY <2>1, <2>2, <3>1, <3>2, HandlingKeepsTrack
  <2> QED
    BY <2>3, <2>4
<1>4. ASSUME NEW s \in Sessions, NEW from \in SlotNumbers, NEW to \in SlotNumbers, MoveItem(s, from, to)
      PROVE  SomewhereKnown(i)'
  <2> DEFINE n == SetItem(RemoveItem(inv[s], from), to, GetItem(inv[s], from))
             replaced == {GetItem(inv[s], to)} \ {Air}
  <2>1. Handling(inv[s], n, {}, replaced)
    BY <1>0, <1>4, MoveHandling DEF MoveItem
  <2>2. /\ inv' = [inv EXCEPT ![s] = n] /\ lost' = lost \cup replaced
        /\ UNCHANGED <<status, ground, file, raced, made>>
    BY <1>4 DEF MoveItem
  <2> HIDE DEF n, replaced
  <2>3. SomewhereKnown(i) /\ i \notin replaced
    BY <1>0, <2>2
  <2> QED
    BY <2>1, <2>2, <2>3, HandlingKeepsTrack
<1>5. ASSUME NEW s \in Sessions, NEW from \in SlotNumbers, DropItem(s, from) PROVE SomewhereKnown(i)'
  <2> DEFINE n == RemoveItem(inv[s], from)
             replaced == {GetItem(inv[s], from)} \ {Air}
  <2>1. Handling(inv[s], n, {}, replaced)
    BY <1>0, RemoveItemHandling
  <2>2. /\ inv' = [inv EXCEPT ![s] = n] /\ lost' = lost \cup replaced
        /\ UNCHANGED <<status, ground, file, raced, made>>
    BY <1>5 DEF DropItem
  <2> HIDE DEF n, replaced
  <2>3. SomewhereKnown(i) /\ i \notin replaced
    BY <1>0, <2>2
  <2> QED
    BY <2>1, <2>2, <2>3, HandlingKeepsTrack
<1>6. ASSUME NEW s \in Sessions, NEW j \in Items, NEW to \in SlotNumbers, CreativeItem(s, j, to)
      PROVE  SomewhereKnown(i)'
  <2> DEFINE n == SetItem(inv[s], to, j)
             replaced == {GetItem(inv[s], to)} \ {Air}
  <2>1. Handling(inv[s], n, {j}, replaced) /\ j \in ItemsIn(n) /\ Map(n)
    <3>1. Map(n) /\ [slot |-> to, item |-> j] \in ToSet(n) /\ [slot |-> to, item |-> j].item = j
      BY <1>0, SetItemEntries
    <3> HIDE DEF n
    <3>2. j \in ItemsIn(n)
      BY <3>1, EntryHolds
    <3> QED
      BY <1>0, <3>1, <3>2, SetItemHandling DEF n
  <2>2. /\ inv' = [inv EXCEPT ![s] = n] /\ lost' = lost \cup replaced /\ made' = made \cup {j}
        /\ status[s] = "online" /\ UNCHANGED <<status, ground, file, raced>>
    BY <1>6 DEF CreativeItem
  <2> HIDE DEF n, replaced
  <2>3. CASE i = j
    <3>1. Active(s)' /\ i \in ItemsIn(inv'[s])
      <4>1. inv'[s] = n
        BY <2>1, <2>2, OneInventory
      <4> QED
        BY <2>1, <2>2, <2>3, <4>1 DEF Active
    <3> QED
      BY <3>1 DEF SomewhereKnown
  <2>4. CASE i # j
    <3>1. SomewhereKnown(i) /\ i \notin replaced
      BY <1>0, <2>2, <2>4
    <3> QED
      BY <2>1, <2>2, <3>1, HandlingKeepsTrack
  <2> QED
    BY <2>3, <2>4
<1>7. ASSUME NEW s \in Sessions, Login(s) PROVE SomewhereKnown(i)'
  <2>1. SomewhereKnown(i)
    BY <1>0, <1>7 DEF Login
  <2> QED
    BY <1>7, <2>1, LoginKeepsTrack
<1>8. ASSUME NEW s \in Sessions, Leave(s) PROVE SomewhereKnown(i)'
  <2>1. \A t \in Sessions : Active(t)' <=> Active(t)
    BY <1>8 DEF Leave, Active, TypeInv
  <2>2. SomewhereKnown(i) /\ UNCHANGED <<inv, ground, file>>
    BY <1>0, <1>8 DEF Leave
  <2> QED
    BY <2>1, <2>2 DEF SomewhereKnown
<1>9. ASSUME NEW s \in Sessions, Disable(s) PROVE SomewhereKnown(i)'
  <2>1. Active(s) /\ \A t \in Sessions \ {s} : Active(t)' <=> Active(t)
    BY <1>9 DEF Disable, Active, TypeInv
  <2>2. SomewhereKnown(i) /\ (Twice(s) => i \notin ItemsIn(inv[s]))
    BY <1>0, <1>9 DEF Disable
  <2>3. SavePlayerData({s}) /\ UNCHANGED <<inv, ground>>
    BY <1>9 DEF Disable
  <2> QED
    BY <2>1, <2>2, <2>3, SavingKeepsTrack
<1>10. ASSUME NEW s \in Sessions, SaveAll(s) PROVE SomewhereKnown(i)'
  <2>1. Active(s) /\ \A t \in Sessions \ {s} : Active(t)' <=> Active(t)
    BY <1>10 DEF SaveAll, Active
  <2>2. SomewhereKnown(i) /\ (Twice(s) => i \notin ItemsIn(inv[s]))
    BY <1>0, <1>10 DEF SaveAll
  <2>3. SavePlayerData({s}) /\ UNCHANGED <<inv, ground>>
    BY <1>10 DEF SaveAll
  <2> QED
    BY <2>1, <2>2, <2>3, SavingKeepsTrack
<1>11. CASE UNCHANGED vars
  BY <1>0, <1>11 DEF vars, SomewhereKnown, Active
<1> QED
  BY <1>1, <1>2, <1>3, <1>4, <1>5, <1>6, <1>7, <1>8, <1>9, <1>10, <1>11 DEF Next

\* No item vanishes but in the named ways: every other is on the ground, with a
\* player that plays, or in the file of an account that does not play
\* (ItemsAreAccountedFor).
THEOREM NoItemVanishes == Spec => []ItemsAreAccountedFor
<1>1. Init => ItemsAreAccountedFor
  BY DEF Init, ItemsAreAccountedFor
<1> QED
  BY <1>1, TypeInit, TypeStep, AccountedStep, PTL DEF Spec

=============================================================================
