--------------------------- MODULE WorldBlocksProofs ---------------------------
(***************************************************************************)
(* What WorldBlocks guarantees for any positions, chunks and blocks, and   *)
(* any number of calls, edits, ticks and crashes.                          *)
(***************************************************************************)
EXTENDS WorldBlocks, TLAPS

-----------------------------------------------------------------------------
(* Types                                                                   *)

LEMMA ReadType == ASSUME TypeOK PROVE \A p \in Pos : Read(p) \in Block
BY WorldAssumption DEF TypeOK, Read

\* What a load makes of the map.
LEMMA LoadedType ==
    ASSUME TypeOK, NEW w \in ChunksMap, NEW c \in Chunk
    PROVE  /\ Loaded(w, c) \in ChunksMap
           /\ Loaded(w, c).loaded = w.loaded \cup {c}
           /\ Loaded(w, c).block = [p \in Pos |-> IF ChunkOf[p] = c THEN Read(p) ELSE w.block[p]]
           /\ Loaded(w, c).changed = IF file[c] = "whole" THEN w.changed \ {c} ELSE w.changed \cup {c}
BY ReadType DEF Loaded, ChunksMap

LEMMA WithBlockType ==
    ASSUME NEW w \in ChunksMap, NEW p \in Pos, NEW b \in Block
    PROVE  /\ WithBlock(w, p, b) \in ChunksMap
           /\ WithBlock(w, p, b).loaded = w.loaded
           /\ WithBlock(w, p, b).block = [w.block EXCEPT ![p] = b]
           /\ WithBlock(w, p, b).changed = w.changed \cup {ChunkOf[p]}
BY WorldAssumption DEF WithBlock, ChunksMap

LEMMA WithBlockLoads ==
    \A w \in ChunksMap, p \in Pos, b \in Block :
        WithBlock(w, p, b) \in ChunksMap /\ WithBlock(w, p, b).loaded = w.loaded
BY WorldAssumption DEF WithBlock, ChunksMap

\* What a waiting call waits with.
LEMMA CallType ==
    /\ Idle \in Calls
    /\ \A s \in {"clicked", "placed"}, p \in Pos, q \in Pos, b \in Placeable :
           Placing(s, p, q, b) \in Calls
    /\ \A s \in {"load", "sent", "dropped"}, p \in Pos, b \in Block, l \in BOOLEAN :
           Breaking(s, p, b, l) \in Calls
BY DEF Calls

LEMMA PlacingType ==
    ASSUME NEW call \in Calls, call.kind = "place"
    PROVE  call.pos \in Pos /\ call.to \in Pos /\ call.block \in Placeable
BY DEF Calls, Placing, Breaking, Idle

LEMMA BreakingType ==
    ASSUME NEW call \in Calls, call.kind = "break"
    PROVE  /\ call.pos \in Pos /\ call.block \in Block /\ call.live \in BOOLEAN
           /\ call.stage \in {"load", "sent", "dropped"}
BY DEF Calls, Placing, Breaking, Idle

\* A load takes the map's chunk away from the breaks that hold it.
LEMMA OrphanedType ==
    ASSUME TypeOK, NEW c
    PROVE  Orphaned(c) \in [CallIds -> Calls]
<1>1. \A k \in CallIds : calls[k] \in Calls
  BY DEF TypeOK
<1>2. ASSUME NEW k \in CallIds, calls[k].kind = "break"
      PROVE  Breaking(calls[k].stage, calls[k].pos, calls[k].block, FALSE) \in Calls
  BY <1>1, <1>2, BreakingType, CallType
<1> QED
  BY <1>1, <1>2 DEF Orphaned

\* What a handler's step leaves alone, and the history it writes.
LEMMA HandledType ==
    ASSUME TypeOK, NEW w \in ChunksMap, NEW c, Handled(w, c)
    PROVE  /\ world' = w /\ exposed' \subseteq Pos /\ exposed \subseteq exposed'
           /\ past' \in [Pos -> SUBSET Block]
           /\ UNCHANGED <<disk, saves, tick, stop, unsaved, crashes>>
<1>1. world' = w /\ exposed' \subseteq Pos /\ exposed \subseteq exposed'
  BY DEF Handled, TypeOK
<1>2. past' \in [Pos -> SUBSET Block]
  BY DEF Handled, TypeOK, ChunksMap
<1> QED
  BY <1>1, <1>2 DEF Handled

\* A step of a handler keeps the types.
LEMMA HandlerType ==
    ASSUME TypeOK, NEW w \in ChunksMap, NEW c, Handled(w, c),
           calls' \in [CallIds -> Calls], supply' \in [Pos -> Int], contested' \subseteq Pos,
           edits' \in 0 .. MaxEdits
    PROVE  TypeOK'
BY HandledType DEF TypeOK, disk

\* useItemOn from the clicked chunk on.
LEMMA FromClickedType ==
    ASSUME TypeOK, NEW k \in CallIds, NEW p \in Pos, NEW q \in Pos, NEW b \in Placeable,
           NEW w \in ChunksMap, NEW c, NEW others \in [CallIds -> Calls],
           FromClicked(k, p, q, b, w, c, others), edits' \in 0 .. MaxEdits
    PROVE  TypeOK'
<1> DEFINE to == IF w.block[p] \in Replaceable THEN p ELSE q
<1>1. to \in Pos /\ b \in Block
  BY WorldAssumption
<1>2. supply' \in [Pos -> Int] /\ contested' \subseteq Pos
  BY <1>1 DEF FromClicked, TypeOK
<1>3. calls' \in [CallIds -> Calls]
  BY <1>1, CallType DEF FromClicked
<1>4. WithBlock(w, to, b) \in ChunksMap
  BY <1>1, WithBlockType
<1>5. Handled(w, c) \/ Handled(WithBlock(w, to, b), c)
  BY DEF FromClicked
<1> HIDE DEF to
<1> QED
  BY <1>2, <1>3, <1>4, <1>5, HandlerType

LEMMA HandlersType ==
    \A k \in CallIds :
        TypeOK /\ (\/ \E p \in Pos, b \in Placeable : \E q \in Around[p] : Place(k, p, q, b)
                   \/ \E p \in Pos : Break(k, p)
                   \/ PlaceClicked(k) \/ PlacePlaced(k) \/ BreakLoaded(k) \/ SpawnDrop(k)
                   \/ FinishBreak(k)) => TypeOK'
<1> SUFFICES ASSUME TypeOK, NEW k \in CallIds PROVE
        (\/ \E p \in Pos, b \in Placeable : \E q \in Around[p] : Place(k, p, q, b)
         \/ \E p \in Pos : Break(k, p)
         \/ PlaceClicked(k) \/ PlacePlaced(k) \/ BreakLoaded(k) \/ SpawnDrop(k)
         \/ FinishBreak(k)) => TypeOK'
  OBVIOUS
<1>0. /\ calls[k] \in Calls /\ calls \in [CallIds -> Calls] /\ edits \in 0 .. MaxEdits
      /\ world \in ChunksMap /\ MaxEdits \in Nat
      /\ supply \in [Pos -> Int] /\ contested \subseteq Pos
      /\ \A p \in Pos : ChunkOf[p] \in Chunk /\ Around[p] \subseteq Pos
      /\ Air \in Block /\ Placeable \subseteq Block
  BY WorldAssumption DEF TypeOK
<1>1. ASSUME NEW p \in Pos, NEW b \in Placeable, NEW q \in Around[p], Place(k, p, q, b)
      PROVE  TypeOK'
  <2>1. q \in Pos /\ edits' \in 0 .. MaxEdits
    BY <1>0, <1>1 DEF Place
  <2>2. CASE ChunkOf[p] \in world.loaded
    BY <1>0, <1>1, <2>1, <2>2, FromClickedType DEF Place
  <2>3. CASE ChunkOf[p] \notin world.loaded
    <3>1. calls' \in [CallIds -> Calls]
      BY <1>0, <1>1, <2>1, <2>3, CallType DEF Place
    <3> QED
      BY <1>1, <2>1, <2>3, <3>1 DEF Place, disk, history, TypeOK
  <2> QED
    BY <2>2, <2>3
<1>2. ASSUME NEW p \in Pos, Break(k, p) PROVE TypeOK'
  <2>1. edits' \in 0 .. MaxEdits /\ contested' \subseteq Pos
    BY <1>0, <1>2 DEF Break
  <2>2. calls' \in [CallIds -> Calls]
    <3>1. world.block[p] \in Block
      BY <1>0 DEF ChunksMap
    <3> QED
      BY <1>0, <1>2, <3>1, CallType DEF Break
  <2> QED
    BY <1>2, <2>1, <2>2 DEF Break, disk, TypeOK
<1>3. CASE PlaceClicked(k)
  <2> DEFINE c == ChunkOf[calls[k].pos]
  <2>1. calls[k].pos \in Pos /\ calls[k].to \in Pos /\ calls[k].block \in Placeable
    BY <1>0, <1>3, PlacingType DEF PlaceClicked
  <2>2. Loaded(world, c) \in ChunksMap /\ Orphaned(c) \in [CallIds -> Calls]
    BY <1>0, <2>1, LoadedType, OrphanedType
  <2>3. /\ FromClicked(k, calls[k].pos, calls[k].to, calls[k].block, Loaded(world, c), c, Orphaned(c))
        /\ edits' = edits
    BY <1>3 DEF PlaceClicked
  <2> HIDE DEF c
  <2> QED
    BY <1>0, <2>1, <2>2, <2>3, FromClickedType
<1>4. CASE PlacePlaced(k)
  <2> DEFINE to == calls[k].to
             c == ChunkOf[to]
             w == WithBlock(Loaded(world, c), to, calls[k].block)
  <2>1. to \in Pos /\ calls[k].block \in Placeable
    BY <1>0, <1>4, PlacingType DEF PlacePlaced
  <2>2. w \in ChunksMap /\ Orphaned(c) \in [CallIds -> Calls]
    BY <1>0, <2>1, LoadedType, WithBlockType, OrphanedType
  <2>3. /\ Handled(w, c) /\ calls' = [Orphaned(c) EXCEPT ![k] = Idle]
        /\ supply' = [supply EXCEPT ![to] = @ + 1]
        /\ contested' = IF Others(k, to) THEN contested \cup {to} ELSE contested
        /\ edits' = edits
    BY <1>4 DEF PlacePlaced
  <2> HIDE DEF w, c
  <2>4. calls' \in [CallIds -> Calls] /\ supply' \in [Pos -> Int] /\ contested' \subseteq Pos
    BY <1>0, <2>1, <2>2, <2>3, CallType
  <2> QED
    BY <1>0, <2>2, <2>3, <2>4, HandlerType
<1>5. CASE BreakLoaded(k)
  <2> DEFINE p == calls[k].pos
             c == ChunkOf[p]
  <2>1. p \in Pos
    BY <1>0, <1>5, BreakingType DEF BreakLoaded
  <2>2. Loaded(world, c) \in ChunksMap /\ Orphaned(c) \in [CallIds -> Calls] /\ Read(p) \in Block
    BY <1>0, <2>1, LoadedType, OrphanedType, ReadType
  <2>3. /\ Handled(Loaded(world, c), c)
        /\ calls' = [Orphaned(c) EXCEPT ![k] = Breaking("sent", p, Read(p), TRUE)]
        /\ UNCHANGED <<edits, supply, contested>>
    BY <1>5 DEF BreakLoaded
  <2> HIDE DEF c
  <2>4. calls' \in [CallIds -> Calls]
    BY <2>1, <2>2, <2>3, CallType
  <2> QED
    BY <1>0, <2>2, <2>3, <2>4, HandlerType
<1>6. CASE SpawnDrop(k)
  <2>1. PICK s \in {"load", "sent", "dropped"}, p \in Pos, b \in Block, l \in BOOLEAN :
            calls[k] = Breaking(s, p, b, l)
    BY <1>0, <1>6 DEF SpawnDrop, Calls, Placing, Idle
  <2>2. [calls[k] EXCEPT !.stage = "dropped"] = Breaking("dropped", p, b, l)
    BY <2>1 DEF Breaking
  <2>3. calls' \in [CallIds -> Calls]
    BY <1>0, <1>6, <2>2, CallType DEF SpawnDrop
  <2>4. supply' \in [Pos -> Int]
    <3>1. Solid(calls[k].block) \in Int
      BY DEF Solid
    <3>2. calls[k].pos \in Pos
      BY <1>0, <1>6, BreakingType DEF SpawnDrop
    <3> QED
      BY <1>0, <1>6, <3>1, <3>2 DEF SpawnDrop
  <2> QED
    BY <1>6, <2>3, <2>4 DEF SpawnDrop, disk, TypeOK
<1>7. CASE FinishBreak(k)
  <2>1. calls[k].pos \in Pos
    BY <1>0, <1>7, BreakingType DEF FinishBreak
  <2> DEFINE w == IF calls[k].live THEN WithBlock(world, calls[k].pos, Air) ELSE world
  <2>2. w \in ChunksMap
    BY <1>0, <2>1, WithBlockType
  <2>3. Handled(w, NoChunk) /\ calls' = [calls EXCEPT ![k] = Idle] /\ UNCHANGED <<edits, supply, contested>>
    BY <1>7 DEF FinishBreak
  <2> HIDE DEF w
  <2> QED
    BY <1>0, <2>2, <2>3, CallType, HandlerType
<1> QED
  BY <1>1, <1>2, <1>3, <1>4, <1>5, <1>6, <1>7

\* Ticks, saves, the stop and the crash.
LEMMA SaveType ==
    ASSUME TypeOK, NEW s \in {"tick", "stop"}, SaveStarts(s)
    PROVE  saves' \in [{"tick", "stop"} -> Save]
<1> DEFINE new == [on |-> TRUE, of |-> [c \in Chunk |-> IF c \in world.changed THEN "queued" ELSE "done"],
                   block |-> [p \in Pos |-> IF ChunkOf[p] \in world.changed THEN world.block[p]
                                                                            ELSE Generated[p]]]
<1>1. new \in Save
  <2>1. /\ [c \in Chunk |-> IF c \in world.changed THEN "queued" ELSE "done"]
               \in [Chunk -> {"queued", "open", "done"}]
        /\ [p \in Pos |-> IF ChunkOf[p] \in world.changed THEN world.block[p] ELSE Generated[p]]
               \in [Pos -> Block]
    BY WorldAssumption DEF TypeOK, ChunksMap
  <2> QED
    BY <2>1 DEF Save
<1>2. saves' = [saves EXCEPT ![s] = new]
  BY DEF SaveStarts
<1> HIDE DEF new
<1> QED
  BY <1>1, <1>2 DEF TypeOK

LEMMA NoSaveType == NoSave \in Save
BY WorldAssumption DEF NoSave, Save

LEMMA GoneType ==
    ASSUME TypeOK, Gone, exposed' \subseteq Pos, crashes' \in 0 .. MaxCrashes
    PROVE  TypeOK'
<1>1. world' \in ChunksMap
  BY WorldAssumption DEF Gone, NoWorld, ChunksMap
<1>2. calls' \in [CallIds -> Calls] /\ saves' \in [{"tick", "stop"} -> Save]
  BY CallType, NoSaveType DEF Gone
<1>3. supply' \in [Pos -> Int] /\ past' \in [Pos -> SUBSET Block]
  <2>1. \A b : Solid(b) \in Int
    BY DEF Solid
  <2> QED
    BY <2>1, ReadType DEF Gone, TypeOK
<1>4. tick' \in 0 .. SaveAt + 1 /\ edits' \in 0 .. MaxEdits /\ unsaved' \in 0 .. MaxTicks
  BY WorldAssumption DEF Gone
<1> QED
  BY <1>1, <1>2, <1>3, <1>4 DEF Gone, disk, TypeOK

LEMMA FilesType ==
    \A s \in {"tick", "stop"}, c \in Chunk : TypeOK /\ (OpenFile(s, c) \/ FillFile(s, c)) => TypeOK'
<1> SUFFICES ASSUME NEW s \in {"tick", "stop"}, NEW c \in Chunk, TypeOK, OpenFile(s, c) \/ FillFile(s, c)
             PROVE  TypeOK'
  OBVIOUS
<1>1. saves[s] \in Save /\ saves \in [{"tick", "stop"} -> Save]
  BY DEF TypeOK
<1>2. saves' \in [{"tick", "stop"} -> Save]
  BY <1>1 DEF OpenFile, FillFile, Save
<1>3. kept' \in [Pos -> Block]
  BY <1>1, WorldAssumption DEF OpenFile, FillFile, Save, TypeOK
<1>4. file' \in [Chunk -> {"none", "torn", "whole"}]
  BY DEF OpenFile, FillFile, TypeOK
<1>5. UNCHANGED <<world, calls, tick, stop, edits, supply, contested, exposed, past, unsaved, crashes>>
  BY DEF OpenFile, FillFile, history
<1> QED
  BY <1>2, <1>3, <1>4, <1>5 DEF TypeOK

LEMMA TypeStep == TypeOK /\ [Next]_vars => TypeOK'
<1> SUFFICES ASSUME TypeOK, [Next]_vars PROVE TypeOK'
  OBVIOUS
<1>0. SaveAt \in Nat /\ MaxTicks \in Nat /\ MaxCrashes \in Nat /\ Times \subseteq 0 .. SaveAt
  BY WorldAssumption
<1>1. CASE Tick
  <2>1. tick' \in 0 .. SaveAt + 1 /\ unsaved' \in 0 .. MaxTicks
    BY <1>0, <1>1 DEF Tick, TypeOK
  <2>2. saves' \in [{"tick", "stop"} -> Save]
    BY <1>1, SaveType DEF Tick, TypeOK
  <2> QED
    BY <1>1, <2>1, <2>2 DEF Tick, disk, TypeOK
<1>2. CASE TickSaved
  <2>1. tick' \in 0 .. SaveAt + 1
    BY <1>0, <1>2 DEF TickSaved, TypeOK
  <2>2. saves' \in [{"tick", "stop"} -> Save]
    BY <1>2, NoSaveType DEF TickSaved, TypeOK
  <2> QED
    BY <1>2, <2>1, <2>2 DEF TickSaved, disk, history, TypeOK
<1>3. ASSUME NEW t \in Times, SetTicks(t) PROVE TypeOK'
  <2>1. tick' \in 0 .. SaveAt + 1
    BY <1>0, <1>3 DEF SetTicks
  <2> QED
    BY <1>3, <2>1 DEF SetTicks, disk, history, TypeOK
<1>4. CASE Kill
  BY <1>4 DEF Kill, disk, history, TypeOK
<1>5. CASE KillSaves
  <2>1. saves' \in [{"tick", "stop"} -> Save]
    BY <1>5, SaveType DEF KillSaves
  <2>2. exposed' \subseteq Pos
    BY <1>5 DEF KillSaves, TypeOK
  <2> QED
    BY <1>5, <2>1, <2>2 DEF KillSaves, disk, TypeOK
<1>6. CASE KillSaved
  <2>1. saves' \in [{"tick", "stop"} -> Save]
    BY <1>6, NoSaveType DEF KillSaved, TypeOK
  <2> QED
    BY <1>6, <2>1 DEF KillSaved, disk, history, TypeOK
<1>7. CASE Exit
  BY <1>7, GoneType DEF Exit, TypeOK
<1>8. CASE Crash
  <2>1. crashes' \in 0 .. MaxCrashes /\ exposed' \subseteq Pos
    BY <1>0, <1>8 DEF Crash, TypeOK
  <2> QED
    BY <1>8, <2>1, GoneType DEF Crash
<1>9. CASE Start
  <2>1. world' \in ChunksMap
    BY <1>9, ReadType, WorldAssumption DEF Start, ChunksMap
  <2> QED
    BY <1>9, <2>1 DEF Start, disk, TypeOK
<1>10. CASE UNCHANGED vars
  BY <1>10 DEF vars, disk, history, TypeOK
<1> QED
  BY <1>1, <1>2, <1>3, <1>4, <1>5, <1>6, <1>7, <1>8, <1>9, <1>10, HandlersType, FilesType DEF Next

\* Chunks, files, calls and saves keep their types, whatever overlaps and crashes.
THEOREM TypeCorrect == Spec => []TypeOK
<1>1. Init => TypeOK
  <2> SUFFICES ASSUME Init PROVE TypeOK
    OBVIOUS
  <2>1. world \in ChunksMap
    BY WorldAssumption DEF Init, NoWorld, ChunksMap
  <2>2. calls \in [CallIds -> Calls] /\ saves \in [{"tick", "stop"} -> Save]
    BY CallType, NoSaveType DEF Init
  <2>3. supply \in [Pos -> Int] /\ past \in [Pos -> SUBSET Block]
    <3>1. \A b : Solid(b) \in Int
      BY DEF Solid
    <3> QED
      BY <3>1, WorldAssumption DEF Init
  <2> QED
    BY <2>1, <2>2, <2>3, WorldAssumption DEF Init, TypeOK
<1> QED
  BY <1>1, TypeStep, PTL DEF Spec

-----------------------------------------------------------------------------
(* What hasChanged covers.  UnchangedIsOnDisk is not inductive: a write    *)
(* that is under way changes the file of its chunk, so such a chunk must   *)
(* be marked; and a break that ends marks the chunk it holds, which must   *)
(* be in the map.                                                          *)

\* The chunks of a map that are not marked are as their files have them.
Marked(w, ex) ==
    /\ w.changed \subseteq w.loaded
    /\ \A p \in Pos \ ex : ChunkOf[p] \in w.loaded \ w.changed => w.block[p] = Read(p)

\* A chunk that is being written is marked, or was loaded again meanwhile.
Pending(w, ex) ==
    \A s \in {"tick", "stop"}, c \in Chunk : saves[s].of[c] # "done" =>
        c \in w.loaded /\ (c \in w.changed \/ PosOf(c) \subseteq ex)

\* A break that holds a chunk of the map holds one that is in it.
Holding(cs, w) ==
    \A k \in CallIds :
        cs[k].kind = "break" /\ cs[k].stage # "load" /\ cs[k].live => ChunkOf[cs[k].pos] \in w.loaded

\* Nothing of a process that is gone goes on.
GoneIsGone ==
    stop = "off" => /\ \A k \in CallIds : calls[k] = Idle
                    /\ \A s \in {"tick", "stop"}, c \in Chunk : saves[s].of[c] = "done"

DiskInv == Marked(world, exposed) /\ Pending(world, exposed) /\ Holding(calls, world) /\ GoneIsGone

\* A load reads what the file has, or marks the chunk it generates.
LEMMA LoadedMarked ==
    ASSUME TypeOK, Marked(world, exposed), Pending(world, exposed), NEW c \in Chunk, NEW ex,
           exposed \subseteq ex, \A p \in Pos : ChunkOf[p] = c /\ c \in world.loaded => p \in ex
    PROVE  Marked(Loaded(world, c), ex) /\ Pending(Loaded(world, c), ex)
<1> DEFINE w == Loaded(world, c)
<1>1. /\ w.loaded = world.loaded \cup {c}
      /\ w.block = [p \in Pos |-> IF ChunkOf[p] = c THEN Read(p) ELSE world.block[p]]
      /\ w.changed = IF file[c] = "whole" THEN world.changed \ {c} ELSE world.changed \cup {c}
  BY LoadedType DEF TypeOK
<1> HIDE DEF w
<1>2. w.changed \subseteq w.loaded
  BY <1>1 DEF Marked
<1>3. ASSUME NEW p \in Pos \ ex, ChunkOf[p] \in w.loaded \ w.changed
      PROVE  w.block[p] = Read(p)
  <2>1. CASE ChunkOf[p] = c
    BY <1>1, <2>1
  <2>2. CASE ChunkOf[p] # c
    <3>1. p \in Pos \ exposed /\ ChunkOf[p] \in world.loaded \ world.changed
      BY <1>1, <1>3, <2>2
    <3> QED
      BY <1>1, <2>2, <3>1 DEF Marked
  <2> QED
    BY <2>1, <2>2
<1>4. ASSUME NEW s \in {"tick", "stop"}, NEW d \in Chunk, saves[s].of[d] # "done"
      PROVE  d \in w.loaded /\ (d \in w.changed \/ PosOf(d) \subseteq ex)
  <2>1. d \in world.loaded /\ (d \in world.changed \/ PosOf(d) \subseteq exposed)
    BY <1>4 DEF Pending
  <2>2. CASE d = c
    BY <1>1, <2>1, <2>2 DEF PosOf
  <2>3. CASE d # c
    BY <1>1, <2>1, <2>3
  <2> QED
    BY <2>2, <2>3
<1> QED
  BY <1>2, <1>3, <1>4 DEF Marked, Pending, w

\* A block that is set in a chunk of the map marks it.
LEMMA WithBlockMarked ==
    ASSUME NEW w \in ChunksMap, NEW ex, Marked(w, ex), Pending(w, ex), NEW p \in Pos, NEW b \in Block,
           ChunkOf[p] \in w.loaded
    PROVE  Marked(WithBlock(w, p, b), ex) /\ Pending(WithBlock(w, p, b), ex)
<1> DEFINE v == WithBlock(w, p, b)
<1>1. v.loaded = w.loaded /\ v.block = [w.block EXCEPT ![p] = b] /\ v.changed = w.changed \cup {ChunkOf[p]}
  BY WithBlockType
<1> HIDE DEF v
<1>2. \A q \in Pos \ {p} : v.block[q] = w.block[q]
  BY <1>1 DEF ChunksMap
<1>3. Marked(v, ex)
  BY <1>1, <1>2 DEF Marked
<1>4. Pending(v, ex)
  BY <1>1 DEF Pending
<1> QED
  BY <1>3, <1>4 DEF v

\* The step of a handler, from what it makes of the map and the calls.
LEMMA HandledDisk ==
    ASSUME TypeOK, DiskInv, stop # "off", NEW w \in ChunksMap, NEW c, Handled(w, c),
           Marked(w, exposed'), Pending(w, exposed'), Holding(calls', w)
    PROVE  DiskInv'
<1>1. world' = w /\ UNCHANGED <<file, kept, saves, stop>>
  BY HandledType DEF disk
<1>2. \A p : Read(p)' = Read(p)
  BY <1>1 DEF Read
<1>3. Marked(world, exposed)'
  BY <1>1, <1>2 DEF Marked
<1>4. Pending(world, exposed)'
  BY <1>1 DEF Pending, PosOf
<1>5. Holding(calls, world)'
  BY <1>1 DEF Holding
<1> QED
  BY <1>1, <1>3, <1>4, <1>5 DEF DiskInv, GoneIsGone

\* What is exposed after a handler's step.
LEMMA HandledExposed ==
    ASSUME NEW w, NEW c, Handled(w, c)
    PROVE  exposed \subseteq exposed' /\ \A p \in Pos : ChunkOf[p] = c /\ c \in world.loaded => p \in exposed'
BY DEF Handled

LEMMA MoreExposed ==
    ASSUME NEW w, NEW ex, Marked(w, exposed), Pending(w, exposed), exposed \subseteq ex
    PROVE  Marked(w, ex) /\ Pending(w, ex)
BY DEF Marked, Pending

\* A load leaves the other chunks of the map where they are.
LEMMA OrphanedHolding ==
    ASSUME TypeOK, Holding(calls, world), NEW c \in Chunk
    PROVE  Holding(Orphaned(c), Loaded(world, c))
<1>1. Loaded(world, c).loaded = world.loaded \cup {c}
  BY LoadedType DEF TypeOK
<1> SUFFICES ASSUME NEW k \in CallIds, Orphaned(c)[k].kind = "break", Orphaned(c)[k].stage # "load",
                    Orphaned(c)[k].live
             PROVE  ChunkOf[Orphaned(c)[k].pos] \in world.loaded \cup {c}
  BY <1>1 DEF Holding
<1>2. CASE calls[k].kind = "break" /\ calls[k].stage # "load" /\ ChunkOf[calls[k].pos] = c
  BY <1>2 DEF Orphaned, Breaking
<1>3. CASE ~(calls[k].kind = "break" /\ calls[k].stage # "load" /\ ChunkOf[calls[k].pos] = c)
  BY <1>3 DEF Orphaned, Holding
<1> QED
  BY <1>2, <1>3

\* A call that waits with something else, or no more.
LEMMA HoldingExcept ==
    ASSUME NEW cs \in [CallIds -> Calls], NEW w, Holding(cs, w), NEW k \in CallIds, NEW new,
           new.kind = "break" /\ new.stage # "load" /\ new.live => ChunkOf[new.pos] \in w.loaded
    PROVE  Holding([cs EXCEPT ![k] = new], w)
BY DEF Holding

LEMMA IdleHoldsNothing ==
    /\ Idle.kind # "break"
    /\ \A s, p, q, b : Placing(s, p, q, b).kind # "break"
BY DEF Idle, Placing

\* useItemOn from the clicked chunk on.
LEMMA FromClickedDisk ==
    ASSUME TypeOK, DiskInv, stop # "off",
           NEW k \in CallIds, NEW p \in Pos, NEW q \in Pos, NEW b \in Placeable,
           NEW w \in ChunksMap, NEW c, NEW others \in [CallIds -> Calls],
           Holding(others, w), \A ex : exposed \subseteq ex
               /\ (\A r \in Pos : ChunkOf[r] = c /\ c \in world.loaded => r \in ex)
                     => Marked(w, ex) /\ Pending(w, ex),
           FromClicked(k, p, q, b, w, c, others)
    PROVE  DiskInv'
<1> DEFINE to == IF w.block[p] \in Replaceable THEN p ELSE q
           v == WithBlock(w, to, b)
<1>1. to \in Pos /\ b \in Block
  BY WorldAssumption
<1>2. /\ v \in ChunksMap /\ v.loaded = w.loaded
  <2> HIDE DEF to
  <2> QED
    BY <1>1, WithBlockLoads
<1>3. CASE Handled(v, c) /\ ChunkOf[to] \in w.loaded /\ calls' = [others EXCEPT ![k] = Idle]
  <2>1. Marked(w, exposed') /\ Pending(w, exposed')
    BY <1>2, <1>3, HandledExposed
  <2>2. Marked(v, exposed') /\ Pending(v, exposed')
    BY <1>1, <1>3, <2>1, WithBlockMarked
  <2>3. Holding(calls', w)
    BY <1>3, HoldingExcept, IdleHoldsNothing
  <2>4. Holding(calls', v)
    BY <1>2, <2>3 DEF Holding
  <2> HIDE DEF v
  <2> QED
    BY <1>2, <1>3, <2>2, <2>4, HandledDisk
<1>4. CASE Handled(w, c) /\ \E new : new.kind # "break" /\ calls' = [others EXCEPT ![k] = new]
  <2>1. Marked(w, exposed') /\ Pending(w, exposed')
    BY <1>4, HandledExposed
  <2>2. Holding(calls', w)
    <3>1. PICK new : new.kind # "break" /\ calls' = [others EXCEPT ![k] = new]
      BY <1>4
    <3>2. Holding([others EXCEPT ![k] = new], w)
      BY <3>1, HoldingExcept
    <3> QED
      BY <3>1, <3>2
  <2> QED
    BY <1>4, <2>1, <2>2, HandledDisk
<1> QED
  BY <1>3, <1>4, IdleHoldsNothing DEF FromClicked

LEMMA HandlersDisk ==
    \A k \in CallIds :
        TypeOK /\ DiskInv
            /\ (\/ \E p \in Pos, b \in Placeable : \E q \in Around[p] : Place(k, p, q, b)
                \/ \E p \in Pos : Break(k, p)
                \/ PlaceClicked(k) \/ PlacePlaced(k) \/ BreakLoaded(k) \/ SpawnDrop(k)
                \/ FinishBreak(k)) => DiskInv'
<1> SUFFICES ASSUME TypeOK, DiskInv, NEW k \in CallIds PROVE
        (\/ \E p \in Pos, b \in Placeable : \E q \in Around[p] : Place(k, p, q, b)
         \/ \E p \in Pos : Break(k, p)
         \/ PlaceClicked(k) \/ PlacePlaced(k) \/ BreakLoaded(k) \/ SpawnDrop(k)
         \/ FinishBreak(k)) => DiskInv'
  OBVIOUS
<1>0. /\ calls[k] \in Calls /\ calls \in [CallIds -> Calls] /\ world \in ChunksMap
      /\ \A p \in Pos : ChunkOf[p] \in Chunk /\ Around[p] \subseteq Pos
      /\ Air \in Block /\ Placeable \subseteq Block
  BY WorldAssumption DEF TypeOK
<1>00. /\ Marked(world, exposed) /\ Pending(world, exposed) /\ Holding(calls, world)
       /\ calls[k] # Idle => stop # "off"
  BY DEF DiskInv, GoneIsGone
<1>1. ASSUME NEW p \in Pos, NEW b \in Placeable, NEW q \in Around[p], Place(k, p, q, b)
      PROVE  DiskInv'
  <2>1. q \in Pos /\ stop # "off"
    BY <1>0, <1>1 DEF Place, Serving
  <2>2. CASE ChunkOf[p] \in world.loaded
    <3>1. \A ex : exposed \subseteq ex => Marked(world, ex) /\ Pending(world, ex)
      BY <1>00, <1>0, MoreExposed
    <3>2. FromClicked(k, p, q, b, world, NoChunk, calls)
      BY <1>1, <2>2 DEF Place
    <3> QED
      BY <1>0, <1>00, <2>1, <3>1, <3>2, FromClickedDisk
  <2>3. CASE ChunkOf[p] \notin world.loaded
    <3>1. calls' = [calls EXCEPT ![k] = Placing("clicked", p, q, b)]
          /\ UNCHANGED <<world, file, kept, saves, stop, exposed>>
      BY <1>1, <2>3 DEF Place, disk, history
    <3>2. Holding(calls', world)
      BY <1>0, <1>00, <3>1, HoldingExcept, IdleHoldsNothing
    <3> QED
      BY <1>00, <2>1, <3>1, <3>2 DEF DiskInv, GoneIsGone, Marked, Pending, PosOf, Holding, Read
  <2> QED
    BY <2>2, <2>3
<1>2. ASSUME NEW p \in Pos, Break(k, p) PROVE DiskInv'
  <2>1. stop # "off" /\ UNCHANGED <<world, file, kept, saves, stop, exposed>>
    BY <1>2 DEF Break, Serving, disk
  <2>2. Holding(calls', world)
    <3>1. CASE ChunkOf[p] \in world.loaded
      <4>1. calls' = [calls EXCEPT ![k] = Breaking("sent", p, world.block[p], TRUE)]
        BY <1>2, <3>1 DEF Break
      <4>2. Breaking("sent", p, world.block[p], TRUE).pos = p
        BY DEF Breaking
      <4> QED
        BY <1>0, <1>00, <3>1, <4>1, <4>2, HoldingExcept
    <3>2. CASE ChunkOf[p] \notin world.loaded
      <4>1. calls' = [calls EXCEPT ![k] = Breaking("load", p, Air, TRUE)]
        BY <1>2, <3>2 DEF Break
      <4>2. Breaking("load", p, Air, TRUE).stage = "load"
        BY DEF Breaking
      <4> QED
        BY <1>0, <1>00, <4>1, <4>2, HoldingExcept
    <3> QED
      BY <3>1, <3>2
  <2> QED
    BY <1>00, <2>1, <2>2 DEF DiskInv, GoneIsGone, Marked, Pending, PosOf, Holding, Read
<1>3. CASE PlaceClicked(k)
  <2> DEFINE c == ChunkOf[calls[k].pos]
  <2>1. calls[k].pos \in Pos /\ calls[k].to \in Pos /\ calls[k].block \in Placeable
    BY <1>0, <1>3, PlacingType DEF PlaceClicked
  <2>2. Loaded(world, c) \in ChunksMap /\ Orphaned(c) \in [CallIds -> Calls] /\ c \in Chunk
    BY <1>0, <2>1, LoadedType, OrphanedType
  <2>3. FromClicked(k, calls[k].pos, calls[k].to, calls[k].block, Loaded(world, c), c, Orphaned(c))
    BY <1>3 DEF PlaceClicked
  <2>4. stop # "off"
    BY <1>00, <1>3 DEF PlaceClicked, Idle
  <2> HIDE DEF c
  <2>5. \A ex : exposed \subseteq ex
            /\ (\A r \in Pos : ChunkOf[r] = c /\ c \in world.loaded => r \in ex)
                  => Marked(Loaded(world, c), ex) /\ Pending(Loaded(world, c), ex)
    BY <1>00, <2>2, LoadedMarked
  <2>6. Holding(Orphaned(c), Loaded(world, c))
    BY <1>00, <2>2, OrphanedHolding
  <2> QED
    BY <2>1, <2>2, <2>3, <2>4, <2>5, <2>6, FromClickedDisk
<1>4. CASE PlacePlaced(k)
  <2> DEFINE to == calls[k].to
             c == ChunkOf[to]
             l == Loaded(world, c)
             w == WithBlock(l, to, calls[k].block)
  <2>1. to \in Pos /\ calls[k].block \in Block /\ stop # "off"
    <3>1. calls[k].kind = "place"
      BY <1>4 DEF PlacePlaced
    <3>2. calls[k] # Idle
      BY <3>1 DEF Idle
    <3>3. calls[k].to \in Pos /\ calls[k].block \in Placeable
      BY <1>0, <3>1, PlacingType
    <3> QED
      BY <1>0, <1>00, <3>2, <3>3
  <2>2. c \in Chunk /\ l \in ChunksMap /\ c \in l.loaded
    <3>1. c \in Chunk
      BY <1>0, <2>1
    <3> HIDE DEF c
    <3>2. l \in ChunksMap /\ l.loaded = world.loaded \cup {c}
      BY <1>0, <3>1, LoadedType
    <3> QED
      BY <3>1, <3>2
  <2>3. w \in ChunksMap /\ w.loaded = l.loaded
    BY <2>1, <2>2, WithBlockLoads
  <2>4. Handled(w, c) /\ calls' = [Orphaned(c) EXCEPT ![k] = Idle]
    BY <1>4 DEF PlacePlaced
  <2>5. Marked(l, exposed') /\ Pending(l, exposed')
    <3>1. exposed \subseteq exposed' /\ \A p \in Pos : ChunkOf[p] = c /\ c \in world.loaded => p \in exposed'
      BY <2>4, HandledExposed
    <3> QED
      BY <1>00, <2>2, <3>1, LoadedMarked
  <2>6. Marked(w, exposed') /\ Pending(w, exposed')
    BY <2>1, <2>2, <2>5, WithBlockMarked
  <2>7. Holding(Orphaned(c), l) /\ Orphaned(c) \in [CallIds -> Calls]
    BY <1>00, <2>2, OrphanedHolding, OrphanedType
  <2> HIDE DEF w, l, c
  <2>8. Holding(calls', l)
    BY <2>4, <2>7, HoldingExcept, IdleHoldsNothing
  <2>9. Holding(calls', w)
    BY <2>3, <2>8 DEF Holding
  <2> QED
    BY <2>1, <2>3, <2>4, <2>6, <2>9, HandledDisk
<1>5. CASE BreakLoaded(k)
  <2> DEFINE p == calls[k].pos
             c == ChunkOf[p]
             l == Loaded(world, c)
  <2>1. p \in Pos /\ stop # "off"
    <3>1. calls[k].kind = "break"
      BY <1>5 DEF BreakLoaded
    <3>2. calls[k] # Idle
      BY <3>1 DEF Idle
    <3>3. calls[k].pos \in Pos
      BY <1>0, <3>1, BreakingType
    <3> QED
      BY <1>00, <3>2, <3>3
  <2>2. c \in Chunk /\ l \in ChunksMap /\ c \in l.loaded
    <3>1. c \in Chunk
      BY <1>0, <2>1
    <3> HIDE DEF c
    <3>2. l \in ChunksMap /\ l.loaded = world.loaded \cup {c}
      BY <1>0, <3>1, LoadedType
    <3> QED
      BY <3>1, <3>2
  <2>3. Handled(l, c) /\ calls' = [Orphaned(c) EXCEPT ![k] = Breaking("sent", p, Read(p), TRUE)]
    BY <1>5 DEF BreakLoaded
  <2>4. Marked(l, exposed') /\ Pending(l, exposed')
    <3>1. exposed \subseteq exposed' /\ \A r \in Pos : ChunkOf[r] = c /\ c \in world.loaded => r \in exposed'
      BY <2>3, HandledExposed
    <3> QED
      BY <1>00, <2>2, <3>1, LoadedMarked
  <2>5. Holding(Orphaned(c), l) /\ Orphaned(c) \in [CallIds -> Calls]
    BY <1>00, <2>2, OrphanedHolding, OrphanedType
  <2>6. Breaking("sent", p, Read(p), TRUE).pos = p
    BY DEF Breaking
  <2>7. ChunkOf[Breaking("sent", p, Read(p), TRUE).pos] \in l.loaded
    BY <2>2, <2>6
  <2> HIDE DEF l, c
  <2>8. Holding(calls', l)
    BY <2>3, <2>5, <2>7, HoldingExcept
  <2> QED
    BY <2>1, <2>2, <2>3, <2>4, <2>8, HandledDisk
<1>6. CASE SpawnDrop(k)
  <2>1. /\ UNCHANGED <<world, file, kept, saves, stop, exposed>>
        /\ calls[k].kind = "break" /\ calls[k].stage = "sent"
        /\ calls' = [calls EXCEPT ![k].stage = "dropped"]
    BY <1>6 DEF SpawnDrop, disk
  <2>2. stop # "off"
    BY <1>00, <2>1 DEF Idle
  <2>3. PICK s \in {"load", "sent", "dropped"}, p \in Pos, b \in Block, l \in BOOLEAN :
            calls[k] = Breaking(s, p, b, l)
    BY <1>0, <2>1 DEF Calls, Placing, Idle
  <2>4. Holding(calls', world)
    <3>1. calls'[k].pos = calls[k].pos /\ calls'[k].live = calls[k].live
      BY <1>0, <2>1, <2>3 DEF Breaking
    <3>2. \A j \in CallIds \ {k} : calls'[j] = calls[j]
      BY <1>0, <2>1
    <3> QED
      BY <1>00, <2>1, <3>1, <3>2 DEF Holding
  <2> QED
    BY <1>00, <2>1, <2>2, <2>4 DEF DiskInv, GoneIsGone, Marked, Pending, PosOf, Holding, Read
<1>7. CASE FinishBreak(k)
  <2> DEFINE w == IF calls[k].live THEN WithBlock(world, calls[k].pos, Air) ELSE world
  <2>1. /\ calls[k].pos \in Pos /\ calls[k].stage # "load" /\ calls[k].kind = "break"
        /\ calls' = [calls EXCEPT ![k] = Idle] /\ Handled(w, NoChunk)
    BY <1>0, <1>7, BreakingType DEF FinishBreak
  <2>2. stop # "off"
    BY <1>00, <2>1 DEF Idle
  <2>3. w \in ChunksMap /\ w.loaded = world.loaded
    BY <1>0, <2>1, WithBlockLoads
  <2>4. Marked(world, exposed') /\ Pending(world, exposed')
    BY <1>00, <2>1, HandledExposed, MoreExposed
  <2>5. Marked(w, exposed') /\ Pending(w, exposed')
    <3>1. CASE calls[k].live
      <4>1. ChunkOf[calls[k].pos] \in world.loaded
        BY <1>00, <2>1, <3>1 DEF Holding
      <4> QED
        BY <1>0, <2>1, <2>4, <3>1, <4>1, WithBlockMarked
    <3>2. CASE ~calls[k].live
      BY <2>4, <3>2
    <3> QED
      BY <3>1, <3>2
  <2> HIDE DEF w
  <2>6. Holding(calls', w)
    <3>1. Holding(calls', world)
      BY <1>0, <1>00, <2>1, HoldingExcept, IdleHoldsNothing
    <3> QED
      BY <2>3, <3>1 DEF Holding
  <2> QED
    BY <2>1, <2>2, <2>3, <2>5, <2>6, HandledDisk
<1> QED
  BY <1>1, <1>2, <1>3, <1>4, <1>5, <1>6, <1>7

\* A step that leaves the map, the files and the calls alone.
LEMMA SameMapDisk ==
    ASSUME DiskInv, UNCHANGED <<world, file, kept, calls, stop>>, exposed \subseteq exposed',
           \A s \in {"tick", "stop"}, c \in Chunk :
               saves'[s].of[c] # "done" => saves[s].of[c] # "done" \/ (c \in world.changed /\ stop # "off")
    PROVE  DiskInv'
<1>1. \A p : Read(p)' = Read(p)
  BY DEF Read
<1>2. Marked(world, exposed)'
  BY <1>1 DEF DiskInv, Marked
<1>3. Pending(world, exposed)'
  BY DEF DiskInv, Marked, Pending, PosOf
<1>4. Holding(calls, world)'
  BY DEF DiskInv, Holding
<1>5. GoneIsGone'
  BY DEF DiskInv, GoneIsGone
<1> QED
  BY <1>2, <1>3, <1>4, <1>5 DEF DiskInv

\* A save takes the chunks that have changed.
LEMMA SaveStartsOf ==
    ASSUME TypeOK, NEW s \in {"tick", "stop"}, SaveStarts(s)
    PROVE  \A t \in {"tick", "stop"}, c \in Chunk :
               saves'[t].of[c] # "done" => saves[t].of[c] # "done" \/ c \in world.changed
BY DEF TypeOK, SaveStarts, Save

\* A save that is over leaves nothing to write.
LEMMA SavesRest ==
    ASSUME TypeOK, NEW s \in {"tick", "stop"}, saves' = [saves EXCEPT ![s] = NoSave]
    PROVE  \A t \in {"tick", "stop"}, c \in Chunk : saves'[t].of[c] # "done" => saves[t].of[c] # "done"
BY DEF TypeOK, NoSave, Save

\* A write touches the file of a chunk that is marked or exposed.
LEMMA WriteDisk ==
    ASSUME TypeOK, DiskInv, NEW s \in {"tick", "stop"}, NEW c \in Chunk,
           saves[s].of[c] # "done", UNCHANGED <<world, calls, stop, exposed>>,
           NEW to \in {"open", "done"}, saves' = [saves EXCEPT ![s].of[c] = to],
           \A d \in Chunk \ {c} : file'[d] = file[d],
           \A p \in Pos : ChunkOf[p] # c => kept'[p] = kept[p]
    PROVE  DiskInv'
<1>1. c \in world.loaded /\ (c \in world.changed \/ PosOf(c) \subseteq exposed)
  BY DEF DiskInv, Pending
<1>2. \A p \in Pos : ChunkOf[p] # c => Read(p)' = Read(p)
  BY WorldAssumption DEF Read
<1>3. Marked(world, exposed)'
  <2>1. ASSUME NEW p \in Pos \ exposed, ChunkOf[p] \in world.loaded \ world.changed
        PROVE  world.block[p] = Read(p)'
    <3>1. ChunkOf[p] # c
      BY <1>1, <2>1 DEF PosOf
    <3>2. world.block[p] = Read(p)
      BY <2>1 DEF DiskInv, Marked
    <3> QED
      BY <1>2, <3>1, <3>2
  <2> QED
    BY <2>1 DEF DiskInv, Marked
<1>4. \A t \in {"tick", "stop"}, d \in Chunk : saves'[t].of[d] # "done" => saves[t].of[d] # "done"
  BY DEF TypeOK, Save
<1>5. Pending(world, exposed)'
  BY <1>4 DEF DiskInv, Pending, PosOf
<1>6. stop # "off"
  BY DEF DiskInv, GoneIsGone
<1> QED
  BY <1>3, <1>5, <1>6 DEF DiskInv, Holding, GoneIsGone

\* The process is gone, its map with it.
LEMMA GoneDisk ==
    ASSUME TypeOK, Gone
    PROVE  DiskInv'
<1>1. /\ world' = NoWorld /\ calls' = [k \in CallIds |-> Idle]
      /\ saves' = [s \in {"tick", "stop"} |-> NoSave]
  BY DEF Gone
<1>2. world'.loaded = {} /\ world'.changed = {}
  BY <1>1 DEF NoWorld
<1>3. \A s \in {"tick", "stop"}, c \in Chunk : saves'[s].of[c] = "done"
  BY <1>1 DEF NoSave
<1>4. \A k \in CallIds : calls'[k] = Idle
  BY <1>1
<1> QED
  BY <1>2, <1>3, <1>4, IdleHoldsNothing DEF DiskInv, Marked, Pending, Holding, GoneIsGone

LEMMA StartDisk ==
    ASSUME TypeOK, DiskInv, Start
    PROVE  DiskInv'
<1>1. /\ world'.loaded = Preload
      /\ world'.block = [p \in Pos |-> IF ChunkOf[p] \in Preload THEN Read(p) ELSE Air]
      /\ world'.changed = {c \in Preload : file[c] # "whole"}
      /\ stop' = "no" /\ UNCHANGED <<file, kept, calls, saves>>
  BY DEF Start, disk
<1>2. /\ \A k \in CallIds : calls[k] = Idle
      /\ \A s \in {"tick", "stop"}, c \in Chunk : saves[s].of[c] = "done"
  BY DEF DiskInv, GoneIsGone, Start
<1>3. \A p : Read(p)' = Read(p)
  BY <1>1 DEF Read
<1>4. Marked(world, exposed)'
  BY <1>1, <1>3 DEF Marked
<1> QED
  BY <1>1, <1>2, <1>4, IdleHoldsNothing DEF DiskInv, Pending, Holding, GoneIsGone

LEMMA DiskStep == TypeOK /\ DiskInv /\ [Next]_vars => DiskInv'
<1> SUFFICES ASSUME TypeOK, DiskInv, [Next]_vars PROVE DiskInv'
  OBVIOUS
<1>1. ASSUME NEW k \in CallIds,
             \/ \E p \in Pos, b \in Placeable : \E q \in Around[p] : Place(k, p, q, b)
             \/ \E p \in Pos : Break(k, p)
             \/ PlaceClicked(k) \/ PlacePlaced(k) \/ BreakLoaded(k) \/ SpawnDrop(k)
             \/ FinishBreak(k)
      PROVE  DiskInv'
  BY <1>1, HandlersDisk
<1>2. CASE Tick
  <2>1. UNCHANGED <<world, file, kept, calls, stop, exposed>> /\ stop # "off"
    BY <1>2 DEF Tick, disk
  <2>2. SaveStarts("tick") \/ UNCHANGED saves
    BY <1>2 DEF Tick
  <2> QED
    BY <2>1, <2>2, SaveStartsOf, SameMapDisk
<1>3. CASE TickSaved
  BY <1>3, SavesRest, SameMapDisk DEF TickSaved, disk, history
<1>4. CASE \E t \in Times : SetTicks(t)
  BY <1>4, SameMapDisk DEF SetTicks, disk, history
<1>5. ASSUME NEW s \in {"tick", "stop"}, NEW c \in Chunk, OpenFile(s, c)
      PROVE  DiskInv'
  <2>1. \A d \in Chunk \ {c} : file'[d] = file[d]
    BY <1>5 DEF OpenFile, TypeOK
  <2>2. \A p \in Pos : ChunkOf[p] # c => kept'[p] = kept[p]
    BY <1>5 DEF OpenFile
  <2>3. saves[s].of[c] # "done" /\ UNCHANGED <<world, calls, stop, exposed>>
        /\ saves' = [saves EXCEPT ![s].of[c] = "open"]
    BY <1>5 DEF OpenFile, history
  <2> QED
    BY <2>1, <2>2, <2>3, WriteDisk
<1>6. ASSUME NEW s \in {"tick", "stop"}, NEW c \in Chunk, FillFile(s, c)
      PROVE  DiskInv'
  <2>1. \A d \in Chunk \ {c} : file'[d] = file[d]
    BY <1>6 DEF FillFile, TypeOK
  <2>2. \A p \in Pos : ChunkOf[p] # c => kept'[p] = kept[p]
    BY <1>6 DEF FillFile
  <2>3. saves[s].of[c] # "done" /\ UNCHANGED <<world, calls, stop, exposed>>
        /\ saves' = [saves EXCEPT ![s].of[c] = "done"]
    BY <1>6 DEF FillFile, history
  <2> QED
    BY <2>1, <2>2, <2>3, WriteDisk
<1>7. CASE Kill
  <2>1. UNCHANGED <<world, file, kept, calls, saves, exposed>> /\ stop # "off" /\ stop' # "off"
    BY <1>7 DEF Kill, disk, history
  <2> QED
    BY <2>1 DEF DiskInv, Marked, Pending, PosOf, Holding, GoneIsGone, Read
<1>8. CASE KillSaves
  <2>1. UNCHANGED <<world, file, kept, calls>> /\ stop = "kicking" /\ stop' = "saving" /\ SaveStarts("stop")
        /\ exposed \subseteq exposed'
    BY <1>8 DEF KillSaves, disk
  <2>2. \A t \in {"tick", "stop"}, c \in Chunk :
            saves'[t].of[c] # "done" => saves[t].of[c] # "done" \/ c \in world.changed
    BY <2>1, SaveStartsOf
  <2>3. Marked(world, exposed)'
    BY <2>1 DEF DiskInv, Marked, Read
  <2>4. Pending(world, exposed)'
    BY <2>1, <2>2 DEF DiskInv, Marked, Pending, PosOf
  <2> QED
    BY <2>1, <2>3, <2>4 DEF DiskInv, Holding, GoneIsGone
<1>9. CASE KillSaved
  <2>1. UNCHANGED <<world, file, kept, calls, exposed>> /\ stop # "off" /\ stop' # "off"
        /\ saves' = [saves EXCEPT !["stop"] = NoSave]
    BY <1>9 DEF KillSaved, disk, history
  <2>2. \A t \in {"tick", "stop"}, c \in Chunk : saves'[t].of[c] # "done" => saves[t].of[c] # "done"
    BY <2>1, SavesRest
  <2> QED
    BY <2>1, <2>2 DEF DiskInv, Marked, Pending, PosOf, Holding, GoneIsGone, Read
<1>10. CASE Exit \/ Crash
  BY <1>10, GoneDisk DEF Exit, Crash
<1>11. CASE Start
  BY <1>11, StartDisk
<1>12. CASE UNCHANGED vars
  BY <1>12, SameMapDisk DEF vars, disk, history
<1> QED
  BY <1>1, <1>2, <1>3, <1>4, <1>5, <1>6, <1>7, <1>8, <1>9, <1>10, <1>11, <1>12 DEF Next

LEMMA DiskCorrect == Spec => []DiskInv
<1>1. Init => DiskInv
  <2> SUFFICES ASSUME Init PROVE DiskInv
    OBVIOUS
  <2>1. world.loaded = {} /\ world.changed = {}
    BY DEF Init, NoWorld
  <2>2. \A k \in CallIds : calls[k] = Idle
    BY DEF Init
  <2>3. \A s \in {"tick", "stop"}, c \in Chunk : saves[s].of[c] = "done"
    BY DEF Init, NoSave
  <2> QED
    BY <2>1, <2>2, <2>3, IdleHoldsNothing DEF DiskInv, Marked, Pending, Holding, GoneIsGone
<1> QED
  BY <1>1, TypeCorrect, DiskStep, PTL DEF Spec

\* A chunk in memory whose hasChanged is not set is as its file has it, so
\* World.saveChunks may leave it out.
THEOREM UnchangedCorrect == Spec => []UnchangedIsOnDisk
<1>1. DiskInv => UnchangedIsOnDisk
  BY DEF DiskInv, Marked, UnchangedIsOnDisk
<1> QED
  BY <1>1, DiskCorrect, PTL

-----------------------------------------------------------------------------
(* WorldBlocks implements BlockStore.  What a handler does to the blocks:  *)
(* it may load one chunk and then set one block in a chunk of the map.     *)

SeenIn(w) == [p \in Pos |-> IF ChunkOf[p] \in w.loaded THEN w.block[p] ELSE Read(p)]

Shape(w, c) ==
    \E l \in ChunksMap :
        /\ l = world \/ (c \in Chunk /\ l = Loaded(world, c))
        /\ w = l \/ \E p \in Pos, b \in Block : ChunkOf[p] \in l.loaded /\ w = WithBlock(l, p, b)

LEMMA ShapeOfClicked ==
    ASSUME TypeOK, NEW k \in CallIds, NEW p \in Pos, NEW q \in Pos, NEW b \in Placeable,
           NEW w \in ChunksMap, NEW c, NEW others,
           w = world \/ (c \in Chunk /\ w = Loaded(world, c)),
           FromClicked(k, p, q, b, w, c, others)
    PROVE  \E v \in ChunksMap : Handled(v, c) /\ Shape(v, c)
<1> DEFINE to == IF w.block[p] \in Replaceable THEN p ELSE q
<1>1. to \in Pos /\ b \in Block
  BY WorldAssumption
<1>2. Shape(w, c)
  BY DEF Shape
<1>3. CASE ChunkOf[to] \in w.loaded /\ Handled(WithBlock(w, to, b), c)
  <2>1. WithBlock(w, to, b) \in ChunksMap
    BY <1>1, WithBlockType
  <2> HIDE DEF to
  <2>2. Shape(WithBlock(w, to, b), c)
    BY <1>1, <1>3 DEF Shape
  <2> QED
    BY <1>3, <2>1, <2>2
<1>4. CASE Handled(w, c)
  BY <1>2, <1>4
<1> QED
  BY <1>3, <1>4 DEF FromClicked

\* A step of a handler changes the map in that way, or only waits for something.
LEMMA ShapeOfHandlers ==
    ASSUME TypeOK, DiskInv, NEW k \in CallIds,
           \/ \E p \in Pos, b \in Placeable : \E q \in Around[p] : Place(k, p, q, b)
           \/ \E p \in Pos : Break(k, p)
           \/ PlaceClicked(k) \/ PlacePlaced(k) \/ BreakLoaded(k) \/ SpawnDrop(k)
           \/ FinishBreak(k)
    PROVE  \/ \E w \in ChunksMap : \E c : Handled(w, c) /\ Shape(w, c)
           \/ UNCHANGED <<world, file, kept, saves, stop, exposed, past, crashes>>
<1>0. /\ calls[k] \in Calls /\ world \in ChunksMap
      /\ \A p \in Pos : ChunkOf[p] \in Chunk /\ Around[p] \subseteq Pos
      /\ Air \in Block /\ Placeable \subseteq Block
  BY WorldAssumption DEF TypeOK
<1>1. ASSUME NEW p \in Pos, NEW b \in Placeable, NEW q \in Around[p], Place(k, p, q, b)
      PROVE  \/ \E w \in ChunksMap : \E c : Handled(w, c) /\ Shape(w, c)
             \/ UNCHANGED <<world, file, kept, saves, stop, exposed, past, crashes>>
  <2>1. q \in Pos
    BY <1>0
  <2>2. CASE ChunkOf[p] \in world.loaded
    <3>1. FromClicked(k, p, q, b, world, NoChunk, calls)
      BY <1>1, <2>2 DEF Place
    <3> QED
      BY <1>0, <2>1, <3>1, ShapeOfClicked
  <2>3. CASE ChunkOf[p] \notin world.loaded
    BY <1>1, <2>3 DEF Place, disk, history
  <2> QED
    BY <2>2, <2>3
<1>2. ASSUME NEW p \in Pos, Break(k, p)
      PROVE  UNCHANGED <<world, file, kept, saves, stop, exposed, past, crashes>>
  BY <1>2 DEF Break, disk
<1>3. CASE PlaceClicked(k)
  <2> DEFINE c == ChunkOf[calls[k].pos]
  <2>1. calls[k].kind = "place"
        /\ FromClicked(k, calls[k].pos, calls[k].to, calls[k].block, Loaded(world, c), c, Orphaned(c))
    BY <1>3 DEF PlaceClicked
  <2>2. calls[k].pos \in Pos /\ calls[k].to \in Pos /\ calls[k].block \in Placeable
    BY <1>0, <2>1, PlacingType
  <2>3. c \in Chunk
    BY <1>0, <2>2
  <2> HIDE DEF c
  <2>4. Loaded(world, c) \in ChunksMap
    BY <1>0, <2>3, LoadedType
  <2> QED
    BY <2>1, <2>2, <2>3, <2>4, ShapeOfClicked
<1>4. CASE PlacePlaced(k)
  <2> DEFINE to == calls[k].to
             c == ChunkOf[to]
             l == Loaded(world, c)
             w == WithBlock(l, to, calls[k].block)
  <2>1. calls[k].kind = "place" /\ Handled(w, c)
    BY <1>4 DEF PlacePlaced
  <2>2. to \in Pos /\ calls[k].block \in Block
    BY <1>0, <2>1, PlacingType
  <2>3. c \in Chunk
    BY <1>0, <2>2
  <2>4. l \in ChunksMap /\ c \in l.loaded
    <3> HIDE DEF c
    <3>1. TypeOK /\ world \in ChunksMap
      BY <1>0 DEF TypeOK
    <3>2. l \in ChunksMap /\ l.loaded = world.loaded \cup {c}
      BY <2>3, <3>1, LoadedType
    <3> QED
      BY <3>2
  <2>5. w \in ChunksMap
    BY <2>2, <2>4, WithBlockLoads
  <2> HIDE DEF l
  <2>6. \E p \in Pos, b \in Block : ChunkOf[p] \in l.loaded /\ w = WithBlock(l, p, b)
    BY <2>2, <2>4
  <2> HIDE DEF w, c
  <2>7. Shape(w, c)
    BY <2>3, <2>4, <2>6 DEF Shape, l
  <2> QED
    BY <2>1, <2>5, <2>7
<1>5. CASE BreakLoaded(k)
  <2> DEFINE c == ChunkOf[calls[k].pos]
  <2>1. calls[k].kind = "break" /\ Handled(Loaded(world, c), c)
    BY <1>5 DEF BreakLoaded
  <2>2. c \in Chunk
    BY <1>0, <2>1, BreakingType
  <2> HIDE DEF c
  <2>3. Loaded(world, c) \in ChunksMap
    BY <1>0, <2>2, LoadedType
  <2>4. Shape(Loaded(world, c), c)
    BY <2>2, <2>3 DEF Shape
  <2> QED
    BY <2>1, <2>3, <2>4
<1>6. CASE SpawnDrop(k)
  BY <1>6 DEF SpawnDrop, disk
<1>7. CASE FinishBreak(k)
  <2> DEFINE v == WithBlock(world, calls[k].pos, Air)
  <2>1. /\ calls[k].kind = "break" /\ calls[k].stage # "load"
        /\ Handled(IF calls[k].live THEN v ELSE world, NoChunk)
    BY <1>7 DEF FinishBreak
  <2>2. calls[k].pos \in Pos
    BY <1>0, <2>1, BreakingType
  <2>3. CASE calls[k].live
    <3>1. ChunkOf[calls[k].pos] \in world.loaded
      BY <2>1, <2>3 DEF DiskInv, Holding
    <3>2. v \in ChunksMap
      BY <1>0, <2>2, WithBlockType
    <3>3. Shape(v, NoChunk)
      BY <1>0, <2>2, <3>1 DEF Shape
    <3>4. Handled(v, NoChunk)
      BY <2>1, <2>3
    <3> HIDE DEF v
    <3> QED
      BY <3>2, <3>3, <3>4
  <2>4. CASE ~calls[k].live
    <3>1. Shape(world, NoChunk)
      BY <1>0 DEF Shape
    <3> QED
      BY <1>0, <2>1, <2>4, <3>1
  <2> QED
    BY <2>3, <2>4
<1> QED
  BY <1>1, <1>2, <1>3, <1>4, <1>5, <1>6, <1>7

\* The blocks that reads, saves and files bring are blocks their positions had;
\* from the save of the stop on, a position that is not exposed is on disk as it
\* is in the map, or is still to be written so.
HadBlocks ==
    \A p \in Pos :
        /\ Generated[p] \in past[p]
        /\ file[ChunkOf[p]] = "whole" => kept[p] \in past[p]
        /\ ChunkOf[p] \in world.loaded => world.block[p] \in past[p]
        /\ \A s \in {"tick", "stop"} : saves[s].of[ChunkOf[p]] # "done" => saves[s].block[p] \in past[p]

OnItsWay(p) ==
    /\ saves["tick"].of[ChunkOf[p]] = "done"
    /\ IF saves["stop"].of[ChunkOf[p]] = "done"
          THEN world.block[p] = Read(p)
          ELSE saves["stop"].block[p] = world.block[p]

Stopping ==
    /\ stop \in {"saving", "closing"} =>
          \A p \in Pos \ exposed : ChunkOf[p] \in world.loaded => OnItsWay(p)
    /\ stop = "closing" => \A c \in Chunk : saves["stop"].of[c] = "done"
    /\ stop = "off" => world.loaded = {}

StoreInv == HadBlocks /\ Stopping

LEMMA ReadHad == ASSUME HadBlocks PROVE \A p \in Pos : Read(p) \in past[p]
BY DEF HadBlocks, Read

LEMMA SeenType == ASSUME TypeOK PROVE Seen \in [Pos -> Block] /\ Seen = SeenIn(world)
<1>1. \A p \in Pos : world.block[p] \in Block
  BY DEF TypeOK, ChunksMap
<1> QED
  BY <1>1, ReadType DEF Seen, SeenIn

\* What a handler changes a reader sees at one position; a chunk that was in the
\* map already goes back to its file, at positions that are exposed.
LEMMA ShapeSeen ==
    ASSUME TypeOK, NEW w \in ChunksMap, NEW c, Handled(w, c), Shape(w, c), NEW r \in Pos
    PROVE  \E e \in Pos : \A p \in Pos \ {e} :
               \/ SeenIn(w)[p] = SeenIn(world)[p]
               \/ p \in exposed' /\ SeenIn(w)[p] = Read(p)
<1>1. PICK l \in ChunksMap :
          /\ l = world \/ (c \in Chunk /\ l = Loaded(world, c))
          /\ w = l \/ \E p \in Pos, b \in Block : ChunkOf[p] \in l.loaded /\ w = WithBlock(l, p, b)
  BY DEF Shape
<1>2. \A p \in Pos : \/ SeenIn(l)[p] = SeenIn(world)[p]
                     \/ p \in exposed' /\ SeenIn(l)[p] = Read(p)
  <2>1. CASE l = world
    BY <2>1
  <2>2. CASE c \in Chunk /\ l = Loaded(world, c)
    <3>1. /\ l.loaded = world.loaded \cup {c}
          /\ l.block = [p \in Pos |-> IF ChunkOf[p] = c THEN Read(p) ELSE world.block[p]]
      BY <2>2, LoadedType DEF TypeOK
    <3>2. \A p \in Pos : ChunkOf[p] = c /\ c \in world.loaded => p \in exposed'
      BY HandledExposed
    <3> QED
      BY <3>1, <3>2 DEF SeenIn
  <2> QED
    BY <1>1, <2>1, <2>2
<1>3. CASE w = l
  BY <1>2, <1>3
<1>4. ASSUME NEW q \in Pos, NEW b \in Block, w = WithBlock(l, q, b)
      PROVE  \A p \in Pos \ {q} : SeenIn(w)[p] = SeenIn(l)[p]
  <2>1. w.loaded = l.loaded /\ w.block = [l.block EXCEPT ![q] = b]
    BY <1>4, WithBlockType
  <2> QED
    BY <2>1 DEF SeenIn, ChunksMap
<1> QED
  BY <1>1, <1>2, <1>3, <1>4

\* A handler leaves in the map what was there, what the file has, or an edit, and
\* an edit after the save of the stop began exposes its position.
LEMMA ShapeStopping ==
    ASSUME TypeOK, NEW w \in ChunksMap, NEW c, Handled(w, c), Shape(w, c), stop \in {"saving", "closing"},
           NEW p \in Pos, p \notin exposed', ChunkOf[p] \in w.loaded
    PROVE  \/ ChunkOf[p] \in world.loaded /\ w.block[p] = world.block[p]
           \/ ChunkOf[p] \notin world.loaded /\ w.block[p] = Read(p)
<1>1. PICK l \in ChunksMap :
          /\ l = world \/ (c \in Chunk /\ l = Loaded(world, c))
          /\ w = l \/ \E q \in Pos, b \in Block : ChunkOf[q] \in l.loaded /\ w = WithBlock(l, q, b)
  BY DEF Shape
<1>2. w.loaded = l.loaded
  <2>1. CASE w = l
    BY <2>1
  <2>2. ASSUME NEW q \in Pos, NEW b \in Block, w = WithBlock(l, q, b) PROVE w.loaded = l.loaded
    BY <2>2, WithBlockLoads
  <2> QED
    BY <1>1, <2>1, <2>2
<1>3. l.loaded = world.loaded \/ (l.loaded = world.loaded \cup {c})
  <2>1. world \in ChunksMap
    BY DEF TypeOK
  <2>2. ASSUME c \in Chunk, l = Loaded(world, c) PROVE l.loaded = world.loaded \cup {c}
    BY <2>1, <2>2, LoadedType
  <2> QED
    BY <1>1, <2>2
<1>4. /\ ChunkOf[p] \in world.loaded => w.block[p] = world.block[p]
      /\ ChunkOf[p] = c => w.block[p] = Read(p)
  BY DEF Handled
<1> QED
  BY <1>2, <1>3, <1>4

LEMMA HandledStore ==
    ASSUME TypeOK, DiskInv, StoreInv, NEW w \in ChunksMap, NEW c, Handled(w, c), Shape(w, c), stop # "off"
    PROVE  StoreInv'
<1>1. /\ world' = w /\ UNCHANGED <<file, kept, saves, stop>>
      /\ exposed \subseteq exposed'
      /\ past' = [p \in Pos |-> IF ChunkOf[p] \in w.loaded THEN past[p] \cup {w.block[p]} ELSE past[p]]
  BY HandledType DEF disk, Handled
<1>2. \A p \in Pos : past[p] \subseteq past'[p]
  BY <1>1
<1>3. HadBlocks'
  <2>1. \A p \in Pos : ChunkOf[p] \in w.loaded => w.block[p] \in past'[p]
    BY <1>1
  <2> QED
    BY <1>1, <1>2, <2>1 DEF StoreInv, HadBlocks
<1>4. ASSUME stop \in {"saving", "closing"}, NEW p \in Pos \ exposed', ChunkOf[p] \in w.loaded
      PROVE  OnItsWay(p)'
  <2>1. Read(p)' = Read(p)
    BY <1>1 DEF Read
  <2>2. CASE ChunkOf[p] \in world.loaded /\ w.block[p] = world.block[p]
    <3>1. OnItsWay(p)
      BY <1>1, <1>4, <2>2 DEF StoreInv, Stopping
    <3> QED
      BY <1>1, <2>1, <2>2, <3>1 DEF OnItsWay
  <2>3. CASE ChunkOf[p] \notin world.loaded /\ w.block[p] = Read(p)
    <3>1. ChunkOf[p] \in Chunk
      BY WorldAssumption
    <3>2. saves["tick"].of[ChunkOf[p]] = "done" /\ saves["stop"].of[ChunkOf[p]] = "done"
      BY <2>3, <3>1 DEF DiskInv, Pending
    <3> QED
      BY <1>1, <2>1, <2>3, <3>2 DEF OnItsWay
  <2> QED
    BY <1>4, <2>2, <2>3, ShapeStopping
<1> QED
  BY <1>1, <1>3, <1>4 DEF StoreInv, Stopping

\* A write brings to the file what its save took.
LEMMA WriteStore ==
    ASSUME TypeOK, DiskInv, StoreInv, NEW s \in {"tick", "stop"}, NEW c \in Chunk, OpenFile(s, c) \/ FillFile(s, c)
    PROVE  StoreInv' /\ UNCHANGED <<Seen, past, exposed, crashes>>
<1>0. /\ saves[s].of[c] # "done" /\ UNCHANGED <<world, stop, past, exposed, crashes>>
      /\ \E to \in {"open", "done"} : saves' = [saves EXCEPT ![s].of[c] = to]
  BY DEF OpenFile, FillFile, history
<1>1. /\ \A d \in Chunk \ {c} : file'[d] = file[d]
      /\ \A p \in Pos : ChunkOf[p] # c => kept'[p] = kept[p]
  BY DEF OpenFile, FillFile, TypeOK
<1>2. \A p \in Pos : ChunkOf[p] # c => Read(p)' = Read(p)
  BY <1>1, WorldAssumption DEF Read
<1>3. c \in world.loaded /\ stop # "off"
  BY <1>0 DEF DiskInv, Pending, GoneIsGone
<1>4. UNCHANGED Seen
  BY <1>0, <1>2, <1>3 DEF Seen
<1>5. /\ \A t \in {"tick", "stop"} : saves'[t].block = saves[t].block
      /\ \A t \in {"tick", "stop"}, d \in Chunk : <<t, d>> # <<s, c>> => saves'[t].of[d] = saves[t].of[d]
      /\ saves'[s].of[c] \in {"open", "done"}
  BY <1>0 DEF TypeOK, Save
<1>6. \A p \in Pos : ChunkOf[p] = c /\ file'[c] = "whole" => kept'[p] = saves[s].block[p]
  BY DEF OpenFile, FillFile, TypeOK
<1>7. HadBlocks'
  <2> SUFFICES ASSUME NEW p \in Pos
               PROVE  /\ file'[ChunkOf[p]] = "whole" => kept'[p] \in past[p]
                      /\ \A t \in {"tick", "stop"} : saves'[t].of[ChunkOf[p]] # "done" => saves'[t].block[p] \in past[p]
    BY <1>0 DEF StoreInv, HadBlocks
  <2>1. ChunkOf[p] \in Chunk
    BY WorldAssumption
  <2>2. file'[ChunkOf[p]] = "whole" => kept'[p] \in past[p]
    BY <1>0, <1>1, <1>6, <2>1 DEF StoreInv, HadBlocks
  <2>3. \A t \in {"tick", "stop"} : saves'[t].of[ChunkOf[p]] # "done" => saves[t].of[ChunkOf[p]] # "done"
    BY <1>0, <1>5, <2>1
  <2>4. \A t \in {"tick", "stop"} : saves'[t].of[ChunkOf[p]] # "done" => saves'[t].block[p] \in past[p]
    BY <1>5, <2>3 DEF StoreInv, HadBlocks
  <2> QED
    BY <2>2, <2>4
<1>8. ASSUME stop \in {"saving", "closing"}, NEW p \in Pos \ exposed, ChunkOf[p] \in world.loaded
      PROVE  OnItsWay(p)'
  <2>1. OnItsWay(p) /\ ChunkOf[p] \in Chunk
    BY <1>8, WorldAssumption DEF StoreInv, Stopping
  <2>2. CASE ChunkOf[p] # c
    BY <1>0, <1>2, <1>5, <2>1, <2>2 DEF OnItsWay
  <2>3. CASE ChunkOf[p] = c
    <3>1. s = "stop" /\ saves["stop"].block[p] = world.block[p] /\ saves["tick"].of[c] = "done"
      BY <1>0, <2>1, <2>3 DEF OnItsWay
    <3>2. saves'["tick"].of[c] = "done"
      BY <1>5, <3>1
    <3>3. saves'["stop"].of[c] = "done" => FillFile(s, c)
      BY <3>1 DEF OpenFile, TypeOK, Save
    <3>4. FillFile(s, c) => file'[c] = "whole" /\ kept'[p] = saves[s].block[p]
      BY <2>3 DEF FillFile, TypeOK
    <3>5. saves'["stop"].of[c] = "done" => world.block[p] = Read(p)'
      BY <2>3, <3>1, <3>3, <3>4 DEF Read
    <3> QED
      BY <1>0, <1>5, <2>3, <3>1, <3>2, <3>5 DEF OnItsWay
  <2> QED
    BY <2>2, <2>3
<1>9. ASSUME stop = "closing", NEW d \in Chunk PROVE saves'["stop"].of[d] = "done"
  <2>1. s = "tick" /\ saves["stop"].of[d] = "done"
    BY <1>0, <1>9 DEF StoreInv, Stopping
  <2> QED
    BY <1>5, <2>1
<1> QED
  BY <1>0, <1>3, <1>4, <1>7, <1>8, <1>9 DEF StoreInv, Stopping

\* A step that leaves the map and the files alone, and takes into a save only
\* what the map holds.
LEMMA QuietStore ==
    ASSUME TypeOK, StoreInv, UNCHANGED <<world, file, kept, past>>,
           \A s \in {"tick", "stop"}, p \in Pos : saves'[s].of[ChunkOf[p]] # "done" =>
               \/ saves[s].of[ChunkOf[p]] # "done" /\ saves'[s].block[p] = saves[s].block[p]
               \/ ChunkOf[p] \in world.loaded /\ saves'[s].block[p] = world.block[p],
           Stopping'
    PROVE  StoreInv' /\ UNCHANGED Seen
<1>1. \A s \in {"tick", "stop"}, p \in Pos : saves'[s].of[ChunkOf[p]] # "done" => saves'[s].block[p] \in past[p]
  BY DEF StoreInv, HadBlocks
<1>2. HadBlocks'
  BY <1>1 DEF StoreInv, HadBlocks
<1>3. UNCHANGED Seen
  BY DEF Seen, Read
<1> QED
  BY <1>2, <1>3 DEF StoreInv

\* What a save takes when it starts.
LEMMA SaveStartsTakes ==
    ASSUME TypeOK, DiskInv, NEW s \in {"tick", "stop"}, SaveStarts(s)
    PROVE  /\ \A t \in {"tick", "stop"}, p \in Pos : saves'[t].of[ChunkOf[p]] # "done" =>
                  \/ saves[t].of[ChunkOf[p]] # "done" /\ saves'[t].block[p] = saves[t].block[p]
                  \/ ChunkOf[p] \in world.loaded /\ saves'[t].block[p] = world.block[p]
           /\ \A t \in {"tick", "stop"} \ {s} : saves'[t] = saves[t]
           /\ \A p \in Pos : IF ChunkOf[p] \in world.changed
                                THEN saves'[s].of[ChunkOf[p]] = "queued" /\ saves'[s].block[p] = world.block[p]
                                ELSE saves'[s].of[ChunkOf[p]] = "done"
<1>1. \A p \in Pos : ChunkOf[p] \in Chunk
  BY WorldAssumption
<1>2. world.changed \subseteq world.loaded
  BY DEF DiskInv, Marked
<1>3. \A t \in {"tick", "stop"} \ {s} : saves'[t] = saves[t]
  BY DEF TypeOK, SaveStarts
<1>4. /\ saves'[s].of = [c \in Chunk |-> IF c \in world.changed THEN "queued" ELSE "done"]
      /\ saves'[s].block = [p \in Pos |-> IF ChunkOf[p] \in world.changed THEN world.block[p] ELSE Generated[p]]
  BY DEF TypeOK, SaveStarts
<1>5. \A p \in Pos : IF ChunkOf[p] \in world.changed
                        THEN saves'[s].of[ChunkOf[p]] = "queued" /\ saves'[s].block[p] = world.block[p]
                        ELSE saves'[s].of[ChunkOf[p]] = "done"
  BY <1>1, <1>4
<1> QED
  BY <1>2, <1>3, <1>5

LEMMA SavesRestTakes ==
    ASSUME TypeOK, NEW s \in {"tick", "stop"}, saves' = [saves EXCEPT ![s] = NoSave]
    PROVE  /\ \A t \in {"tick", "stop"}, p \in Pos : saves'[t].of[ChunkOf[p]] # "done" =>
                  saves[t].of[ChunkOf[p]] # "done" /\ saves'[t].block[p] = saves[t].block[p]
           /\ \A t \in {"tick", "stop"} \ {s} : saves'[t] = saves[t]
           /\ \A c \in Chunk : saves'[s].of[c] = "done"
<1>1. \A p \in Pos : ChunkOf[p] \in Chunk
  BY WorldAssumption
<1>2. \A t \in {"tick", "stop"} \ {s} : saves'[t] = saves[t]
  BY DEF TypeOK
<1>3. \A c \in Chunk : saves'[s].of[c] = "done"
  BY DEF TypeOK, NoSave
<1> QED
  BY <1>1, <1>2, <1>3

\* From the save of the stop on, every position that is not exposed is on its way.
LEMMA KillStore ==
    ASSUME TypeOK, DiskInv, StoreInv, KillSaves
    PROVE  StoreInv' /\ UNCHANGED Seen
<1>1. /\ UNCHANGED <<world, file, kept, past>> /\ stop' = "saving" /\ SaveStarts("stop")
      /\ exposed' = exposed \cup {p \in Pos : saves["tick"].of[ChunkOf[p]] # "done"}
  BY DEF KillSaves, disk
<1>2. ASSUME NEW p \in Pos \ exposed', ChunkOf[p] \in world.loaded
      PROVE  OnItsWay(p)'
  <2>1. saves'["tick"].of[ChunkOf[p]] = "done"
    BY <1>1, SaveStartsTakes
  <2>2. CASE ChunkOf[p] \in world.changed
    BY <1>1, <2>1, <2>2, SaveStartsTakes DEF OnItsWay
  <2>3. CASE ChunkOf[p] \notin world.changed
    <3>1. world.block[p] = Read(p)
      BY <1>1, <1>2, <2>3 DEF DiskInv, Marked
    <3>2. saves'["stop"].of[ChunkOf[p]] = "done"
      BY <1>1, <2>3, SaveStartsTakes
    <3> QED
      BY <1>1, <2>1, <3>1, <3>2 DEF OnItsWay, Read
  <2> QED
    BY <2>2, <2>3
<1>3. Stopping'
  BY <1>1, <1>2 DEF Stopping
<1> QED
  BY <1>1, <1>3, SaveStartsTakes, QuietStore

LEMMA KillSavedStore ==
    ASSUME TypeOK, StoreInv, KillSaved
    PROVE  StoreInv' /\ UNCHANGED Seen
<1>1. /\ UNCHANGED <<world, file, kept, past, exposed>> /\ stop = "saving" /\ stop' = "closing"
      /\ saves' = [saves EXCEPT !["stop"] = NoSave] /\ \A c \in Chunk : saves["stop"].of[c] = "done"
  BY DEF KillSaved, Written, disk, history
<1>2. ASSUME NEW p \in Pos \ exposed, ChunkOf[p] \in world.loaded
      PROVE  OnItsWay(p)'
  <2>1. ChunkOf[p] \in Chunk /\ OnItsWay(p)
    BY <1>1, <1>2, WorldAssumption DEF StoreInv, Stopping
  <2>2. saves'["tick"] = saves["tick"] /\ saves'["stop"].of[ChunkOf[p]] = "done"
    BY <1>1, <2>1, SavesRestTakes
  <2> QED
    BY <1>1, <2>1, <2>2 DEF OnItsWay, Read
<1>3. \A c \in Chunk : saves'["stop"].of[c] = "done"
  BY <1>1, SavesRestTakes
<1>4. Stopping'
  BY <1>1, <1>2, <1>3 DEF Stopping
<1> QED
  BY <1>1, <1>4, SavesRestTakes, QuietStore

\* The process is gone: what a reader finds is what the files have.
LEMMA GoneStore ==
    ASSUME TypeOK, StoreInv, Gone
    PROVE  /\ StoreInv' /\ past' = past
           /\ Seen' = [p \in Pos |-> Read(p)]
<1>1. /\ UNCHANGED <<file, kept>> /\ stop' = "off" /\ world'.loaded = {}
      /\ \A s \in {"tick", "stop"}, c \in Chunk : saves'[s].of[c] = "done"
      /\ past' = [p \in Pos |-> past[p] \cup {Read(p)}]
  BY DEF Gone, disk, NoWorld, NoSave
<1>2. past' = past
  BY <1>1, ReadHad DEF StoreInv, TypeOK
<1>3. \A p \in Pos : ChunkOf[p] \in Chunk
  BY WorldAssumption
<1>4. HadBlocks'
  BY <1>1, <1>2, <1>3 DEF StoreInv, HadBlocks
<1>5. Stopping'
  BY <1>1 DEF Stopping
<1>6. Seen' = [p \in Pos |-> Read(p)]
  BY <1>1 DEF Seen, Read
<1> QED
  BY <1>2, <1>4, <1>5, <1>6 DEF StoreInv

LEMMA StartStore ==
    ASSUME TypeOK, StoreInv, Start
    PROVE  StoreInv' /\ UNCHANGED Seen
<1>1. /\ UNCHANGED <<file, kept, saves, past>> /\ stop' = "no" /\ world.loaded = {}
      /\ world'.loaded = Preload
      /\ world'.block = [p \in Pos |-> IF ChunkOf[p] \in Preload THEN Read(p) ELSE Air]
  BY DEF Start, disk, StoreInv, Stopping
<1>2. \A p \in Pos : ChunkOf[p] \in world'.loaded => world'.block[p] = Read(p)
  BY <1>1
<1>3. HadBlocks'
  BY <1>1, <1>2, ReadHad DEF StoreInv, HadBlocks
<1>4. Stopping'
  BY <1>1 DEF Stopping
<1>5. \A p : Read(p)' = Read(p)
  BY <1>1 DEF Read
<1>6. UNCHANGED Seen
  BY <1>1, <1>2, <1>5 DEF Seen
<1> QED
  BY <1>3, <1>4, <1>6 DEF StoreInv

LEMMA TickSavedStore ==
    ASSUME TypeOK, StoreInv, TickSaved
    PROVE  StoreInv' /\ UNCHANGED Seen
<1>1. UNCHANGED <<world, file, kept, past, exposed, stop>> /\ saves' = [saves EXCEPT !["tick"] = NoSave]
  BY DEF TickSaved, disk, history
<1>2. saves'["stop"] = saves["stop"] /\ \A c \in Chunk : saves'["tick"].of[c] = "done"
  BY <1>1, SavesRestTakes
<1>3. ASSUME NEW p \in Pos, OnItsWay(p) PROVE OnItsWay(p)'
  <2>1. ChunkOf[p] \in Chunk
    BY WorldAssumption
  <2> QED
    BY <1>1, <1>2, <1>3, <2>1 DEF OnItsWay, Read
<1>4. Stopping'
  BY <1>1, <1>2, <1>3 DEF StoreInv, Stopping
<1> QED
  BY <1>1, <1>4, SavesRestTakes, QuietStore

\* A reader finds a block its position had.
LEMMA SeenHad == ASSUME TypeOK, HadBlocks PROVE \A p \in Pos : Seen[p] \in past[p]
BY ReadHad DEF HadBlocks, Seen

\* A step that changes at most one position, beside exposed ones that go back to
\* what their file has, is a step of the store.
LEMMA ServeStep ==
    ASSUME TypeOK, TypeOK', HadBlocks, UNCHANGED crashes,
           past' = [p \in Pos |-> past[p] \cup {Seen'[p]}],
           \A r \in Pos : \E e \in Pos : \A p \in Pos \ {e} :
               \/ Seen'[p] = Seen[p]
               \/ p \in exposed \cup exposed' /\ Seen'[p] = Read(p)
    PROVE  [Store!Next]_(Store!vars)
<1>1. Seen' \in [Pos -> Block] /\ Seen \in [Pos -> Block] /\ exposed' \subseteq Pos /\ exposed \subseteq Pos
  <2>1. Seen \in [Pos -> Block] /\ (TypeOK => Seen \in [Pos -> Block])'
    BY SeenType, PTL
  <2> QED
    BY <2>1 DEF TypeOK
<1>2. ASSUME NEW r \in Pos PROVE Store!Serve
  BY <1>1, <1>2, ReadHad DEF Store!Serve
<1>3. CASE Pos = {}
  <2>1. Seen' = Seen /\ exposed' = exposed /\ past' = past
    BY <1>1, <1>3 DEF TypeOK
  <2> QED
    BY <2>1 DEF Store!vars
<1> QED
  BY <1>2, <1>3 DEF Store!Next

\* A step that changes nothing a reader finds.
LEMMA SameStep ==
    ASSUME TypeOK, TypeOK', HadBlocks, UNCHANGED <<Seen, past, crashes>>
    PROVE  [Store!Next]_(Store!vars)
<1>1. past' = [p \in Pos |-> past[p] \cup {Seen'[p]}]
  BY SeenHad DEF TypeOK
<1> QED
  BY <1>1, ServeStep

\* A step of a handler.
LEMMA HandledStep ==
    ASSUME TypeOK, TypeOK', HadBlocks, NEW w \in ChunksMap, NEW c, Handled(w, c), Shape(w, c)
    PROVE  [Store!Next]_(Store!vars)
<1>1. world' = w /\ UNCHANGED <<file, kept, crashes>>
      /\ past' = [p \in Pos |-> IF ChunkOf[p] \in w.loaded THEN past[p] \cup {w.block[p]} ELSE past[p]]
  BY DEF Handled, disk
<1>2. \A p : Read(p)' = Read(p)
  BY <1>1 DEF Read
<1>3. Seen' = SeenIn(w)
  BY <1>1, <1>2 DEF Seen, SeenIn
<1>4. Seen = SeenIn(world)
  BY SeenType
<1>5. past' = [p \in Pos |-> past[p] \cup {Seen'[p]}]
  BY <1>1, <1>3, ReadHad DEF SeenIn, TypeOK
<1>6. \A r \in Pos : \E e \in Pos : \A p \in Pos \ {e} :
          \/ Seen'[p] = Seen[p]
          \/ p \in exposed \cup exposed' /\ Seen'[p] = Read(p)
  <2> SUFFICES ASSUME NEW r \in Pos
               PROVE  \E e \in Pos : \A p \in Pos \ {e} :
                          \/ Seen'[p] = Seen[p]
                          \/ p \in exposed \cup exposed' /\ Seen'[p] = Read(p)
    OBVIOUS
  <2>1. PICK e \in Pos : \A p \in Pos \ {e} :
            \/ SeenIn(w)[p] = SeenIn(world)[p]
            \/ p \in exposed' /\ SeenIn(w)[p] = Read(p)
    BY ShapeSeen
  <2> QED
    BY <1>3, <1>4, <2>1
<1> QED
  BY <1>1, <1>5, <1>6, ServeStep

\* The end of the process: what is not on disk was exposed, or the process crashed.
LEMMA ExitStep ==
    ASSUME TypeOK, TypeOK', StoreInv, Exit
    PROVE  [Store!Next]_(Store!vars)
<1>1. /\ stop = "closing" /\ Gone /\ UNCHANGED <<exposed, crashes>>
  BY DEF Exit
<1>2. past' = past /\ Seen' = [p \in Pos |-> Read(p)]
  BY <1>1, GoneStore
<1>3. past' = [p \in Pos |-> past[p] \cup {Seen'[p]}]
  BY <1>1, <1>2 DEF Gone
<1>4. ASSUME NEW p \in Pos \ exposed PROVE Seen[p] = Read(p)
  <2>1. CASE ChunkOf[p] \in world.loaded
    <3>1. OnItsWay(p) /\ saves["stop"].of[ChunkOf[p]] = "done"
      BY <1>1, <1>4, <2>1, WorldAssumption DEF StoreInv, Stopping
    <3> QED
      BY <2>1, <3>1 DEF OnItsWay, Seen
  <2>2. CASE ChunkOf[p] \notin world.loaded
    BY <2>2 DEF Seen
  <2> QED
    BY <2>1, <2>2
<1>5. \A p \in Pos : Seen'[p] = Seen[p] \/ (p \in exposed \cup exposed' /\ Seen'[p] = Read(p))
  BY <1>2, <1>4
<1> QED
  BY <1>1, <1>3, <1>5, ServeStep DEF StoreInv

LEMMA CrashStep ==
    ASSUME TypeOK, TypeOK', StoreInv, Crash
    PROVE  [Store!Next]_(Store!vars)
<1>1. past' = past /\ Seen' = [p \in Pos |-> Read(p)]
  BY GoneStore DEF Crash
<1>2. Seen' \in [Pos -> Block] /\ \A p \in Pos : Seen'[p] \in past[p]
  BY <1>1, ReadType, ReadHad DEF StoreInv
<1>3. Store!Crash
  BY <1>1, <1>2 DEF Crash, Store!Crash
<1> QED
  BY <1>3 DEF Store!Next

\* Handlers run only while there is a process.
LEMMA HandlersServe ==
    ASSUME DiskInv, NEW k \in CallIds,
           \/ \E p \in Pos, b \in Placeable : \E q \in Around[p] : Place(k, p, q, b)
           \/ \E p \in Pos : Break(k, p)
           \/ PlaceClicked(k) \/ PlacePlaced(k) \/ BreakLoaded(k) \/ SpawnDrop(k)
           \/ FinishBreak(k)
    PROVE  stop # "off"
<1>1. calls[k] # Idle => stop # "off"
  BY DEF DiskInv, GoneIsGone
<1>2. calls[k].kind \in {"place", "break"} => calls[k] # Idle
  BY DEF Idle
<1>3. Serving \/ calls[k].kind \in {"place", "break"}
  BY DEF Place, Break, PlaceClicked, PlacePlaced, BreakLoaded, SpawnDrop, FinishBreak
<1> QED
  BY <1>1, <1>2, <1>3 DEF Serving

LEMMA StoreStep ==
    TypeOK /\ TypeOK' /\ DiskInv /\ StoreInv /\ [Next]_vars => StoreInv' /\ [Store!Next]_(Store!vars)
<1> SUFFICES ASSUME TypeOK, TypeOK', DiskInv, StoreInv, [Next]_vars
             PROVE  StoreInv' /\ [Store!Next]_(Store!vars)
  OBVIOUS
<1>0. HadBlocks
  BY DEF StoreInv
<1>1. ASSUME NEW k \in CallIds,
             \/ \E p \in Pos, b \in Placeable : \E q \in Around[p] : Place(k, p, q, b)
             \/ \E p \in Pos : Break(k, p)
             \/ PlaceClicked(k) \/ PlacePlaced(k) \/ BreakLoaded(k) \/ SpawnDrop(k)
             \/ FinishBreak(k)
      PROVE  StoreInv' /\ [Store!Next]_(Store!vars)
  <2>1. stop # "off"
    BY <1>1, HandlersServe
  <2>2. ASSUME NEW w \in ChunksMap, NEW c, Handled(w, c), Shape(w, c)
        PROVE  StoreInv' /\ [Store!Next]_(Store!vars)
    BY <1>0, <2>1, <2>2, HandledStore, HandledStep
  <2>3. ASSUME UNCHANGED <<world, file, kept, saves, stop, exposed, past, crashes>>
        PROVE  StoreInv' /\ [Store!Next]_(Store!vars)
    <3>1. Stopping'
      BY <2>3 DEF StoreInv, Stopping, OnItsWay, Read
    <3>2. StoreInv' /\ UNCHANGED Seen
      BY <2>3, <3>1, QuietStore
    <3> QED
      BY <1>0, <2>3, <3>2, SameStep
  <2> QED
    BY <1>1, <2>2, <2>3, ShapeOfHandlers
<1>2. CASE Tick
  <2>1. UNCHANGED <<world, file, kept, past, stop, crashes>> /\ stop = "no"
    BY <1>2 DEF Tick, disk
  <2>2. SaveStarts("tick") \/ UNCHANGED saves
    BY <1>2 DEF Tick
  <2>3. Stopping'
    BY <2>1 DEF Stopping
  <2>4. StoreInv' /\ UNCHANGED Seen
    BY <2>1, <2>2, <2>3, SaveStartsTakes, QuietStore
  <2> QED
    BY <1>0, <2>1, <2>4, SameStep
<1>3. CASE TickSaved
  <2>1. UNCHANGED <<past, crashes>>
    BY <1>3 DEF TickSaved, history
  <2> QED
    BY <1>0, <1>3, <2>1, TickSavedStore, SameStep
<1>4. CASE (\E t \in Times : SetTicks(t)) \/ UNCHANGED vars
  <2>1. UNCHANGED <<world, file, kept, saves, stop, exposed, past, crashes>>
    BY <1>4 DEF SetTicks, vars, disk, history
  <2>2. Stopping'
    BY <2>1 DEF StoreInv, Stopping, OnItsWay, Read
  <2>3. StoreInv' /\ UNCHANGED Seen
    BY <2>1, <2>2, QuietStore
  <2> QED
    BY <1>0, <2>1, <2>3, SameStep
<1>5. ASSUME NEW s \in {"tick", "stop"}, NEW c \in Chunk, OpenFile(s, c) \/ FillFile(s, c)
      PROVE  StoreInv' /\ [Store!Next]_(Store!vars)
  BY <1>0, <1>5, WriteStore, SameStep
<1>6. CASE Kill
  <2>1. UNCHANGED <<world, file, kept, saves, exposed, past, crashes>> /\ stop' = "kicking"
    BY <1>6 DEF Kill, disk, history
  <2>2. Stopping'
    BY <2>1 DEF Stopping
  <2>3. StoreInv' /\ UNCHANGED Seen
    BY <2>1, <2>2, QuietStore
  <2> QED
    BY <1>0, <2>1, <2>3, SameStep
<1>7. CASE KillSaves
  <2>1. UNCHANGED <<past, crashes>>
    BY <1>7 DEF KillSaves
  <2> QED
    BY <1>0, <1>7, <2>1, KillStore, SameStep
<1>8. CASE KillSaved
  <2>1. UNCHANGED <<past, crashes>>
    BY <1>8 DEF KillSaved, history
  <2> QED
    BY <1>0, <1>8, <2>1, KillSavedStore, SameStep
<1>9. CASE Exit
  BY <1>9, ExitStep, GoneStore DEF Exit
<1>10. CASE Crash
  BY <1>10, CrashStep, GoneStore DEF Crash
<1>11. CASE Start
  <2>1. UNCHANGED <<past, crashes>>
    BY <1>11 DEF Start
  <2> QED
    BY <1>0, <1>11, <2>1, StartStore, SameStep
<1> QED
  BY <1>1, <1>2, <1>3, <1>4, <1>5, <1>6, <1>7, <1>8, <1>9, <1>10, <1>11 DEF Next

LEMMA StoreInit == Init => StoreInv /\ Store!Init
<1> SUFFICES ASSUME Init PROVE StoreInv /\ Store!Init
  OBVIOUS
<1>1. /\ world.loaded = {} /\ stop = "off" /\ exposed = {} /\ crashes = 0
      /\ past = [p \in Pos |-> {Generated[p]}]
      /\ \A c \in Chunk : file[c] = "none"
      /\ \A s \in {"tick", "stop"}, c \in Chunk : saves[s].of[c] = "done"
  BY DEF Init, NoWorld, NoSave
<1>2. \A p \in Pos : ChunkOf[p] \in Chunk
  BY WorldAssumption
<1>3. StoreInv
  BY <1>1, <1>2 DEF StoreInv, HadBlocks, Stopping
<1>4. Seen = [p \in Pos |-> Generated[p]]
  BY <1>1, <1>2 DEF Seen, Read
<1>5. Store!Init
  BY <1>1, <1>4, WorldAssumption DEF Store!Init
<1> QED
  BY <1>3, <1>5

LEMMA StoreCorrect == Spec => []StoreInv
BY StoreInit, StoreStep, TypeCorrect, DiskCorrect, PTL DEF Spec

\* A world keeps its promise (BlockStore): blocks change only where somebody
\* edits, whatever chunks are loaded, saved and written meanwhile and however
\* the server stops, but for the positions `exposed' names; a crash brings back
\* a block the position had (World.ts, Filesystem.ts, Server.kill).
THEOREM WorldImplementsStore == Spec => ImplementsBlockStore
BY StoreInit, StoreStep, StoreCorrect, TypeCorrect, DiskCorrect, PTL
   DEF Spec, ImplementsBlockStore, Store!Spec

-----------------------------------------------------------------------------
(* One drop for every block.  A position where no two calls met and that   *)
(* is not exposed has at most one break at work; the break holds the block *)
(* that stands there; and the supply covers that block until it is dropped.*)

At(cs, k, p) == cs[k].kind = "break" /\ cs[k].pos = p

Honest(p) ==
    /\ \A j, k \in CallIds : At(calls, j, p) /\ At(calls, k, p) => j = k
    /\ \A k \in CallIds : At(calls, k, p) /\ calls[k].stage # "load" =>
           calls[k].live /\ ChunkOf[p] \in world.loaded /\ calls[k].block = world.block[p]
    /\ supply[p] >= 0
    /\ \/ supply[p] >= Solid(Seen[p])
       \/ \E k \in CallIds : At(calls, k, p) /\ calls[k].stage = "dropped"

DropInv ==
    /\ \A p \in Pos \ (contested \cup exposed) : Honest(p)
    /\ stop = "off" => \A p \in Pos : supply[p] >= Solid(Read(p))

LEMMA SolidType == \A b : Solid(b) \in {0, 1} /\ Solid(Air) = 0
BY DEF Solid

\* A step that leaves a position alone, with the breaks at work there.
LEMMA Untouched ==
    ASSUME NEW p \in Pos, Honest(p),
           \A j \in CallIds : /\ At(calls', j, p) <=> At(calls, j, p)
                              /\ At(calls, j, p) => calls'[j] = calls[j],
           supply'[p] = supply[p], Seen'[p] = Seen[p],
           ChunkOf[p] \in world.loaded => ChunkOf[p] \in world'.loaded /\ world'.block[p] = world.block[p]
    PROVE  Honest(p)'
<1>1. \A j, k \in CallIds : At(calls', j, p) /\ At(calls', k, p) => j = k
  BY DEF Honest
<1>2. \A k \in CallIds : At(calls', k, p) /\ calls'[k].stage # "load" =>
          calls'[k].live /\ ChunkOf[p] \in world'.loaded /\ calls'[k].block = world'.block[p]
  BY DEF Honest
<1>3. \/ supply'[p] >= Solid(Seen'[p])
      \/ \E k \in CallIds : At(calls', k, p) /\ calls'[k].stage = "dropped"
  BY DEF Honest
<1>4. supply'[p] >= 0
  BY DEF Honest
<1> QED
  BY <1>1, <1>2, <1>3, <1>4 DEF Honest, At

\* The map a handler works on: as it was, or with one chunk more.
Loading(w, c, others) ==
    \/ w = world /\ others = calls
    \/ c \in Chunk /\ w = Loaded(world, c) /\ others = Orphaned(c)

LEMMA LoadingType == ASSUME TypeOK, NEW w, NEW c, NEW others, Loading(w, c, others) PROVE w \in ChunksMap
<1>1. CASE w = world
  BY <1>1 DEF TypeOK
<1>2. CASE c \in Chunk /\ w = Loaded(world, c)
  BY <1>2, LoadedType DEF TypeOK
<1> QED
  BY <1>1, <1>2 DEF Loading

LEMMA LoadingKeeps ==
    ASSUME TypeOK, NEW w, NEW c, NEW others, Loading(w, c, others), NEW p \in Pos, Honest(p),
           ChunkOf[p] = c => c \notin world.loaded
    PROVE  /\ \A j \in CallIds : /\ At(others, j, p) <=> At(calls, j, p)
                                 /\ At(calls, j, p) => others[j] = calls[j]
           /\ w \in ChunksMap /\ SeenIn(w)[p] = Seen[p] /\ world.loaded \subseteq w.loaded
           /\ ChunkOf[p] \in world.loaded => w.block[p] = world.block[p]
<1>1. CASE w = world /\ others = calls
  BY <1>1, SeenType DEF TypeOK
<1>2. CASE c \in Chunk /\ w = Loaded(world, c) /\ others = Orphaned(c)
  <2>1. /\ w \in ChunksMap /\ w.loaded = world.loaded \cup {c}
        /\ w.block = [r \in Pos |-> IF ChunkOf[r] = c THEN Read(r) ELSE world.block[r]]
    <3>1. world \in ChunksMap
      BY DEF TypeOK
    <3> QED
      BY <1>2, <3>1, LoadedType
  <2>2. SeenIn(w)[p] = Seen[p]
    BY <2>1 DEF SeenIn, Seen
  <2>3. ASSUME NEW j \in CallIds
        PROVE  /\ At(others, j, p) <=> At(calls, j, p)
               /\ At(calls, j, p) => others[j] = calls[j]
    <3>1. others[j] = IF calls[j].kind = "break" /\ calls[j].stage # "load" /\ ChunkOf[calls[j].pos] = c
                         THEN Breaking(calls[j].stage, calls[j].pos, calls[j].block, FALSE)
                         ELSE calls[j]
      BY <1>2 DEF Orphaned
    <3>2. others[j] # calls[j] => ~At(calls, j, p)
      BY <3>1 DEF Honest, At
    <3>3. others[j] # calls[j] => others[j].pos = calls[j].pos /\ calls[j].kind = "break"
      BY <3>1 DEF Breaking
    <3> QED
      BY <3>2, <3>3 DEF At
  <2> QED
    BY <2>1, <2>2, <2>3
<1> QED
  BY <1>1, <1>2 DEF Loading

\* A handler's step: the map it makes is what a reader finds next.
LEMMA HandledSeen ==
    ASSUME TypeOK, NEW w \in ChunksMap, NEW c, Handled(w, c)
    PROVE  /\ world' = w /\ Seen' = SeenIn(w) /\ stop' = stop /\ exposed \subseteq exposed'
           /\ \A p \in Pos : p \notin exposed' => (ChunkOf[p] = c => c \notin world.loaded)
<1>1. world' = w /\ UNCHANGED <<file, kept, stop>>
  BY DEF Handled, disk
<1>2. \A p : Read(p)' = Read(p)
  BY <1>1 DEF Read
<1>3. Seen' = SeenIn(w)
  BY <1>1, <1>2 DEF Seen, SeenIn
<1> QED
  BY <1>1, <1>3, HandledExposed

\* A call that is no break waits or ends, and sets no block.
LEMMA WaitHonest ==
    ASSUME TypeOK, DropInv, NEW w, NEW c, NEW others \in [CallIds -> Calls], Loading(w, c, others),
           NEW k \in CallIds, calls[k].kind # "break", Handled(w, c),
           NEW x, x.kind # "break", calls' = [others EXCEPT ![k] = x],
           UNCHANGED <<supply, contested>>,
           NEW p \in Pos \ (contested' \cup exposed')
    PROVE  Honest(p)'
<1>1. w \in ChunksMap
  BY LoadingType
<1>2. Honest(p) /\ (ChunkOf[p] = c => c \notin world.loaded)
  BY <1>1, HandledSeen DEF DropInv
<1>3. \A j \in CallIds : /\ At(calls', j, p) <=> At(calls, j, p)
                         /\ At(calls, j, p) => calls'[j] = calls[j]
  BY <1>2, LoadingKeeps DEF At
<1>4. world' = w /\ Seen'[p] = Seen[p] /\ supply'[p] = supply[p]
  BY <1>1, <1>2, HandledSeen, LoadingKeeps
<1>5. ChunkOf[p] \in world.loaded => ChunkOf[p] \in world'.loaded /\ world'.block[p] = world.block[p]
  BY <1>2, <1>4, LoadingKeeps
<1> QED
  BY <1>2, <1>3, <1>4, <1>5, Untouched

\* A call that is no break sets a block, where no break is at work.
LEMMA SetHonest ==
    ASSUME TypeOK, DropInv, NEW w, NEW c, NEW others \in [CallIds -> Calls], Loading(w, c, others),
           NEW k \in CallIds, calls[k].kind # "break", NEW to \in Pos, NEW b \in Block,
           ChunkOf[to] \in w.loaded, Handled(WithBlock(w, to, b), c),
           calls' = [others EXCEPT ![k] = Idle],
           supply' = [supply EXCEPT ![to] = @ + 1],
           contested' = (IF Others(k, to) THEN contested \cup {to} ELSE contested),
           NEW p \in Pos \ (contested' \cup exposed')
    PROVE  Honest(p)'
<1>1. w \in ChunksMap /\ WithBlock(w, to, b) \in ChunksMap
  BY LoadingType, WithBlockType
<1>2. Honest(p) /\ (ChunkOf[p] = c => c \notin world.loaded)
  BY <1>1, HandledSeen DEF DropInv
<1>3. \A j \in CallIds : /\ At(calls', j, p) <=> At(calls, j, p)
                         /\ At(calls, j, p) => calls'[j] = calls[j]
  BY <1>2, LoadingKeeps DEF At, Idle
<1>4. /\ world'.loaded = w.loaded /\ world'.block = [w.block EXCEPT ![to] = b]
      /\ Seen' = SeenIn(world')
  BY <1>1, HandledSeen, WithBlockType
<1>5. CASE p # to
  <2>1. Seen'[p] = SeenIn(w)[p] /\ world'.block[p] = w.block[p]
    BY <1>1, <1>4, <1>5 DEF SeenIn, ChunksMap
  <2>2. supply'[p] = supply[p]
    BY <1>5 DEF TypeOK
  <2>3. SeenIn(w)[p] = Seen[p] /\ world.loaded \subseteq w.loaded
        /\ (ChunkOf[p] \in world.loaded => w.block[p] = world.block[p])
    BY <1>2, LoadingKeeps
  <2>4. Seen'[p] = Seen[p]
        /\ (ChunkOf[p] \in world.loaded => ChunkOf[p] \in world'.loaded /\ world'.block[p] = world.block[p])
    BY <1>4, <2>1, <2>3
  <2> QED
    BY <1>2, <1>3, <2>2, <2>4, Untouched
<1>6. CASE p = to
  <2>1. \A j \in CallIds : ~At(calls', j, p)
    BY <1>3, <1>6 DEF Others, At
  <2>2. supply'[p] = supply[p] + 1 /\ supply[p] \in Int /\ supply[p] >= 0
    BY <1>2, <1>6 DEF TypeOK, Honest
  <2>3. supply'[p] >= Solid(Seen'[p]) /\ supply'[p] >= 0
    BY <2>2, SolidType
  <2> QED
    BY <2>1, <2>3 DEF Honest, At
<1> QED
  BY <1>5, <1>6

LEMMA ClickedHonest ==
    ASSUME TypeOK, DropInv, NEW k \in CallIds, calls[k].kind # "break",
           NEW p \in Pos, NEW q \in Pos, NEW b \in Placeable,
           NEW w, NEW c, NEW others \in [CallIds -> Calls], Loading(w, c, others),
           FromClicked(k, p, q, b, w, c, others)
    PROVE  \A r \in Pos \ (contested' \cup exposed') : Honest(r)'
<1> DEFINE to == IF w.block[p] \in Replaceable THEN p ELSE q
<1>0. to \in Pos /\ b \in Block
  BY WorldAssumption
<1>1. \/ /\ Handled(w, c) /\ UNCHANGED <<supply, contested>>
         /\ \/ calls' = [others EXCEPT ![k] = Idle]
            \/ calls' = [others EXCEPT ![k] = Placing("placed", p, to, b)]
      \/ /\ ChunkOf[to] \in w.loaded
         /\ Handled(WithBlock(w, to, b), c)
         /\ calls' = [others EXCEPT ![k] = Idle]
         /\ supply' = [supply EXCEPT ![to] = @ + 1]
         /\ contested' = (IF Others(k, to) THEN contested \cup {to} ELSE contested)
  BY DEF FromClicked
<1>2. Idle.kind # "break" /\ Placing("placed", p, to, b).kind # "break"
  BY DEF Idle, Placing
<1> HIDE DEF to
<1> QED
  BY <1>0, <1>1, <1>2, WaitHonest, SetHonest

LEMMA HandlersHonest ==
    ASSUME TypeOK, DropInv, NEW k \in CallIds,
           \/ \E p \in Pos, b \in Placeable : \E q \in Around[p] : Place(k, p, q, b)
           \/ \E p \in Pos : Break(k, p)
           \/ PlaceClicked(k) \/ PlacePlaced(k) \/ BreakLoaded(k) \/ SpawnDrop(k)
           \/ FinishBreak(k)
    PROVE  \A r \in Pos \ (contested' \cup exposed') : Honest(r)'
<1>0. /\ calls[k] \in Calls /\ calls \in [CallIds -> Calls] /\ world \in ChunksMap
      /\ \A p \in Pos : ChunkOf[p] \in Chunk /\ Around[p] \subseteq Pos
      /\ Air \in Block /\ Placeable \subseteq Block
  BY WorldAssumption DEF TypeOK
<1>1. ASSUME NEW p \in Pos, NEW b \in Placeable, NEW q \in Around[p], Place(k, p, q, b)
      PROVE  \A r \in Pos \ (contested' \cup exposed') : Honest(r)'
  <2>1. q \in Pos /\ calls[k].kind # "break"
    BY <1>0, <1>1 DEF Place, Idle
  <2>2. CASE ChunkOf[p] \in world.loaded
    <3>1. FromClicked(k, p, q, b, world, NoChunk, calls) /\ Loading(world, NoChunk, calls)
      BY <1>1, <2>2 DEF Place, Loading
    <3> QED
      BY <1>0, <2>1, <3>1, ClickedHonest
  <2>3. CASE ChunkOf[p] \notin world.loaded
    <3>1. /\ calls' = [calls EXCEPT ![k] = Placing("clicked", p, q, b)]
          /\ UNCHANGED <<world, file, kept, supply, contested, exposed>>
      BY <1>1, <2>3 DEF Place, disk, history
    <3>2. \A r \in Pos, j \in CallIds : /\ At(calls', j, r) <=> At(calls, j, r)
                                        /\ At(calls, j, r) => calls'[j] = calls[j]
      BY <1>0, <2>1, <3>1 DEF At, Placing
    <3>3. Seen' = Seen
      BY <3>1 DEF Seen, Read
    <3> QED
      BY <3>1, <3>2, <3>3, Untouched DEF DropInv
  <2> QED
    BY <2>2, <2>3
<1>2. ASSUME NEW p \in Pos, Break(k, p), NEW r \in Pos \ (contested' \cup exposed') PROVE Honest(r)'
  <2> DEFINE call == IF ChunkOf[p] \in world.loaded THEN Breaking("sent", p, world.block[p], TRUE)
                                                    ELSE Breaking("load", p, Air, TRUE)
  <2>1. /\ calls[k] = Idle /\ calls' = [calls EXCEPT ![k] = call]
        /\ contested' = (IF Others(k, p) THEN contested \cup {p} ELSE contested)
        /\ UNCHANGED <<world, file, kept, supply, exposed>>
    BY <1>2 DEF Break, disk
  <2>2. call.kind = "break" /\ call.pos = p /\ call.stage # "dropped"
        /\ (call.stage # "load" => call.live /\ ChunkOf[p] \in world.loaded /\ call.block = world.block[p])
    BY DEF Breaking
  <2> HIDE DEF call
  <2>3. Honest(r) /\ Seen' = Seen
    BY <2>1 DEF DropInv, Seen, Read
  <2>4. CASE r # p
    <3>1. \A j \in CallIds : /\ At(calls', j, r) <=> At(calls, j, r)
                             /\ At(calls, j, r) => calls'[j] = calls[j]
      BY <1>0, <2>1, <2>2, <2>4 DEF At, Idle
    <3> QED
      BY <2>1, <2>3, <3>1, Untouched
  <2>5. CASE r = p
    <3>1. \A j \in CallIds : ~At(calls, j, r)
      BY <2>1, <2>5 DEF Others, At, Idle
    <3>2. \A j \in CallIds : At(calls', j, r) => j = k /\ calls'[j] = call
      BY <1>0, <2>1, <3>1 DEF At
    <3>3. supply[r] >= 0 /\ supply[r] >= Solid(Seen[r])
      BY <2>3, <3>1 DEF Honest
    <3>4. \A j \in CallIds : At(calls', j, r) /\ calls'[j].stage # "load" =>
              calls'[j].live /\ ChunkOf[r] \in world.loaded /\ calls'[j].block = world.block[r]
      BY <2>2, <2>5, <3>2
    <3> QED
      BY <2>1, <2>3, <3>2, <3>3, <3>4 DEF Honest, At
  <2> QED
    BY <2>4, <2>5
<1>3. CASE PlaceClicked(k)
  <2> DEFINE c == ChunkOf[calls[k].pos]
  <2>1. calls[k].kind = "place"
        /\ FromClicked(k, calls[k].pos, calls[k].to, calls[k].block, Loaded(world, c), c, Orphaned(c))
    BY <1>3 DEF PlaceClicked
  <2>2. calls[k].pos \in Pos /\ calls[k].to \in Pos /\ calls[k].block \in Placeable
    BY <1>0, <2>1, PlacingType
  <2>3. Loading(Loaded(world, c), c, Orphaned(c)) /\ Orphaned(c) \in [CallIds -> Calls]
    BY <1>0, <2>2, OrphanedType DEF Loading
  <2> HIDE DEF c
  <2> QED
    BY <2>1, <2>2, <2>3, ClickedHonest
<1>4. CASE PlacePlaced(k)
  <2> DEFINE to == calls[k].to
             c == ChunkOf[to]
  <2>1. /\ calls[k].kind = "place"
        /\ Handled(WithBlock(Loaded(world, c), to, calls[k].block), c)
        /\ calls' = [Orphaned(c) EXCEPT ![k] = Idle]
        /\ supply' = [supply EXCEPT ![to] = @ + 1]
        /\ contested' = IF Others(k, to) THEN contested \cup {to} ELSE contested
    BY <1>4 DEF PlacePlaced
  <2>2. to \in Pos /\ calls[k].block \in Block
    BY <1>0, <2>1, PlacingType
  <2>3. Loading(Loaded(world, c), c, Orphaned(c)) /\ Orphaned(c) \in [CallIds -> Calls]
    BY <1>0, <2>2, OrphanedType DEF Loading
  <2>4. c \in Loaded(world, c).loaded
    BY DEF Loaded
  <2>5. calls[k].kind # "break"
    BY <2>1
  <2> HIDE DEF to
  <2> QED
    BY <2>1, <2>2, <2>3, <2>4, <2>5, SetHonest
<1>5. ASSUME BreakLoaded(k), NEW r \in Pos \ (contested' \cup exposed') PROVE Honest(r)'
  <2> DEFINE p == calls[k].pos
             c == ChunkOf[p]
             w == Loaded(world, c)
             call == Breaking("sent", p, Read(p), TRUE)
  <2>1. /\ calls[k].kind = "break" /\ calls[k].stage = "load" /\ Handled(w, c)
        /\ calls' = [Orphaned(c) EXCEPT ![k] = call]
        /\ UNCHANGED <<supply, contested>>
    BY <1>5 DEF BreakLoaded
  <2>2. p \in Pos
    BY <1>0, <2>1, BreakingType
  <2>3. Loading(w, c, Orphaned(c)) /\ Orphaned(c) \in [CallIds -> Calls] /\ w \in ChunksMap
    BY <1>0, <2>2, OrphanedType, LoadedType DEF Loading
  <2>4. /\ call.kind = "break" /\ call.pos = p /\ call.stage = "sent" /\ call.live
        /\ call.block = Read(p)
    BY DEF Breaking
  <2>5. c \in w.loaded /\ w.block[p] = Read(p)
    BY <2>2 DEF Loaded
  <2> HIDE DEF w, call
  <2>6. /\ Honest(r) /\ (ChunkOf[r] = c => c \notin world.loaded)
        /\ world' = w /\ Seen' = SeenIn(w)
    BY <2>1, <2>3, HandledSeen DEF DropInv
  <2>7. /\ \A j \in CallIds : /\ At(Orphaned(c), j, r) <=> At(calls, j, r)
                              /\ At(calls, j, r) => Orphaned(c)[j] = calls[j]
        /\ SeenIn(w)[r] = Seen[r] /\ world.loaded \subseteq w.loaded
        /\ ChunkOf[r] \in world.loaded => w.block[r] = world.block[r]
    BY <2>3, <2>6, LoadingKeeps
  <2>8. CASE r # p
    <3>1. \A j \in CallIds : /\ At(calls', j, r) <=> At(calls, j, r)
                             /\ At(calls, j, r) => calls'[j] = calls[j]
      BY <2>1, <2>3, <2>4, <2>7, <2>8 DEF At
    <3>2. ChunkOf[r] \in world.loaded => ChunkOf[r] \in world'.loaded /\ world'.block[r] = world.block[r]
      BY <2>6, <2>7
    <3> QED
      BY <2>1, <2>6, <2>7, <3>1, <3>2, Untouched
  <2>9. CASE r = p
    <3>1. \A j \in CallIds : At(calls, j, r) <=> j = k
      BY <2>1, <2>6, <2>9 DEF Honest, At
    <3>2. \A j \in CallIds : At(calls', j, r) => j = k /\ calls'[j] = call
      BY <2>1, <2>3, <2>7, <3>1 DEF At
    <3>3. supply[r] >= 0 /\ supply[r] >= Solid(Seen[r])
      BY <2>1, <2>6, <3>1 DEF Honest
    <3>4. \A j \in CallIds : At(calls', j, r) /\ calls'[j].stage # "load" =>
              calls'[j].live /\ ChunkOf[r] \in w.loaded /\ calls'[j].block = w.block[r]
      BY <2>4, <2>5, <2>9, <3>2
    <3>5. Seen'[r] = Seen[r]
      BY <2>6, <2>7
    <3> QED
      BY <2>1, <2>6, <3>2, <3>3, <3>4, <3>5 DEF Honest, At
  <2> QED
    BY <2>8, <2>9
<1>6. ASSUME SpawnDrop(k), NEW r \in Pos \ (contested' \cup exposed') PROVE Honest(r)'
  <2> DEFINE p == calls[k].pos
  <2>1. /\ calls[k].kind = "break" /\ calls[k].stage = "sent"
        /\ calls' = [calls EXCEPT ![k].stage = "dropped"]
        /\ supply' = [supply EXCEPT ![p] = @ - Solid(calls[k].block)]
        /\ UNCHANGED <<world, file, kept, contested, exposed>>
    BY <1>6 DEF SpawnDrop, disk
  <2>2. p \in Pos /\ calls[k].block \in Block
    BY <1>0, <2>1, BreakingType
  <2>3. Honest(r) /\ Seen' = Seen
    BY <2>1 DEF DropInv, Seen, Read
  <2>4. calls'[k] = [calls[k] EXCEPT !.stage = "dropped"] /\ \A j \in CallIds \ {k} : calls'[j] = calls[j]
    BY <1>0, <2>1
  <2>5. PICK s \in {"load", "sent", "dropped"}, v \in Pos, b \in Block, l \in BOOLEAN :
            calls[k] = Breaking(s, v, b, l)
    BY <1>0, <2>1 DEF Calls, Placing, Idle
  <2>6. calls'[k].kind = "break" /\ calls'[k].pos = p /\ calls'[k].stage = "dropped"
        /\ calls'[k].block = calls[k].block
    BY <2>4, <2>5 DEF Breaking
  <2>7. calls[k].live => calls'[k].live
    BY <2>4, <2>5 DEF Breaking
  <2>8. CASE r # p
    <3>1. \A j \in CallIds : /\ At(calls', j, r) <=> At(calls, j, r)
                             /\ At(calls, j, r) => calls'[j] = calls[j]
      BY <2>1, <2>4, <2>6, <2>8 DEF At
    <3>2. supply'[r] = supply[r]
      BY <2>1, <2>8 DEF TypeOK
    <3> QED
      BY <2>1, <2>3, <3>1, <3>2, Untouched
  <2>9. CASE r = p
    <3>1. \A j \in CallIds : At(calls, j, r) <=> j = k
      BY <2>1, <2>3, <2>9 DEF Honest, At
    <3>2. \A j \in CallIds : At(calls', j, r) <=> j = k
      BY <2>4, <2>6, <2>9, <3>1 DEF At
    <3>3. calls[k].live /\ ChunkOf[r] \in world.loaded /\ calls[k].block = world.block[r]
      BY <2>1, <2>3, <3>1 DEF Honest
    <3>4. Seen[r] = calls[k].block
      BY <3>3 DEF Seen
    <3>5. supply[r] >= Solid(Seen[r])
      BY <2>1, <2>3, <3>1 DEF Honest
    <3>6. supply'[r] >= 0
      <4>1. supply'[r] = supply[r] - Solid(calls[k].block) /\ supply[r] \in Int
        BY <2>1, <2>9 DEF TypeOK
      <4>2. Solid(calls[k].block) \in {0, 1}
        BY SolidType
      <4> QED
        BY <3>4, <3>5, <4>1, <4>2
    <3>7. \A j \in CallIds : At(calls', j, r) /\ calls'[j].stage # "load" =>
              calls'[j].live /\ ChunkOf[r] \in world'.loaded /\ calls'[j].block = world'.block[r]
      BY <2>1, <2>6, <2>7, <3>2, <3>3
    <3> QED
      BY <2>6, <3>2, <3>6, <3>7 DEF Honest, At
  <2> QED
    BY <2>8, <2>9
<1>7. ASSUME FinishBreak(k), NEW r \in Pos \ (contested' \cup exposed') PROVE Honest(r)'
  <2> DEFINE p == calls[k].pos
             w == IF calls[k].live THEN WithBlock(world, p, Air) ELSE world
  <2>1. /\ calls[k].kind = "break" /\ calls[k].stage # "load" /\ Handled(w, NoChunk)
        /\ calls' = [calls EXCEPT ![k] = Idle]
        /\ UNCHANGED <<supply, contested>>
    BY <1>7 DEF FinishBreak
  <2>2. p \in Pos
    BY <1>0, <2>1, BreakingType
  <2>3. /\ w \in ChunksMap /\ w.loaded = world.loaded
        /\ \A v \in Pos : v # p => w.block[v] = world.block[v]
        /\ calls[k].live => w.block[p] = Air
    <3>1. CASE calls[k].live
      <4>1. w = WithBlock(world, p, Air)
        BY <3>1
      <4> HIDE DEF w, p
      <4>2. w \in ChunksMap /\ w.loaded = world.loaded /\ w.block = [world.block EXCEPT ![p] = Air]
        BY <1>0, <2>2, <4>1, WithBlockType
      <4> QED
        BY <1>0, <2>2, <4>2 DEF ChunksMap
    <3>2. CASE ~calls[k].live
      BY <1>0, <3>2
    <3> QED
      BY <3>1, <3>2
  <2> HIDE DEF w
  <2>4. Honest(r) /\ world' = w /\ Seen' = SeenIn(w)
    BY <2>1, <2>3, HandledSeen DEF DropInv
  <2>5. CASE r # p
    <3>1. \A j \in CallIds : /\ At(calls', j, r) <=> At(calls, j, r)
                             /\ At(calls, j, r) => calls'[j] = calls[j]
      BY <1>0, <2>1, <2>5 DEF At, Idle
    <3>2. Seen'[r] = Seen[r]
      BY <2>3, <2>4, <2>5 DEF Seen, SeenIn
    <3> QED
      BY <2>1, <2>3, <2>4, <2>5, <3>1, <3>2, Untouched
  <2>6. CASE r = p
    <3>1. \A j \in CallIds : At(calls, j, r) <=> j = k
      BY <2>1, <2>4, <2>6 DEF Honest, At
    <3>2. \A j \in CallIds : ~At(calls', j, r)
      BY <1>0, <2>1, <3>1 DEF At, Idle
    <3>3. calls[k].live /\ ChunkOf[r] \in world.loaded
      BY <2>1, <2>4, <3>1 DEF Honest
    <3>4. Seen'[r] = Air
      BY <2>3, <2>4, <2>6, <3>3 DEF SeenIn
    <3>5. supply'[r] >= 0 /\ supply'[r] >= Solid(Seen'[r])
      BY <2>1, <2>4, <3>4, SolidType DEF Honest
    <3> QED
      BY <3>2, <3>5 DEF Honest, At
  <2> QED
    BY <2>5, <2>6
<1> QED
  BY <1>1, <1>2, <1>3, <1>4, <1>5, <1>6, <1>7

LEMMA DropStep == TypeOK /\ DiskInv /\ StoreInv /\ DropInv /\ [Next]_vars => DropInv'
<1> SUFFICES ASSUME TypeOK, DiskInv, StoreInv, DropInv, [Next]_vars PROVE DropInv'
  OBVIOUS
<1>1. ASSUME NEW k \in CallIds,
             \/ \E p \in Pos, b \in Placeable : \E q \in Around[p] : Place(k, p, q, b)
             \/ \E p \in Pos : Break(k, p)
             \/ PlaceClicked(k) \/ PlacePlaced(k) \/ BreakLoaded(k) \/ SpawnDrop(k)
             \/ FinishBreak(k)
      PROVE  DropInv'
  <2>1. stop # "off"
    BY <1>1, HandlersServe
  <2>2. stop' = stop
    <3>1. CASE \E w \in ChunksMap : \E c : Handled(w, c) /\ Shape(w, c)
      BY <3>1 DEF Handled
    <3> QED
      BY <1>1, <3>1, ShapeOfHandlers
  <2> QED
    BY <1>1, <2>1, <2>2, HandlersHonest DEF DropInv
<1>2. ASSUME UNCHANGED <<world, calls, supply, Seen>>, contested \subseteq contested', exposed \subseteq exposed',
             stop' # "off" \/ UNCHANGED <<file, kept, stop>>
      PROVE  DropInv'
  <2>1. ASSUME NEW p \in Pos \ (contested' \cup exposed') PROVE Honest(p)'
    BY <1>2, <2>1, Untouched DEF DropInv
  <2>2. stop' = "off" => \A p \in Pos : supply'[p] >= Solid(Read(p)')
    BY <1>2 DEF DropInv, Read
  <2> QED
    BY <2>1, <2>2 DEF DropInv
<1>3. CASE Tick \/ TickSaved \/ (\E t \in Times : SetTicks(t)) \/ Kill \/ KillSaves \/ KillSaved \/ UNCHANGED vars
  <2>1. /\ UNCHANGED <<world, file, kept, calls, supply, contested>> /\ exposed \subseteq exposed'
        /\ stop' # "off" \/ UNCHANGED stop
    BY <1>3 DEF Tick, TickSaved, SetTicks, Kill, KillSaves, KillSaved, vars, disk, history
  <2>2. UNCHANGED Seen
    BY <2>1 DEF Seen, Read
  <2> QED
    BY <1>2, <2>1, <2>2
<1>4. ASSUME NEW s \in {"tick", "stop"}, NEW c \in Chunk, OpenFile(s, c) \/ FillFile(s, c)
      PROVE  DropInv'
  <2>1. UNCHANGED <<world, calls, supply, contested, exposed, stop>> /\ saves[s].of[c] # "done"
    BY <1>4 DEF OpenFile, FillFile, history
  <2>2. stop # "off"
    BY <2>1 DEF DiskInv, GoneIsGone
  <2> QED
    BY <1>2, <1>4, <2>1, <2>2, WriteStore
<1>5. CASE Exit \/ Crash
  <2>1. /\ calls' = [k \in CallIds |-> Idle] /\ supply' = [p \in Pos |-> Solid(Read(p))]
        /\ UNCHANGED <<file, kept>> /\ Gone
    BY <1>5 DEF Exit, Crash, Gone, disk
  <2>2. Seen' = [p \in Pos |-> Read(p)]
    BY <2>1, GoneStore
  <2>3. \A p \in Pos, k \in CallIds : ~At(calls', k, p)
    BY <2>1 DEF At, Idle
  <2>4. \A p \in Pos : supply'[p] >= 0 /\ supply'[p] >= Solid(Seen'[p])
    BY <2>1, <2>2, SolidType
  <2>5. \A p \in Pos : Honest(p)'
    BY <2>3, <2>4 DEF Honest, At
  <2>6. \A p \in Pos : supply'[p] >= Solid(Read(p)')
    BY <2>1, SolidType DEF Read
  <2> QED
    BY <2>5, <2>6 DEF DropInv
<1>6. CASE Start
  <2>1. stop = "off" /\ stop' = "no" /\ UNCHANGED <<calls, supply>> /\ world.loaded = {}
    BY <1>6 DEF Start, StoreInv, Stopping
  <2>2. Seen' = Seen /\ \A p \in Pos : Seen[p] = Read(p)
    BY <1>6, <2>1, StartStore DEF Seen
  <2>3. \A p \in Pos, k \in CallIds : ~At(calls', k, p)
    BY <2>1 DEF DiskInv, GoneIsGone, At, Idle
  <2>4. \A p \in Pos : supply'[p] >= 0 /\ supply'[p] >= Solid(Seen'[p])
    <3>1. \A p \in Pos : supply[p] >= Solid(Read(p)) /\ supply[p] \in Int
      BY <2>1 DEF DropInv, TypeOK
    <3>2. \A p \in Pos : Solid(Read(p)) \in {0, 1}
      BY SolidType
    <3> QED
      BY <2>1, <2>2, <3>1, <3>2
  <2>5. \A p \in Pos : Honest(p)'
    BY <2>3, <2>4 DEF Honest, At
  <2> QED
    BY <2>1, <2>5 DEF DropInv
<1> QED
  BY <1>1, <1>3, <1>4, <1>5, <1>6 DEF Next

\* A block is dropped as an item at most once where no two calls met and nothing
\* was undone: the break reads the block and drops it before it is removed
\* (InventoryTransactionHandler.ts), and still no second break finds it.
THEOREM OneDropCorrect == Spec => []OneDropPerBlock
<1>1. Init => DropInv
  <2> SUFFICES ASSUME Init PROVE DropInv
    OBVIOUS
  <2>1. /\ world.loaded = {} /\ \A c \in Chunk : file[c] = "none"
        /\ \A k \in CallIds : calls[k] = Idle
        /\ supply = [p \in Pos |-> Solid(Generated[p])]
    BY DEF Init, NoWorld
  <2>2. \A p \in Pos : Seen[p] = Generated[p] /\ Read(p) = Generated[p]
    BY <2>1, WorldAssumption DEF Seen, Read
  <2>3. \A p \in Pos, k \in CallIds : ~At(calls, k, p)
    BY <2>1 DEF At, Idle
  <2>4. \A p \in Pos : supply[p] >= 0 /\ supply[p] >= Solid(Seen[p]) /\ supply[p] >= Solid(Read(p))
    BY <2>1, <2>2, SolidType
  <2> QED
    BY <2>3, <2>4 DEF DropInv, Honest
<1>2. DropInv => OneDropPerBlock
  BY DEF DropInv, Honest, OneDropPerBlock
<1> QED
  BY <1>1, <1>2, DropStep, TypeCorrect, DiskCorrect, StoreCorrect, PTL DEF Spec

=============================================================================
