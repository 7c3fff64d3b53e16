----------------------------- MODULE WorldBlocks -----------------------------
(***************************************************************************)
(* The blocks of one world: chunks that are read or generated on demand,   *)
(* players that place and break blocks in handlers that wait for chunks    *)
(* and for packets to go out, the save of the tick and the save of the     *)
(* stop, and the files of the Filesystem provider                          *)
(* (packages/prismarine/src/world/World.ts, world/chunk,                   *)
(* world/providers/filesystem, network/handler/InventoryTransactionHandler,*)
(* Server.kill).                                                           *)
(*                                                                         *)
(* A chunk is the blocks at its positions.  A file is written as           *)
(* fs.writeFile does it: opened and emptied, then filled; a crash between  *)
(* leaves it torn.  Handlers overlap: a call that waits is in `calls'.     *)
(***************************************************************************)
EXTENDS Integers, FiniteSets

CONSTANTS Pos,          (* block positions                                   *)
          Chunk,        (* chunks                                            *)
          ChunkOf,      (* the chunk of each position                        *)
          Around,       (* the positions next to each position               *)
          Block, Air,   (* blocks, and the one that is none                  *)
          Replaceable,  (* blocks a placed block takes the position of       *)
          Placeable,    (* blocks players can place                          *)
          Generated,    (* what the generator puts at each position          *)
          Preload,      (* the start region                                  *)
          CallIds,      (* handler calls that may be waiting at once         *)
          SaveAt,       (* the tick of the save: 2400                        *)
          Times,        (* the times the time command sets                   *)
          MaxTicks,     (* bound on the ticks between two saves              *)
          MaxEdits,     (* bound on the calls in one run of the server       *)
          MaxCrashes    (* bound on the crashes                              *)

ASSUME WorldAssumption ==
    /\ ChunkOf \in [Pos -> Chunk]
    /\ Around \in [Pos -> SUBSET Pos]
    /\ Air \in Block
    /\ Replaceable \subseteq Block /\ Placeable \subseteq Block \ {Air}
    /\ Generated \in [Pos -> Block]
    /\ Preload \subseteq Chunk
    /\ Times \subseteq 0 .. SaveAt
    /\ {SaveAt, MaxTicks, MaxEdits, MaxCrashes} \subseteq Nat

VARIABLES
    world,      (* the chunks map: which chunks are in it, their blocks, and *)
                (* which have hasChanged set                                 *)
    file,       (* of each chunk: "none", "torn" or "whole"                  *)
    kept,       (* the blocks in the whole files                             *)
    calls,      (* handlers that wait for a chunk or for packets             *)
    saves,      (* the save of the tick and the save of the stop             *)
    tick,       (* World.currentTick, up to SaveAt + 1                       *)
    stop,       (* "no", "kicking", "saving", "closing", "off"               *)
    edits,      (* calls started in this run of the server                   *)
    supply,     (* history: blocks that came to stand at a position less the *)
                (* items dropped there                                       *)
    contested,  (* history: positions where two calls were at work at once   *)
    exposed,    (* history: positions whose edits may be undone (BlockStore) *)
    past,       (* history: the blocks each position had                     *)
    unsaved,    (* history: ticks since the last save of the tick            *)
    crashes     (* history: crashes                                          *)

disk == <<file, kept>>
history == <<supply, contested, exposed, past, unsaved, crashes>>
vars == <<world, disk, calls, saves, tick, stop, edits, history>>

PosOf(c) == {p \in Pos : ChunkOf[p] = c}

Idle == [kind |-> "idle"]
\* A call of useItemOn waits for the chunk of the block that was clicked, then
\* for the chunk of the position the new block goes to.
Placing(stage, p, q, b) == [kind |-> "place", stage |-> stage, pos |-> p, to |-> q, block |-> b]
\* A break waits for the chunk ("load"), for the packets of the break ("sent")
\* and for those of the drop ("dropped").  From "sent" on it holds the chunk
\* object and the block it read: `live' says the object is still in the map.
Breaking(stage, p, b, live) == [kind |-> "break", stage |-> stage, pos |-> p, block |-> b, live |-> live]

Calls == {Idle}
    \cup {Placing(s, p, q, b) : s \in {"clicked", "placed"}, p \in Pos, q \in Pos, b \in Placeable}
    \cup {Breaking(s, p, b, l) : s \in {"load", "sent", "dropped"}, p \in Pos, b \in Block, l \in BOOLEAN}

\* A save: what is left to do for the file of each chunk, and the blocks it took
\* when it started.
NoSave == [on |-> FALSE, of |-> [c \in Chunk |-> "done"], block |-> Generated]

ChunksMap == [loaded : SUBSET Chunk, block : [Pos -> Block], changed : SUBSET Chunk]
Save == [on : BOOLEAN, of : [Chunk -> {"queued", "open", "done"}], block : [Pos -> Block]]

TypeOK ==
    /\ world \in ChunksMap
    /\ file \in [Chunk -> {"none", "torn", "whole"}]
    /\ kept \in [Pos -> Block]
    /\ calls \in [CallIds -> Calls]
    /\ saves \in [{"tick", "stop"} -> Save]
    /\ tick \in 0 .. SaveAt + 1
    /\ stop \in {"no", "kicking", "saving", "closing", "off"}
    /\ edits \in 0 .. MaxEdits
    /\ supply \in [Pos -> Int]
    /\ contested \subseteq Pos /\ exposed \subseteq Pos
    /\ past \in [Pos -> SUBSET Block]
    /\ unsaved \in 0 .. MaxTicks
    /\ crashes \in 0 .. MaxCrashes

-----------------------------------------------------------------------------
(* Chunks and blocks                                                       *)

\* What Filesystem.readChunk returns for a position: any failure to read or to
\* decode the file generates the chunk.
Read(p) == IF file[ChunkOf[p]] = "whole" THEN kept[p] ELSE Generated[p]

\* loadChunk after its await: what was read replaces what is in the map.  The
\* generator sets blocks, so a generated chunk has changed; a decoded one has not.
Loaded(w, c) ==
    [loaded  |-> w.loaded \cup {c},
     block   |-> [p \in Pos |-> IF ChunkOf[p] = c THEN Read(p) ELSE w.block[p]],
     changed |-> IF file[c] = "whole" THEN w.changed \ {c} ELSE w.changed \cup {c}]

\* Seeded fault: setBlock does not set hasChanged.
WithBlockUnmarked(w, p, b) == [w EXCEPT !.block[p] = b]

\* Chunk.setBlock
WithBlock(w, p, b) ==
    [w EXCEPT !.block[p] = b, !.changed = @ \cup {ChunkOf[p]}]

NoWorld == [loaded |-> {}, block |-> [p \in Pos |-> Air], changed |-> {}]

\* The block a reader finds: in the map, or else what a load would bring.
Seen == [p \in Pos |-> IF ChunkOf[p] \in world.loaded THEN world.block[p] ELSE Read(p)]

Solid(b) == IF b = Air THEN 0 ELSE 1

Init ==
    /\ world = NoWorld
    /\ file = [c \in Chunk |-> "none"]
    /\ kept = Generated
    /\ calls = [k \in CallIds |-> Idle]
    /\ saves = [s \in {"tick", "stop"} |-> NoSave]
    /\ tick = 0
    /\ stop = "off"
    /\ edits = 0
    /\ supply = [p \in Pos |-> Solid(Generated[p])]
    /\ contested = {}
    /\ exposed = {}
    /\ past = [p \in Pos |-> {Generated[p]}]
    /\ unsaved = 0
    /\ crashes = 0

-----------------------------------------------------------------------------
(* Handlers                                                                *)

Serving == stop # "off"

Others(k, p) == \E j \in CallIds \ {k} : calls[j].kind = "break" /\ calls[j].pos = p

\* The history of a step of a handler that makes the world w and, if c is not
\* None, loads chunk c: a second load and an edit the stop does not save expose.
Handled(w, c) ==
    /\ world' = w
    /\ exposed' = exposed
        \cup {p \in Pos : ChunkOf[p] = c /\ c \in world.loaded}
        \cup {p \in Pos : stop \in {"saving", "closing"} /\ ChunkOf[p] \in world.loaded
                            /\ w.block[p] # world.block[p]}
        \cup {p \in Pos : stop \in {"saving", "closing"} /\ ChunkOf[p] = c
                            /\ w.block[p] # Read(p)}
    /\ past' = [p \in Pos |-> IF ChunkOf[p] \in w.loaded
                                 THEN past[p] \cup {w.block[p]} ELSE past[p]]
    /\ UNCHANGED <<disk, saves, tick, stop, unsaved, crashes>>

\* The calls after chunk c was loaded: breaks hold the object that was replaced.
Orphaned(c) ==
    [k \in CallIds |-> IF calls[k].kind = "break" /\ calls[k].stage # "load" /\ ChunkOf[calls[k].pos] = c
                          THEN Breaking(calls[k].stage, calls[k].pos, calls[k].block, FALSE)
                          ELSE calls[k]]

NoChunk == "no chunk"

\* useItemOn from the chunk of the clicked block on; the position the block goes
\* to is not looked at before it is set.
FromClicked(k, p, q, b, w, c, others) ==
    LET to == IF w.block[p] \in Replaceable THEN p ELSE q
    IN \/ /\ w.block[p] = Air
          /\ Handled(w, c)
          /\ calls' = [others EXCEPT ![k] = Idle]
          /\ UNCHANGED <<supply, contested>>
       \/ /\ w.block[p] # Air /\ ChunkOf[to] \in w.loaded
          /\ Handled(WithBlock(w, to, b), c)
          /\ calls' = [others EXCEPT ![k] = Idle]
          /\ supply' = [supply EXCEPT ![to] = @ + 1]
          /\ contested' = IF Others(k, to) THEN contested \cup {to} ELSE contested
       \/ /\ w.block[p] # Air /\ ChunkOf[to] \notin w.loaded
          /\ Handled(w, c)
          /\ calls' = [others EXCEPT ![k] = Placing("placed", p, to, b)]
          /\ UNCHANGED <<supply, contested>>

\* ClickBlock with block b in hand, on the face of p towards q.
Place(k, p, q, b) ==
    /\ Serving /\ calls[k] = Idle /\ edits < MaxEdits
    /\ edits' = edits + 1
    /\ IF ChunkOf[p] \in world.loaded
          THEN FromClicked(k, p, q, b, world, NoChunk, calls)
          ELSE /\ calls' = [calls EXCEPT ![k] = Placing("clicked", p, q, b)]
               /\ UNCHANGED <<world, disk, saves, tick, stop, history>>

\* The file of the clicked chunk was read.
PlaceClicked(k) ==
    /\ calls[k].kind = "place" /\ calls[k].stage = "clicked"
    /\ LET c == ChunkOf[calls[k].pos]
       IN FromClicked(k, calls[k].pos, calls[k].to, calls[k].block, Loaded(world, c), c, Orphaned(c))
    /\ UNCHANGED edits

\* The file of the chunk the block goes to was read.
PlacePlaced(k) ==
    /\ calls[k].kind = "place" /\ calls[k].stage = "placed"
    /\ LET to == calls[k].to
           c == ChunkOf[to]
       IN /\ Handled(WithBlock(Loaded(world, c), to, calls[k].block), c)
          /\ calls' = [Orphaned(c) EXCEPT ![k] = Idle]
          /\ supply' = [supply EXCEPT ![to] = @ + 1]
          /\ contested' = IF Others(k, to) THEN contested \cup {to} ELSE contested
    /\ UNCHANGED edits

\* BreakBlock: the block is read and the packets go out before it is removed.
Break(k, p) ==
    /\ Serving /\ calls[k] = Idle /\ edits < MaxEdits
    /\ edits' = edits + 1
    /\ calls' = [calls EXCEPT ![k] = IF ChunkOf[p] \in world.loaded
                                        THEN Breaking("sent", p, world.block[p], TRUE)
                                        ELSE Breaking("load", p, Air, TRUE)]
    /\ contested' = IF Others(k, p) THEN contested \cup {p} ELSE contested
    /\ UNCHANGED <<world, disk, saves, tick, stop, supply, exposed, past, unsaved, crashes>>

BreakLoaded(k) ==
    /\ calls[k].kind = "break" /\ calls[k].stage = "load"
    /\ LET p == calls[k].pos
           c == ChunkOf[p]
       IN /\ Handled(Loaded(world, c), c)
          /\ calls' = [Orphaned(c) EXCEPT ![k] = Breaking("sent", p, Read(p), TRUE)]
    /\ UNCHANGED <<edits, supply, contested>>

\* The packets are out: a player who is not in creative mode gets the drops,
\* which enter the world when their spawn packets are out.
SpawnDrop(k) ==
    /\ calls[k].kind = "break" /\ calls[k].stage = "sent"
    /\ calls' = [calls EXCEPT ![k].stage = "dropped"]
    /\ supply' = [supply EXCEPT ![calls[k].pos] = @ - Solid(calls[k].block)]
    /\ UNCHANGED <<world, disk, saves, tick, stop, edits, contested, exposed, past, unsaved, crashes>>

\* Seeded fault: the break ends without removing the block.
FinishBreakUnset(k) ==
    /\ calls[k].kind = "break" /\ calls[k].stage \in {"sent", "dropped"}
    /\ calls' = [calls EXCEPT ![k] = Idle]
    /\ Handled(world, NoChunk)
    /\ UNCHANGED <<edits, supply, contested>>

\* The break ends: air is set in the chunk object the call holds.
FinishBreak(k) ==
    /\ calls[k].kind = "break" /\ calls[k].stage \in {"sent", "dropped"}
    /\ calls' = [calls EXCEPT ![k] = Idle]
    /\ Handled(IF calls[k].live THEN WithBlock(world, calls[k].pos, Air) ELSE world, NoChunk)
    /\ UNCHANGED <<edits, supply, contested>>

-----------------------------------------------------------------------------
(* Ticks, saves, stop and crash                                            *)

\* saveChunks: every chunk that has changed is encoded now and written later.
SaveStarts(s) ==
    saves' = [saves EXCEPT ![s] =
        [on |-> TRUE, of |-> [c \in Chunk |-> IF c \in world.changed THEN "queued" ELSE "done"],
         block |-> [p \in Pos |-> IF ChunkOf[p] \in world.changed THEN world.block[p] ELSE Generated[p]]]]

Saving(s) == saves[s].on

\* Seeded fault: the writes are not awaited.
WrittenUnawaited(s) == Saving(s)

\* Promise.all over the writes of a save is done.
Written(s) == Saving(s) /\ \A c \in Chunk : saves[s].of[c] = "done"

\* World.update: the test is for one tick, and the tick waits for its save.
Tick ==
    /\ stop = "no" /\ ~Saving("tick")
    /\ IF tick = SaveAt
          THEN /\ SaveStarts("tick")
               /\ unsaved' = 0
               /\ UNCHANGED tick
          ELSE /\ unsaved < MaxTicks
               /\ tick' = IF tick > SaveAt THEN tick ELSE tick + 1
               /\ unsaved' = unsaved + 1
               /\ UNCHANGED saves
    /\ UNCHANGED <<world, disk, calls, stop, edits, supply, contested, exposed, past, crashes>>

TickSaved ==
    /\ Written("tick")
    /\ saves' = [saves EXCEPT !["tick"] = NoSave]
    /\ tick' = IF tick > SaveAt THEN tick ELSE tick + 1
    /\ UNCHANGED <<world, disk, calls, stop, edits, history>>

\* The time command: setTicks.
SetTicks(t) ==
    /\ Serving /\ tick' = t
    /\ UNCHANGED <<world, disk, calls, saves, stop, edits, history>>

\* One write proceeds: its file is emptied, then filled with what the save took.
OpenFile(s, c) ==
    /\ saves[s].of[c] = "queued"
    /\ saves' = [saves EXCEPT ![s].of[c] = "open"]
    /\ file' = [file EXCEPT ![c] = "torn"]
    /\ kept' = [p \in Pos |-> IF ChunkOf[p] = c THEN Generated[p] ELSE kept[p]]
    /\ UNCHANGED <<world, calls, tick, stop, edits, history>>

FillFile(s, c) ==
    /\ saves[s].of[c] = "open"
    /\ saves' = [saves EXCEPT ![s].of[c] = "done"]
    /\ file' = [file EXCEPT ![c] = "whole"]
    /\ kept' = [p \in Pos |-> IF ChunkOf[p] = c THEN saves[s].block[p] ELSE kept[p]]
    /\ UNCHANGED <<world, calls, tick, stop, edits, history>>

\* Server.kill up to the kicks; kick only sends a packet, handlers go on.
Kill ==
    /\ stop = "no"
    /\ stop' = "kicking"
    /\ UNCHANGED <<world, disk, calls, saves, tick, edits, history>>

\* The kicks are sent: worldManager.save.  A save of the tick that is not over
\* writes the same files.
KillSaves ==
    /\ stop = "kicking"
    /\ stop' = "saving"
    /\ SaveStarts("stop")
    /\ exposed' = exposed \cup {p \in Pos : saves["tick"].of[ChunkOf[p]] # "done"}
    /\ UNCHANGED <<world, disk, calls, tick, edits, supply, contested, past, unsaved, crashes>>

\* The save is over: level.json and the managers are next.
KillSaved ==
    /\ stop = "saving" /\ Written("stop")
    /\ stop' = "closing"
    /\ saves' = [saves EXCEPT !["stop"] = NoSave]
    /\ UNCHANGED <<world, disk, calls, tick, edits, history>>

\* What is left of the server when its process is gone.
Gone ==
    /\ stop' = "off"
    /\ world' = NoWorld
    /\ calls' = [k \in CallIds |-> Idle]
    /\ saves' = [s \in {"tick", "stop"} |-> NoSave]
    /\ tick' = 0 /\ edits' = 0 /\ unsaved' = 0
    /\ contested' = {}
    /\ supply' = [p \in Pos |-> Solid(Read(p))]
    /\ past' = [p \in Pos |-> past[p] \cup {Read(p)}]
    /\ UNCHANGED disk

\* process.exit at the end of kill.
Exit ==
    /\ stop = "closing"
    /\ Gone
    /\ UNCHANGED <<exposed, crashes>>

Crash ==
    /\ Serving /\ crashes < MaxCrashes
    /\ Gone
    /\ crashes' = crashes + 1
    /\ exposed' = {}

\* World.onEnable: the start region is loaded before the server listens.
Start ==
    /\ stop = "off"
    /\ stop' = "no"
    /\ world' = [loaded  |-> Preload,
                 block   |-> [p \in Pos |-> IF ChunkOf[p] \in Preload THEN Read(p) ELSE Air],
                 changed |-> {c \in Preload : file[c] # "whole"}]
    /\ exposed' = {}
    /\ UNCHANGED <<disk, calls, saves, tick, edits, supply, contested, past, unsaved, crashes>>

Next ==
    \/ \E k \in CallIds :
          \/ \E p \in Pos, b \in Placeable : \E q \in Around[p] : Place(k, p, q, b)
          \/ \E p \in Pos : Break(k, p)
          \/ PlaceClicked(k)
          \/ PlacePlaced(k)
          \/ BreakLoaded(k)
          \/ SpawnDrop(k)
          \/ FinishBreak(k)
    \/ Tick \/ TickSaved
    \/ \E t \in Times : SetTicks(t)
    \/ \E s \in {"tick", "stop"}, c \in Chunk : OpenFile(s, c) \/ FillFile(s, c)
    \/ Kill \/ KillSaves \/ KillSaved \/ Exit
    \/ Crash
    \/ Start

Spec == Init /\ [][Next]_vars

-----------------------------------------------------------------------------
(* Properties                                                              *)

\* The promise of a world: a block changes only where somebody edits, across
\* loads, saves, stops and starts; a crash brings back a block the position had.
\* The exceptions are named by `exposed': positions of a chunk that two requests
\* read at once, edits after the save of the stop began, and chunks the save of
\* the tick still writes when the stop saves.
Store == INSTANCE BlockStore WITH block <- Seen
ImplementsBlockStore == Store!Spec

\* A block that comes to stand somewhere is dropped as an item at most once,
\* unless two calls worked on its position at the same time or it was exposed.
OneDropPerBlock ==
    \A p \in Pos \ (contested \cup exposed) : supply[p] >= 0

\* hasChanged covers every difference to the disk: a chunk that is not marked
\* and not being written is as a load would bring it, so a save may skip it.
UnchangedIsOnDisk ==
    \A p \in Pos \ exposed :
        ChunkOf[p] \in world.loaded \ world.changed => world.block[p] = Read(p)

\* World.ts:155: "Auto save every 2 minutes".
SavedEveryTwoMinutes == unsaved <= SaveAt
=============================================================================
