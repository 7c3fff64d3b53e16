---------------------------- MODULE ChunkStreaming ----------------------------
(***************************************************************************)
(* How one player is sent the chunks around it: the queue and the two sets *)
(* of PlayerConnection.ts, the walk of needNewChunks in every tick, the    *)
(* walk of Player.setWorld that may run beside it, and the handlers that   *)
(* move the player and set its view distance (packages/prismarine/src/     *)
(* player/PlayerConnection.ts, player/Player.ts, network/handler).         *)
(*                                                                         *)
(* A send waits for the socket and a request for the disk; the ticks of    *)
(* one player do not overlap, since emit waits for the listeners.  A chunk *)
(* is a world and a cell; its object stays the same while it is loaded.    *)
(* The 36 empty chunks of setWorld are one step, and one change of world   *)
(* runs at a time.                                                         *)
(***************************************************************************)
EXTENDS Integers, Sequences, SequencesExt, FiniteSets

CONSTANTS Cells,        (* chunk coordinates, pairs of integers              *)
          Worlds,       (* worlds                                            *)
          Origin,       (* the cell of block 0, 0                            *)
          Blanked,      (* the cells setWorld sends empty chunks for         *)
          Radii,        (* the view distances clients ask for                *)
          MaxDistance,  (* the view distance of the configuration            *)
          MaxMoves      (* bound on moves, new distances and changes         *)

ASSUME StreamingAssumption ==
    /\ Cells \subseteq Int \X Int
    /\ Origin \in Cells /\ Blanked \subseteq Cells
    /\ Radii \subseteq Nat /\ MaxDistance \in Nat
    /\ MaxMoves \in Nat

VARIABLES
    place,      (* the cell the player stands in                             *)
    world,      (* the world it is in                                        *)
    radius,     (* viewDistance, Undefined until the client asks             *)
    queue,      (* chunkSendQueue, in order of insertion                     *)
    loaded,     (* loadedChunks                                              *)
    loading,    (* loadingChunks                                             *)
    ticking,    (* the tick: "idle", "queue" or "walk"                       *)
    sending,    (* the chunk sendChunk waits with, or NoChunk                *)
    walks,      (* the needNewChunks of the tick and of setWorld             *)
    change,     (* setWorld: "no", "blank", "clear", "walk" or "enable"      *)
    client,     (* history: what the client was last sent for each cell      *)
    late,       (* history: cells of which a chunk was asked for, queued or  *)
                (* being sent when the sets were cleared                     *)
    moves       (* history: how often the player did something               *)

sets == <<queue, loaded, loading>>
vars == <<place, world, radius, sets, ticking, sending, walks, change, client, late, moves>>

Undefined == -1
NoChunk == <<>>
ChunkAt(w, c) == <<w, c>>
CellOf(chunk) == chunk[2]
Chunks == Worlds \X Cells

\* A walk: the cells it has still to ask for, the place and distance it read
\* when it began, and the chunk it waits for.
NoWalk == [on |-> FALSE, left |-> {}, center |-> Origin, radius |-> Undefined, asked |-> NoChunk]

Distances == Radii \cup {MaxDistance, Undefined}
Walks == [on : BOOLEAN, left : SUBSET Cells, center : Cells, radius : Distances,
          asked : Chunks \cup {NoChunk}]

TypeOK ==
    /\ place \in Cells /\ world \in Worlds
    /\ radius \in Distances
    /\ queue \in Seq(Chunks)
    /\ loaded \subseteq Cells /\ loading \subseteq Cells
    /\ ticking \in {"idle", "queue", "walk"}
    /\ sending \in Chunks \cup {NoChunk}
    /\ walks \in [{"tick", "change"} -> Walks]
    /\ change \in {"no", "blank", "clear", "walk", "enable"}
    /\ client \in [Cells -> Worlds \cup {"nothing", "blank"}]
    /\ late \subseteq Cells
    /\ moves \in 0 .. MaxMoves

Init ==
    /\ place = Origin /\ world \in Worlds
    /\ radius = Undefined
    /\ queue = <<>> /\ loaded = {} /\ loading = {}
    /\ ticking = "idle"
    /\ sending = NoChunk
    /\ walks = [w \in {"tick", "change"} |-> NoWalk]
    /\ change = "no"
    /\ client = [c \in Cells |-> "nothing"]
    /\ late = {}
    /\ moves = 0

-----------------------------------------------------------------------------
(* Distances                                                               *)

Gap(i, j) == IF i > j THEN i - j ELSE j - i
Square(i) == i * i

\* Math.round(Math.sqrt(dx * dx + dz * dz)) <= r, in integers
InView(p, r) ==
    {c \in Cells : r # Undefined /\
        4 * (Square(c[1] - p[1]) + Square(c[2] - p[2])) < Square(2 * r + 1)}

\* What the walk forgets is outside a square, not outside the circle.
Far(p, r) == {c \in Cells : r # Undefined /\ (Gap(c[1], p[1]) > r \/ Gap(c[2], p[2]) > r)}

Steps(p, c) == Gap(c[1], p[1]) + Gap(c[2], p[2])

-----------------------------------------------------------------------------
(* The queue                                                               *)

\* Set.delete: a chunk is in the queue once at most.
Without(q, chunk) ==
    IF Contains(q, chunk) THEN RemoveAt(q, CHOOSE i \in 1 .. Len(q) : q[i] = chunk) ELSE q

\* Set.add: a chunk that is in the queue keeps its place.
With(q, chunk) == IF Contains(q, chunk) THEN q ELSE Append(q, chunk)

TickStarts ==
    /\ ticking = "idle"
    /\ ticking' = "queue"
    /\ UNCHANGED <<place, world, radius, sets, sending, walks, change, client, late, moves>>

\* PlayerConnection.update: a chunk that is no longer loading leaves the queue
\* at once, and is sent all the same.
SendNext ==
    /\ ticking = "queue" /\ sending = NoChunk /\ queue # <<>>
    /\ LET chunk == Head(queue)
       IN /\ sending' = chunk
          /\ queue' = IF CellOf(chunk) \in loading THEN queue ELSE Tail(queue)
          /\ client' = [client EXCEPT ![CellOf(chunk)] = chunk[1]]
    /\ UNCHANGED <<place, world, radius, loaded, loading, ticking, walks, change, late, moves>>

\* Seeded fault: a chunk that was sent stays in loadingChunks.
SentStaysLoading(cell) == loading

\* sendChunk after its await: the cell moves from loading to loaded.
Sent(cell) == loading \ {cell}

ChunkSent ==
    /\ sending # NoChunk
    /\ sending' = NoChunk
    /\ loaded' = loaded \cup {CellOf(sending)}
    /\ loading' = Sent(CellOf(sending))
    /\ queue' = Without(queue, sending)
    /\ UNCHANGED <<place, world, radius, ticking, walks, change, client, late, moves>>

-----------------------------------------------------------------------------
(* needNewChunks                                                           *)

\* What a walk will ask for: the cells in view that are in neither set.
Walk(known) ==
    [on |-> TRUE, left |-> InView(place, radius) \ known, center |-> place,
     radius |-> radius, asked |-> NoChunk]

\* The queue is empty: the tick walks.
TickWalks ==
    /\ ticking = "queue" /\ sending = NoChunk /\ queue = <<>>
    /\ ticking' = "walk"
    /\ walks' = [walks EXCEPT !["tick"] = Walk(loaded \cup loading)]
    /\ UNCHANGED <<place, world, radius, sets, sending, change, client, late, moves>>

\* Closer chunks are asked for before, each in the world the player is in then.
Ask(w) ==
    /\ walks[w].on /\ walks[w].asked = NoChunk
    /\ \E c \in walks[w].left :
          /\ \A d \in walks[w].left : Steps(walks[w].center, c) <= Steps(walks[w].center, d)
          /\ loading' = loading \cup {c}
          /\ walks' = [walks EXCEPT ![w].asked = ChunkAt(world, c), ![w].left = @ \ {c}]
    /\ UNCHANGED <<place, world, radius, queue, loaded, ticking, sending, change, client, late, moves>>

\* requestChunk after its await
Arrive(w) ==
    /\ walks[w].asked # NoChunk
    /\ queue' = With(queue, walks[w].asked)
    /\ walks' = [walks EXCEPT ![w].asked = NoChunk]
    /\ UNCHANGED <<place, world, radius, loaded, loading, ticking, sending, change, client, late, moves>>

\* Seeded fault: the cells that are near leave the sets, not those that are far.
KeptFar(known, walk) == known \cap Far(walk.center, walk.radius)

\* What a walk leaves of a set: the cells near the place it began at.
Kept(known, walk) == known \ Far(walk.center, walk.radius)

EndWalk(w) ==
    /\ walks[w].on /\ walks[w].left = {} /\ walks[w].asked = NoChunk
    /\ loaded' = Kept(loaded, walks[w])
    /\ loading' = Kept(loading, walks[w])
    /\ walks' = [walks EXCEPT ![w] = NoWalk]
    /\ ticking' = IF w = "tick" THEN "idle" ELSE ticking
    /\ change' = IF w = "change" THEN "enable" ELSE change
    /\ UNCHANGED <<place, world, radius, queue, sending, client, late, moves>>

-----------------------------------------------------------------------------
(* What the player does                                                    *)

\* MovePlayerHandler
Move(c) ==
    /\ moves < MaxMoves /\ moves' = moves + 1
    /\ place' = c
    /\ UNCHANGED <<world, radius, sets, ticking, sending, walks, change, client, late>>

\* RequestChunkRadiusHandler
RequestChunkRadius(r) ==
    /\ moves < MaxMoves /\ moves' = moves + 1
    /\ radius' = IF r >= MaxDistance THEN MaxDistance ELSE r
    /\ UNCHANGED <<place, world, sets, ticking, sending, walks, change, client, late>>

\* Player.setWorld: the player is in the new world and at its origin before
\* anything it was sent is forgotten.
SetWorld(w) ==
    /\ change = "no" /\ moves < MaxMoves /\ moves' = moves + 1
    /\ world' = w
    /\ place' = Origin
    /\ change' = "blank"
    /\ UNCHANGED <<radius, sets, ticking, sending, walks, client, late>>

SendBlanks ==
    /\ change = "blank"
    /\ change' = "clear"
    /\ client' = [c \in Cells |-> IF c \in Blanked THEN "blank" ELSE client[c]]
    /\ UNCHANGED <<place, world, radius, sets, ticking, sending, walks, late, moves>>

\* Seeded fault: loadedChunks is not cleared.
ClearedLoading == loaded

\* clearChunks, for loadedChunks; the queue is not cleared.
Cleared == {}

\* clearChunks and the start of needNewChunks, with nothing between them.
ClearChunks ==
    /\ change = "clear"
    /\ change' = "walk"
    /\ loaded' = Cleared
    /\ loading' = {}
    /\ walks' = [walks EXCEPT !["change"] = Walk(loaded')]
    /\ late' = late
          \cup {c \in Cells : \E w \in Worlds : ChunkAt(w, c) \in {sending, walks["tick"].asked}}
          \cup {CellOf(queue[i]) : i \in DOMAIN queue}
    /\ UNCHANGED <<place, world, radius, queue, ticking, sending, client, moves>>

\* Player.onEnable: the place saved for the player in the new world.
EnableInWorld ==
    /\ change = "enable"
    /\ change' = "no"
    /\ place' \in Cells
    /\ UNCHANGED <<world, radius, sets, ticking, sending, walks, client, late, moves>>

Server ==
    \/ TickStarts \/ SendNext \/ ChunkSent \/ TickWalks
    \/ \E w \in {"tick", "change"} : Ask(w) \/ Arrive(w) \/ EndWalk(w)
    \/ SendBlanks \/ ClearChunks \/ EnableInWorld

Client ==
    \/ \E c \in Cells : Move(c)
    \/ \E r \in Radii : RequestChunkRadius(r)
    \/ \E w \in Worlds : SetWorld(w)

Next == Server \/ Client

Spec == Init /\ [][Next]_vars

\* Ticks go on, sends and requests end.  Nothing is assumed of the client.
FairSpec ==
    /\ Spec
    /\ WF_vars(TickStarts \/ SendNext \/ TickWalks)
    /\ WF_vars(ChunkSent)
    /\ \A w \in {"tick", "change"} : WF_vars(Ask(w) \/ Arrive(w) \/ EndWalk(w))
    /\ WF_vars(SendBlanks \/ ClearChunks \/ EnableInWorld)

-----------------------------------------------------------------------------
(* Properties                                                              *)

\* needNewChunks asks for nothing that is in loadingChunks, so a cell there must
\* be on its way, or nobody ever sends it: it is asked for, queued or being sent.
LoadingIsOnItsWay ==
    \A c \in loading :
        \/ \E w \in {"tick", "change"} : walks[w].asked # NoChunk /\ CellOf(walks[w].asked) = c
        \/ \E i \in DOMAIN queue : CellOf(queue[i]) = c
        \/ sending # NoChunk /\ CellOf(sending) = c

\* A player that stands still is in the end sent every chunk in its view, those
\* of the world it is in, except for cells of which a chunk of before was on its
\* way when setWorld cleared the sets but not the queue (`late').
SeesItsWorld ==
    \A c \in InView(place, radius) : c \in loaded /\ (client[c] = world \/ c \in late)
StandingPlayerSeesItsWorld == <>[]SeesItsWorld

\* The sets do not grow with the way the player went: in the end they hold
\* nothing outside its square.
FarChunksAreForgotten == <>[]((loaded \cup loading) \cap Far(place, radius) = {})
=============================================================================
