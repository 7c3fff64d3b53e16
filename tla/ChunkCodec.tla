------------------------------ MODULE ChunkCodec ------------------------------
(***************************************************************************)
(* A chunk is serialized and stored, or sent to a client, and read back    *)
(* (Filesystem.writeChunk and readChunk, packages/prismarine/src/world/    *)
(* providers/filesystem).  The format itself is ChunkFormat.               *)
(***************************************************************************)
EXTENDS ChunkFormat

CONSTANT Chunks  (* the chunks that are written: [chunk, forceAll]              *)

\* What setBlock keeps of a storage: a palette without repetition and an index
\* into it for every position.
Storages ==
    {s \in [palette : Seq(Nat), blocks : [0 .. Blocks - 1 -> Nat]] :
        /\ Len(s.palette) \in 1 .. MaxPalette
        /\ \A i, j \in DOMAIN s.palette : s.palette[i] = s.palette[j] => i = j
        /\ \A i \in DOMAIN s.blocks : s.blocks[i] < Len(s.palette)}

ASSUME ChunkAssumption ==
    /\ WordBits >= 16
    /\ Chunks \subseteq [chunk : [1 .. MAX_SUBCHUNKS -> Seq(Storages)], forceAll : BOOLEAN]

VARIABLES
    stored,      (* the chunk and whether all its sub-chunks are written     *)
    serialized,  (* what came of writing it                                  *)
    reread       (* what came of reading that                                *)

chunkVars == <<stored, serialized, reread>>

\* serialized and reread hold nothing, or a tuple of one.
ChunkInit ==
    /\ stored \in Chunks
    /\ serialized = <<>>
    /\ reread = <<>>

SerializeChunk ==
    /\ serialized = <<>>
    /\ serialized' = <<WriteChunk(stored.chunk, stored.forceAll)>>
    /\ UNCHANGED <<stored, reread>>

\* A chunk that was cut short cannot be deserialized.
DeserializeChunk ==
    /\ serialized # <<>>
    /\ reread = <<>>
    /\ reread' = <<IF Len(serialized[1]) = MAX_SUBCHUNKS THEN ReadChunk(serialized[1]) ELSE <<>>>>
    /\ UNCHANGED <<stored, serialized>>

ChunkNext == SerializeChunk \/ DeserializeChunk

ChunkSpec == ChunkInit /\ [][ChunkNext]_chunkVars

-----------------------------------------------------------------------------
(* Properties.                                                             *)

\* A storage as it comes back: the first positions, to which those past the
\* last block wrap, hold the first block of the palette.
Reread(s) == [s EXCEPT !.blocks = [i \in DOMAIN @ |-> IF i < Wrapped(s) THEN 0 ELSE @[i]]]

\* A chunk that is written with all its sub-chunks, to a file or because its
\* lowest one is not empty, is read back, but for the first positions of a
\* storage whose words have more room than blocks.
ChunksAreRead ==
    reread # <<>> /\ (stored.forceAll \/ ~IsEmpty(stored.chunk[1])) =>
        reread[1] = [y \in DOMAIN stored.chunk |->
                        [l \in DOMAIN stored.chunk[y] |-> Reread(stored.chunk[y][l])]]

=============================================================================
