----------------------------- MODULE ChunkFormat -----------------------------
(***************************************************************************)
(* How a chunk is written and read: BlockStorage, SubChunk and Chunk       *)
(* .networkSerialize and .networkDeserialize (packages/prismarine/src/     *)
(* world/chunk), which Filesystem.writeChunk and readChunk store and       *)
(* World.sendChunk sends.                                                  *)
(*                                                                         *)
(* A storage is its palette, a sequence of runtime ids without repetition, *)
(* and for every position the index, from 0, of its block in the palette.  *)
(* A word of 32 bits is the sequence of the states in it.  A sub-chunk is  *)
(* the sequence of its storages, a chunk the sequence of its sub-chunks.   *)
(***************************************************************************)
EXTENDS Integers, Sequences

CONSTANTS Blocks,        (* positions of a sub-chunk: 4096                  *)
          WordBits,      (* bits of a word: 32                              *)
          MAX_SUBCHUNKS  (* 16                                              *)

ASSUME FormatAssumption == {Blocks, WordBits, MAX_SUBCHUNKS} \subseteq Nat \ {0}

\* The most a palette may hold: indexes have 16 bits at most.
MaxPalette == 65536

CeilDiv(a, b) == (a + b - 1) \div b

\* Math.ceil(Math.log2(n)).
CeilLog2(n) == CHOOSE k \in 0 .. 16 : 2 ^ k >= n /\ (k > 0 => 2 ^ (k - 1) < n)

\* Seeded fault: the logarithm is rounded down.
BitsPerBlockFloor(n) ==
    LET k == CHOOSE i \in 0 .. 16 : 2 ^ i <= n /\ n < 2 ^ (i + 1)
    IN  CASE k = 0 -> 1 [] k \in 1 .. 6 -> k [] k \in 7 .. 8 -> 8 [] k > 8 -> 16

BitsPerBlock(n) ==
    LET k == CeilLog2(n)
    IN  CASE k = 0 -> 1 [] k \in 1 .. 6 -> k [] k \in 7 .. 8 -> 8 [] k > 8 -> 16

BlocksPerWord(bits) == WordBits \div bits
WordsPerChunk(bits) == CeilDiv(Blocks, BlocksPerWord(bits))

-----------------------------------------------------------------------------
(* BlockStorage                                                            *)

\* Positions past the last block are undefined, which shifts like zero.
WriteStorage(s) ==
    LET bits == BitsPerBlock(Len(s.palette))
        state(position) == IF position < Blocks THEN s.blocks[position] ELSE 0
        n == BlocksPerWord(bits)
    IN  [bits |-> bits, palette |-> s.palette,
         words |-> [w \in 0 .. WordsPerChunk(bits) - 1 |-> [b \in 0 .. n - 1 |-> state(n * w + b)]]]

\* The reader sets the block of every position of every word, and setBlock
\* wraps a position past the last around to the first ones.
ReadStorage(written) ==
    LET n == BlocksPerWord(written.bits)
        count == n * WordsPerChunk(written.bits)
        at(position) == written.words[position \div n][position % n] % 2 ^ written.bits
    IN  [palette |-> written.palette,
         blocks |-> [i \in 0 .. Blocks - 1 |-> IF i + Blocks < count THEN at(i + Blocks) ELSE at(i)]]

\* How many positions wrap.
Wrapped(s) == LET bits == BitsPerBlock(Len(s.palette)) IN BlocksPerWord(bits) * WordsPerChunk(bits) - Blocks

-----------------------------------------------------------------------------
(* SubChunk and Chunk                                                      *)

WriteSubChunk(layers) == [layerCount |-> Len(layers), layers |-> [i \in DOMAIN layers |-> WriteStorage(layers[i])]]
ReadSubChunk(written) == [i \in 1 .. written.layerCount |-> ReadStorage(written.layers[i])]

IsEmpty(layers) == layers = <<>>

\* getTopEmpty: the index of the last of the empty sub-chunks at the bottom,
\* or every one when the lowest is not empty.
TopEmpty(chunk) ==
    IF ~IsEmpty(chunk[1]) THEN MAX_SUBCHUNKS
    ELSE CHOOSE i \in 0 .. MAX_SUBCHUNKS - 1 :
            /\ \A j \in 0 .. i : IsEmpty(chunk[j + 1])
            /\ i + 1 < MAX_SUBCHUNKS => ~IsEmpty(chunk[i + 2])

\* networkSerialize; the biomes after the sub-chunks are constant.
WriteChunk(chunk, forceAll) ==
    [i \in 1 .. (IF forceAll THEN MAX_SUBCHUNKS ELSE TopEmpty(chunk)) |-> WriteSubChunk(chunk[i])]

ReadChunk(written) == [i \in 1 .. MAX_SUBCHUNKS |-> ReadSubChunk(written[i])]

=============================================================================
