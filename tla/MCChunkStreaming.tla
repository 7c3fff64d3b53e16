--------------------------- MODULE MCChunkStreaming ---------------------------
(* Small instances of ChunkStreaming: three chunks in a row.               *)
EXTENDS ChunkStreaming

MCCells == (0 .. 2) \X {0}
MCOrigin == <<0, 0>>
MCBlanked == {<<0, 0>>, <<1, 0>>}
=============================================================================
