--------------------------- MODULE MCChunkStream ---------------------------
(* The bounds of ChunkStream are all in the cfg.                           *)
EXTENDS ChunkStream
=============================================================================
