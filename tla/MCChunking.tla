----------------------------- MODULE MCChunking -----------------------------
(* Bounds under which TLC checks Chunking: chunks of three bytes and an    *)
(* int of 32 values, so that sizes reach past the largest int and past the *)
(* number of ints; lines shorter, as long as, and longer than fgets reads. *)
EXTENDS Chunking

FileSizes == 0 .. 40
SmallSizes == 0 .. 7
Lengths == 1 .. 5
NumbersOfChunks == 0 .. 3
FirstIds == {0, 1}
=============================================================================
