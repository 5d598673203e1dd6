------------------------------ MODULE Chunking ------------------------------
(***************************************************************************)
(* How the client library (clientlib.c) makes chunks: create_file and      *)
(* divide_file_into_chunks cut a file, create_chunks reads typed lines.    *)
(* Data is abstract: a byte is its position in the file, a typed character *)
(* its position in the input, and a chunk is the stretch it holds.         *)
(***************************************************************************)
EXTENDS Integers, Sequences

CONSTANTS
  CHUNK_SIZE,   \* bytes of a chunk (30 in the source)
  IntRange,     \* how many values an int has (2^32)
  Sizes,        \* sizes of the files to store
  LineLengths,  \* lengths of the lines the user types, newline included
  Calls,        \* numbers of chunks create_chunks is asked for
  Offsets       \* values of *chunk_id_offset when it is called

ASSUME ChunkingAssumption ==
  /\ CHUNK_SIZE \in Nat \ {0, 1}
  /\ IntRange \in Nat \ {0, 1}
  /\ Sizes \subseteq Nat
  /\ LineLengths \subseteq Nat \ {0}
  /\ Calls \subseteq Nat
  /\ Offsets \subseteq Int

VARIABLES
  stage,          \* what the client is doing, see Stages
  size,           \* bytes the file really has
  file_size,      \* what create_file takes its size to be
  remaining_size,
  position,       \* of the file, or of the typed input
  slots,          \* entries of chunk_table that malloc made room for
  chunk_table,    \* the entries set so far
  offset,         \* *chunk_id_offset
  leftover,       \* typed characters of the current line not yet read
  lines           \* history: where each typed line is in the input

vars == <<stage, size, file_size, remaining_size, position, slots, chunk_table,
          offset, leftover, lines>>

Stages == {"ready", "dividing", "divided", "typing", "typed", "dead"}

Chunk == [id : Int, first : Nat, len : Int]

Line == [first : Nat, len : Nat \ {0}]

TypeOK ==
  /\ stage \in Stages
  /\ size \in Nat
  /\ file_size \in Int
  /\ remaining_size \in Int
  /\ position \in Nat
  /\ slots \in Int
  /\ chunk_table \in Seq(Chunk)
  /\ offset \in Int
  /\ leftover \in Nat
  /\ lines \in Seq(Line)

-----------------------------------------------------------------------------
(* Helpers                                                                 *)

(* A long as an int: the conversion keeps the low bits.                    *)
ToInt(n) == ((n + (IntRange \div 2)) % IntRange) - (IntRange \div 2)

(* C division of an int by CHUNK_SIZE rounds towards zero.                 *)
Quotient(n) == IF n >= 0 THEN n \div CHUNK_SIZE ELSE -((-n) \div CHUNK_SIZE)

AtMost(n, m) == IF n <= m THEN n ELSE m

(* Mutants of chunk_size: the last chunk is as long as the others ...      *)
chunk_size_full == CHUNK_SIZE

(* ... or every chunk one byte short.                                      *)
chunk_size_short == AtMost(remaining_size, CHUNK_SIZE - 1)

(* The size of the next chunk of the file.                                 *)
chunk_size == AtMost(remaining_size, CHUNK_SIZE)

AddChunk(id, len) ==
  chunk_table' = Append(chunk_table, [id |-> id, first |-> position, len |-> len])

Die == /\ stage' = "dead"
       /\ UNCHANGED <<size, file_size, remaining_size, position, slots, chunk_table,
                      offset, leftover, lines>>

-----------------------------------------------------------------------------
(* create_file and divide_file_into_chunks                                 *)

Init ==
  /\ stage = "ready"
  /\ size = 0 /\ file_size = 0 /\ remaining_size = 0 /\ position = 0
  /\ slots = 0 /\ chunk_table = << >>
  /\ offset \in Offsets
  /\ leftover = 0 /\ lines = << >>

(* Mutant: no room for the rest that is less than a chunk.                 *)
CreateFileNoRest ==
  /\ stage = "ready"
  /\ size' \in Sizes
  /\ file_size' = ToInt(size' - 1)
  /\ remaining_size' = file_size'
  /\ slots' = Quotient(file_size')
  /\ stage' = "dividing"
  /\ UNCHANGED <<position, chunk_table, offset, leftover, lines>>

(* The size is one less than ftell says, in an int.                        *)
CreateFile ==
  /\ stage = "ready"
  /\ size' \in Sizes
  /\ file_size' = ToInt(size' - 1)
  /\ remaining_size' = file_size'
  /\ slots' = Quotient(file_size') + 1
  /\ stage' = "dividing"
  /\ UNCHANGED <<position, chunk_table, offset, leftover, lines>>

(* One turn of the loop; fread of a whole chunk succeeds.                  *)
DivideChunk ==
  /\ stage = "dividing"
  /\ remaining_size > 0
  /\ position + chunk_size <= size
  /\ AddChunk(Len(chunk_table), chunk_size)
  /\ position' = position + chunk_size
  /\ remaining_size' = remaining_size - chunk_size
  /\ UNCHANGED <<stage, size, file_size, slots, offset, leftover, lines>>

(* fread fails: there is less in the file, or the disk fails.  The NULL    *)
(* returned is dereferenced by create_file.                                *)
FailRead ==
  /\ stage = "dividing"
  /\ remaining_size > 0
  /\ Die

EndDivide ==
  /\ stage = "dividing"
  /\ remaining_size <= 0
  /\ stage' = "divided"
  /\ UNCHANGED <<size, file_size, remaining_size, position, slots, chunk_table,
                 offset, leftover, lines>>

-----------------------------------------------------------------------------
(* create_chunks                                                           *)

CreateChunks ==
  /\ stage = "ready"
  /\ slots' \in Calls
  /\ stage' = "typing"
  /\ UNCHANGED <<size, file_size, remaining_size, position, chunk_table,
                 offset, leftover, lines>>

(* Mutants of TakeLine: a line is always taken for a full one ...          *)
TakeLineFull(n) ==
  /\ AddChunk(offset, CHUNK_SIZE - 2)
  /\ offset' = offset + 1
  /\ position' = position + CHUNK_SIZE - 1
  /\ leftover' = n - (CHUNK_SIZE - 1)
  /\ UNCHANGED <<stage, size, file_size, remaining_size, slots>>

(* ... or keeps its newline.                                               *)
TakeLineNewline(n) ==
  LET taken == AtMost(n, CHUNK_SIZE - 1)
  IN /\ AddChunk(offset, taken)
     /\ offset' = offset + 1
     /\ position' = position + taken
     /\ leftover' = n - taken
     /\ UNCHANGED <<stage, size, file_size, remaining_size, slots>>

(* fgets reads at most CHUNK_SIZE - 1 characters of a line of n, and the   *)
(* last character it read is dropped, newline or not.                      *)
TakeLine(n) ==
  LET taken == AtMost(n, CHUNK_SIZE - 1)
  IN /\ AddChunk(offset, taken - 1)
     /\ offset' = offset + 1
     /\ position' = position + taken
     /\ leftover' = n - taken
     /\ UNCHANGED <<stage, size, file_size, remaining_size, slots>>

(* fgets waits for a line ...                                              *)
TypeLine ==
  /\ stage = "typing"
  /\ Len(chunk_table) < slots
  /\ leftover = 0
  /\ \E n \in LineLengths :
       /\ TakeLine(n)
       /\ lines' = Append(lines, [first |-> position, len |-> n])

(* ... or goes on with what it left of the last one.                       *)
TakeRest ==
  /\ stage = "typing"
  /\ Len(chunk_table) < slots
  /\ leftover > 0
  /\ TakeLine(leftover)
  /\ UNCHANGED lines

(* At the end of the input str stays empty and strlen(str) - 1 wraps.      *)
EndOfInput ==
  /\ stage = "typing"
  /\ Len(chunk_table) < slots
  /\ leftover = 0
  /\ Die

EndTyping ==
  /\ stage = "typing"
  /\ Len(chunk_table) >= slots
  /\ stage' = "typed"
  /\ UNCHANGED <<size, file_size, remaining_size, position, slots, chunk_table,
                 offset, leftover, lines>>

-----------------------------------------------------------------------------

Next ==
  \/ CreateFile \/ DivideChunk \/ FailRead \/ EndDivide
  \/ CreateChunks \/ TypeLine \/ TakeRest \/ EndOfInput \/ EndTyping

Spec == Init /\ [][Next]_vars

-----------------------------------------------------------------------------
(* Properties                                                              *)

(* A chunk is stored inside the array: NUM_CHUNKS, computed by a division  *)
(* before the loop, is enough for the chunks the loop counts out by        *)
(* subtraction, whatever the size.                                         *)
InsideTable ==
  stage = "dividing" /\ remaining_size > 0 => Len(chunk_table) < slots

(* fread is never asked for more than the file has, so a file that does    *)
(* not change while it is read is never refused, a size that does not fit  *)
(* an int included.                                                        *)
ReadsInsideFile ==
  stage = "dividing" /\ remaining_size > 0 => position + chunk_size <= size

(* The chunks are numbered from 0 and follow each other without a gap; all *)
(* but the last are full and none is empty.                                *)
Tiled ==
  \A k \in 1 .. Len(chunk_table) :
    /\ chunk_table[k].id = k - 1
    /\ chunk_table[k].len \in 1 .. CHUNK_SIZE
    /\ k = 1 => chunk_table[k].first = 0
    /\ k > 1 => /\ chunk_table[k - 1].len = CHUNK_SIZE
                /\ chunk_table[k].first = chunk_table[k - 1].first + CHUNK_SIZE

(* When divide_file_into_chunks returns, the chunks cover a file whose     *)
(* size fits an int up to its last byte, which create_file leaves out; a   *)
(* file of one byte or none has no chunk.                                  *)
CutBeforeLastByte ==
  stage = "divided" /\ size < IntRange \div 2 =>
    /\ Tiled
    /\ IF size <= 1
       THEN chunk_table = << >>
       ELSE /\ chunk_table # << >>
            /\ LET last == chunk_table[Len(chunk_table)]
               IN last.first + last.len = size - 1

(* A line that fgets can read at once is one chunk, without its newline,   *)
(* and the chunks of a call are numbered on from the offset it was given,  *)
(* whatever lines were typed in between.                                   *)
LinesAreChunks ==
  stage \in {"typing", "typed"} =>
    /\ \A j \in 1 .. Len(lines) : lines[j].len < CHUNK_SIZE =>
         \E k \in 1 .. Len(chunk_table) :
           /\ chunk_table[k].first = lines[j].first
           /\ chunk_table[k].len = lines[j].len - 1
    /\ \A k \in 1 .. Len(chunk_table) :
         chunk_table[k].id = offset - Len(chunk_table) + k - 1

(* Every byte of a file is in one of its chunks.                           *)
EveryByteStored ==
  stage = "divided" =>
    \A b \in 0 .. size - 1 :
      \E k \in 1 .. Len(chunk_table) :
        b \in chunk_table[k].first .. chunk_table[k].first + chunk_table[k].len - 1

=============================================================================
