--------------------------- MODULE ChunkingProofs ---------------------------
(* Theorems about Chunking: for every chunk size, width of an int, file    *)
(* size and typed input.                                                   *)
EXTENDS Chunking, TLAPS

(* Dividing by the chunk size rounds down: fewer than one more chunk fits. *)
LEMMA QuotientBound ==
  ASSUME NEW n \in Nat, NEW k \in Nat, k * CHUNK_SIZE < n
  PROVE  k < Quotient(n) + 1
<1> DEFINE q == n \div CHUNK_SIZE
<1>1. CHUNK_SIZE \in Nat /\ CHUNK_SIZE > 0
  BY ChunkingAssumption
<1>2. q \in Nat /\ n < (q + 1) * CHUNK_SIZE
  BY <1>1
<1>3. Quotient(n) = q
  BY DEF Quotient
<1>4. ~ (k >= q + 1)
  <2>1. SUFFICES ASSUME k >= q + 1 PROVE FALSE
    OBVIOUS
  <2>2. k * CHUNK_SIZE >= (q + 1) * CHUNK_SIZE
    BY <1>1, <1>2, <2>1
  <2> QED
    BY <1>1, <1>2, <2>2
<1> QED
  BY <1>2, <1>3, <1>4

(* The width of an int only ever makes the size of a file smaller, and     *)
(* leaves alone a size that fits.                                          *)
LEMMA ToIntBound ==
  ASSUME NEW n \in Nat
  PROVE  /\ ToInt(n - 1) \in Int
         /\ ToInt(n - 1) <= n - 1
         /\ n < IntRange \div 2 => ToInt(n - 1) = n - 1
<1> DEFINE h == IntRange \div 2
           m == n - 1 + h
<1>1. IntRange \in Nat /\ IntRange > 1
  BY ChunkingAssumption
<1>2. h \in Nat /\ h >= 1 /\ 2 * h <= IntRange
  BY <1>1
<1>3. m \in Nat
  BY <1>2
<1>4. m % IntRange \in Nat /\ m % IntRange <= m
  BY <1>1, <1>3
<1>5. m < IntRange => m % IntRange = m
  BY <1>1, <1>3
<1>6. ToInt(n - 1) = (m % IntRange) - h
  BY DEF ToInt
<1>7. n < h => m < IntRange
  BY <1>2, <1>1
<1> HIDE DEF h, m
<1>8. m - h = n - 1
  BY <1>2 DEF m
<1> QED
  BY <1>2, <1>3, <1>4, <1>5, <1>6, <1>7, <1>8 DEF h

LEMMA QuotientType ==
  ASSUME NEW n \in Int PROVE Quotient(n) \in Int
BY ChunkingAssumption DEF Quotient

-----------------------------------------------------------------------------
(* Type correctness                                                        *)

THEOREM ChunkingTypeCorrect == Spec => []TypeOK
<1>1. Init => TypeOK
  BY ChunkingAssumption DEF Init, TypeOK, Stages
<1>2. TypeOK /\ [Next]_vars => TypeOK'
  <2> SUFFICES ASSUME TypeOK, [Next]_vars PROVE TypeOK'
    OBVIOUS
  <2>1. CASE CreateFile
    <3>1. ToInt(size' - 1) \in Int
      BY <2>1, ToIntBound, ChunkingAssumption DEF CreateFile
    <3>2. size' \in Nat /\ file_size' \in Int /\ remaining_size' \in Int
      BY <2>1, <3>1, ChunkingAssumption DEF CreateFile
    <3>3. slots' \in Int
      BY <2>1, <3>2, QuotientType DEF CreateFile
    <3> QED
      BY <2>1, <3>2, <3>3 DEF CreateFile, TypeOK, Stages
  <2>2. CASE DivideChunk
    <3>1. chunk_size \in Nat
      BY <2>2, ChunkingAssumption DEF DivideChunk, chunk_size, AtMost, TypeOK
    <3>2. [id |-> Len(chunk_table), first |-> position, len |-> chunk_size] \in Chunk
      BY <3>1 DEF Chunk, TypeOK
    <3>3. chunk_table' \in Seq(Chunk)
      BY <2>2, <3>2 DEF DivideChunk, AddChunk, TypeOK
    <3> QED
      BY <2>2, <3>1, <3>3 DEF DivideChunk, TypeOK
  <2>3. CASE TypeLine \/ TakeRest
    <3>1. PICK n \in Nat \ {0} : TakeLine(n)
      <4>1. CASE TypeLine
        BY <4>1, ChunkingAssumption DEF TypeLine
      <4>2. CASE TakeRest
        BY <4>2 DEF TakeRest, TypeOK
      <4> QED
        BY <2>3, <4>1, <4>2
    <3> DEFINE taken == AtMost(n, CHUNK_SIZE - 1)
    <3>2. taken \in Nat /\ n - taken \in Nat
      BY ChunkingAssumption DEF AtMost
    <3>3. [id |-> offset, first |-> position, len |-> taken - 1] \in Chunk
      BY <3>2 DEF Chunk, TypeOK
    <3>4. chunk_table' \in Seq(Chunk)
      BY <3>1, <3>3 DEF TakeLine, AddChunk, TypeOK
    <3>5. lines' \in Seq(Line)
      <4>1. CASE TypeLine
        <5>1. PICK m \in LineLengths : lines' = Append(lines, [first |-> position, len |-> m])
          BY <4>1 DEF TypeLine
        <5>2. [first |-> position, len |-> m] \in Line
          BY ChunkingAssumption DEF TypeOK, Line
        <5> QED
          BY <5>1, <5>2 DEF TypeOK
      <4>2. CASE TakeRest
        BY <4>2 DEF TakeRest, TypeOK
      <4> QED
        BY <2>3, <4>1, <4>2
    <3> QED
      BY <2>3, <3>1, <3>2, <3>4, <3>5 DEF TakeLine, TypeLine, TakeRest, TypeOK
  <2>4. CASE FailRead \/ EndDivide \/ EndOfInput \/ EndTyping
    BY <2>4 DEF FailRead, EndDivide, EndOfInput, EndTyping, Die, TypeOK, Stages
  <2>5. CASE CreateChunks
    BY <2>5, ChunkingAssumption DEF CreateChunks, TypeOK, Stages
  <2>6. CASE UNCHANGED vars
    BY <2>6 DEF vars, TypeOK
  <2> QED
    BY <2>1, <2>2, <2>3, <2>4, <2>5, <2>6 DEF Next
<1> QED
  BY <1>1, <1>2, PTL DEF Spec

-----------------------------------------------------------------------------
(* The division of a file                                                  *)

(* The loop of divide_file_into_chunks: what has been cut and what remains *)
(* make up the file, and while something remains every chunk is full, so   *)
(* that the number of chunks tells how far the loop is.                    *)
Cutting ==
  stage \in {"dividing", "divided"} =>
    /\ slots = Quotient(file_size) + 1
    /\ file_size = ToInt(size - 1)
    /\ position + remaining_size = file_size
    /\ Tiled
    /\ chunk_table = << >> => position = 0
    /\ chunk_table # << >> =>
         LET last == chunk_table[Len(chunk_table)]
         IN /\ last.first + last.len = position
            /\ remaining_size >= 0
            /\ remaining_size > 0 => last.len = CHUNK_SIZE
    /\ remaining_size > 0 => position = Len(chunk_table) * CHUNK_SIZE
    /\ stage = "divided" => remaining_size <= 0

Fresh == stage = "ready" => position = 0 /\ chunk_table = << >>

CutInv == TypeOK /\ Fresh /\ Cutting

LEMMA CuttingKept ==
  ASSUME CutInv, DivideChunk
  PROVE  Cutting'
<1> DEFINE c == chunk_size
           new == [id |-> Len(chunk_table), first |-> position, len |-> c]
           n == Len(chunk_table)
<1>0. CHUNK_SIZE \in Nat /\ CHUNK_SIZE > 1
  BY ChunkingAssumption
<1>1. /\ stage = "dividing" /\ stage' = "dividing"
      /\ remaining_size \in Int /\ remaining_size > 0
      /\ position \in Nat
      /\ chunk_table \in Seq(Chunk)
      /\ n \in Nat
  BY DEF CutInv, TypeOK, DivideChunk
<1>2. /\ c \in 1 .. CHUNK_SIZE
      /\ c <= remaining_size
      /\ remaining_size - c > 0 => c = CHUNK_SIZE
  BY <1>0, <1>1 DEF chunk_size, AtMost
<1>3. new \in Chunk
  BY <1>1, <1>2 DEF Chunk
<1>4. chunk_table' = Append(chunk_table, new)
  BY DEF DivideChunk, AddChunk
<1>5. /\ position' = position + c
      /\ remaining_size' = remaining_size - c
      /\ UNCHANGED <<size, file_size, slots>>
  BY DEF DivideChunk
<1>6. /\ slots = Quotient(file_size) + 1
      /\ file_size = ToInt(size - 1)
      /\ position + remaining_size = file_size
      /\ Tiled
      /\ chunk_table = << >> => position = 0
      /\ chunk_table # << >> => /\ chunk_table[n].first + chunk_table[n].len = position
                                /\ chunk_table[n].len = CHUNK_SIZE
      /\ position = n * CHUNK_SIZE
  BY <1>1 DEF CutInv, Cutting
<1> HIDE DEF c, new
<1>7. /\ Len(chunk_table') = n + 1
      /\ chunk_table'[n + 1] = new
      /\ \A k \in 1 .. n : chunk_table'[k] = chunk_table[k]
  BY <1>1, <1>3, <1>4
<1>8. chunk_table' # << >>
  BY <1>1, <1>7
<1>9. new.id = n /\ new.first = position /\ new.len = c
  BY DEF new
<1>10. Tiled'
  <2> SUFFICES ASSUME NEW k \in 1 .. n + 1
               PROVE  /\ chunk_table'[k].id = k - 1
                      /\ chunk_table'[k].len \in 1 .. CHUNK_SIZE
                      /\ k = 1 => chunk_table'[k].first = 0
                      /\ k > 1 =>
                           /\ chunk_table'[k - 1].len = CHUNK_SIZE
                           /\ chunk_table'[k].first = chunk_table'[k - 1].first + CHUNK_SIZE
    BY <1>7 DEF Tiled
  <2>1. CASE k \in 1 .. n
    <3>1. chunk_table'[k] = chunk_table[k]
      BY <1>7, <2>1
    <3>2. k > 1 => chunk_table'[k - 1] = chunk_table[k - 1]
      BY <1>1, <1>7, <2>1
    <3> QED
      BY <1>6, <2>1, <3>1, <3>2 DEF Tiled
  <2>2. CASE k = n + 1
    <3>1. k = 1 => chunk_table = << >>
      BY <1>1, <2>2
    <3>2. k > 1 => chunk_table # << >> /\ chunk_table'[k - 1] = chunk_table[n]
      BY <1>1, <1>7, <2>2
    <3>3. k > 1 => /\ chunk_table'[k - 1].len = CHUNK_SIZE
                   /\ position = chunk_table'[k - 1].first + CHUNK_SIZE
      BY <1>6, <3>2
    <3>4. k - 1 = n
      BY <1>1, <2>2
    <3> QED
      BY <1>2, <1>6, <1>7, <1>9, <2>2, <3>1, <3>3, <3>4
  <2> QED
    BY <1>1, <2>1, <2>2
<1>11. position' + remaining_size' = file_size'
  BY <1>1, <1>2, <1>5, <1>6
<1>12. /\ chunk_table'[n + 1].first + chunk_table'[n + 1].len = position'
       /\ remaining_size' >= 0
       /\ remaining_size' > 0 => chunk_table'[n + 1].len = CHUNK_SIZE
  BY <1>1, <1>2, <1>5, <1>7, <1>9
<1>13. remaining_size' > 0 => position' = (n + 1) * CHUNK_SIZE
  BY <1>0, <1>1, <1>2, <1>5, <1>6
<1>14. slots' = Quotient(file_size') + 1 /\ file_size' = ToInt(size' - 1)
  BY <1>5, <1>6
<1> QED
  BY <1>1, <1>7, <1>8, <1>10, <1>11, <1>12, <1>13, <1>14 DEF Cutting

LEMMA CutInvariant == Spec => []CutInv
<1>1. Init => Fresh /\ Cutting
  BY DEF Init, Fresh, Cutting
<1>2. CutInv /\ TypeOK' /\ [Next]_vars => Fresh' /\ Cutting'
  <2> SUFFICES ASSUME CutInv, TypeOK', [Next]_vars PROVE Fresh' /\ Cutting'
    OBVIOUS
  <2>1. CASE CreateFile
    <3>1. /\ slots' = Quotient(file_size') + 1
          /\ file_size' = ToInt(size' - 1)
          /\ remaining_size' = file_size'
          /\ position' = 0 /\ chunk_table' = << >>
          /\ stage' = "dividing"
      BY <2>1 DEF CreateFile, CutInv, Fresh
    <3>2. file_size' \in Int
      BY DEF TypeOK
    <3>3. Tiled'
      BY <3>1 DEF Tiled
    <3>4. position' = Len(chunk_table') * CHUNK_SIZE
      BY <3>1, ChunkingAssumption
    <3> QED
      BY <3>1, <3>2, <3>3, <3>4 DEF Fresh, Cutting
  <2>2. CASE DivideChunk
    BY <2>2, CuttingKept DEF DivideChunk, Fresh
  <2>3. CASE EndDivide
    <3>1. stage = "dividing" /\ remaining_size <= 0 /\ stage' = "divided"
      BY <2>3 DEF EndDivide
    <3>2. UNCHANGED <<size, file_size, remaining_size, position, slots, chunk_table>>
      BY <2>3 DEF EndDivide
    <3>3. Tiled => Tiled'
      BY <3>2 DEF Tiled
    <3> QED
      BY <3>1, <3>2, <3>3 DEF CutInv, Cutting, Fresh
  <2>4. CASE FailRead \/ CreateChunks \/ TypeLine \/ TakeRest \/ EndOfInput \/ EndTyping
    <3>1. stage' \notin {"ready", "dividing", "divided"}
      BY <2>4 DEF FailRead, CreateChunks, TypeLine, TakeRest, TakeLine, EndOfInput,
                  EndTyping, Die
    <3> QED
      BY <3>1 DEF Cutting, Fresh
  <2>5. CASE UNCHANGED vars
    <3>1. Tiled => Tiled'
      BY <2>5 DEF vars, Tiled
    <3> QED
      BY <2>5, <3>1 DEF vars, CutInv, Cutting, Fresh
  <2> QED
    BY <2>1, <2>2, <2>3, <2>4, <2>5 DEF Next
<1> QED
  BY <1>1, <1>2, ChunkingTypeCorrect, PTL DEF Spec, CutInv

(* The array malloc made is large enough for every file.                   *)
THEOREM ChunkingInsideTable == Spec => []InsideTable
<1>1. CutInv => InsideTable
  <2> SUFFICES ASSUME CutInv, stage = "dividing", remaining_size > 0
               PROVE  Len(chunk_table) < slots
    BY DEF InsideTable
  <2>1. /\ position = Len(chunk_table) * CHUNK_SIZE
        /\ position + remaining_size = file_size
        /\ slots = Quotient(file_size) + 1
    BY DEF CutInv, Cutting
  <2>2. /\ Len(chunk_table) \in Nat /\ position \in Nat
        /\ remaining_size \in Int /\ file_size \in Int
    BY DEF CutInv, TypeOK
  <2>3. file_size \in Nat /\ Len(chunk_table) * CHUNK_SIZE < file_size
    BY <2>1, <2>2
  <2> QED
    BY <2>1, <2>2, <2>3, QuotientBound
<1> QED
  BY <1>1, CutInvariant, PTL

(* No fread asks for more than the file has.                               *)
THEOREM ChunkingReadsInsideFile == Spec => []ReadsInsideFile
<1>1. CutInv => ReadsInsideFile
  <2> SUFFICES ASSUME CutInv, stage = "dividing", remaining_size > 0
               PROVE  position + chunk_size <= size
    BY DEF ReadsInsideFile
  <2>1. position + remaining_size = file_size /\ file_size = ToInt(size - 1)
    BY DEF CutInv, Cutting
  <2>2. /\ size \in Nat /\ position \in Nat
        /\ remaining_size \in Int /\ file_size \in Int
    BY DEF CutInv, TypeOK
  <2>3. file_size <= size - 1
    BY <2>1, <2>2, ToIntBound
  <2>4. chunk_size \in Int /\ chunk_size <= remaining_size
    BY <2>2, ChunkingAssumption DEF chunk_size, AtMost
  <2> QED
    BY <2>1, <2>2, <2>3, <2>4
<1> QED
  BY <1>1, CutInvariant, PTL

(* The chunks of a file whose size fits an int are the file less its last  *)
(* byte, in order and without a gap.                                       *)
THEOREM ChunkingCutBeforeLastByte == Spec => []CutBeforeLastByte
<1>1. CutInv => CutBeforeLastByte
  <2> SUFFICES ASSUME CutInv, stage = "divided", size < IntRange \div 2
               PROVE  /\ Tiled
                      /\ IF size <= 1
                         THEN chunk_table = << >>
                         ELSE /\ chunk_table # << >>
                              /\ chunk_table[Len(chunk_table)].first
                                 + chunk_table[Len(chunk_table)].len = size - 1
    BY DEF CutBeforeLastByte
  <2> DEFINE last == chunk_table[Len(chunk_table)]
  <2>1. /\ Tiled
        /\ position + remaining_size = file_size
        /\ file_size = ToInt(size - 1)
        /\ chunk_table = << >> => position = 0
        /\ chunk_table # << >> => last.first + last.len = position /\ remaining_size >= 0
        /\ remaining_size <= 0
    BY DEF CutInv, Cutting
  <2>2. /\ size \in Nat /\ position \in Nat
        /\ remaining_size \in Int /\ chunk_table \in Seq(Chunk)
    BY DEF CutInv, TypeOK
  <2>3. file_size = size - 1
    BY <2>1, <2>2, ToIntBound
  <2>4. CASE size <= 1
    <3>1. chunk_table # << >> => position <= 0
      BY <2>1, <2>2, <2>3, <2>4
    <3>2. chunk_table # << >> => last.first \in Nat /\ last.len \in 1 .. CHUNK_SIZE
      <4>1. SUFFICES ASSUME chunk_table # << >>
                     PROVE  last.first \in Nat /\ last.len \in 1 .. CHUNK_SIZE
        OBVIOUS
      <4>2. Len(chunk_table) \in 1 .. Len(chunk_table)
        BY <2>2, <4>1
      <4>3. last \in Chunk
        BY <2>2, <4>2
      <4> QED
        BY <2>1, <4>2, <4>3 DEF Tiled, Chunk
    <3>3. CHUNK_SIZE \in Nat
      BY ChunkingAssumption
    <3> QED
      BY <2>1, <2>2, <2>4, <3>1, <3>2, <3>3
  <2>5. CASE size > 1
    BY <2>1, <2>2, <2>3, <2>5
  <2> QED
    BY <2>1, <2>2, <2>4, <2>5
<1> QED
  BY <1>1, CutInvariant, PTL

-----------------------------------------------------------------------------
(* Typed lines                                                             *)

(* Nothing is typed before create_chunks is called.                        *)
Untyped == stage = "ready" => chunk_table = << >> /\ lines = << >>

(* A chunk is added for a line, or for a part of one: the chunks of the    *)
(* lines typed before stay, and every chunk keeps its number.              *)
LEMMA LineTaken ==
  ASSUME TypeOK, LinesAreChunks, stage = "typing", NEW n \in Nat \ {0}, TakeLine(n)
  PROVE  /\ stage' = "typing"
         /\ \A k \in 1 .. Len(chunk_table) : chunk_table'[k] = chunk_table[k]
         /\ Len(chunk_table') = Len(chunk_table) + 1
         /\ chunk_table'[Len(chunk_table) + 1].first = position
         /\ n < CHUNK_SIZE => chunk_table'[Len(chunk_table) + 1].len = n - 1
         /\ \A k \in 1 .. Len(chunk_table') :
              chunk_table'[k].id = offset' - Len(chunk_table') + k - 1
<1> DEFINE taken == AtMost(n, CHUNK_SIZE - 1)
           new == [id |-> offset, first |-> position, len |-> taken - 1]
           m == Len(chunk_table)
<1>1. /\ chunk_table \in Seq(Chunk) /\ m \in Nat /\ offset \in Int /\ position \in Nat
      /\ CHUNK_SIZE \in Nat
  BY ChunkingAssumption DEF TypeOK
<1>2. taken \in Nat /\ (n < CHUNK_SIZE => taken = n)
  BY <1>1, ChunkingAssumption DEF AtMost
<1>3. /\ chunk_table' = Append(chunk_table, new)
      /\ offset' = offset + 1
      /\ stage' = "typing"
  BY DEF TakeLine, AddChunk
<1>4. new.id = offset /\ new.first = position /\ new.len = taken - 1
  OBVIOUS
<1> HIDE DEF taken, new
<1>5. /\ Len(chunk_table') = m + 1
      /\ chunk_table'[m + 1] = new
      /\ \A k \in 1 .. m : chunk_table'[k] = chunk_table[k]
  BY <1>1, <1>3
<1>6. ASSUME NEW k \in 1 .. m + 1
      PROVE  chunk_table'[k].id = offset' - (m + 1) + k - 1
  <2>1. CASE k \in 1 .. m
    <3>1. chunk_table[k].id = offset - m + k - 1
      BY <2>1 DEF LinesAreChunks
    <3> QED
      BY <1>1, <1>3, <1>5, <2>1, <3>1
  <2>2. CASE k = m + 1
    BY <1>1, <1>3, <1>4, <1>5, <2>2
  <2> QED
    BY <1>1, <2>1, <2>2
<1>7. n < CHUNK_SIZE => chunk_table'[m + 1].len = n - 1
  BY <1>2, <1>4, <1>5
<1>8. \A k \in 1 .. Len(chunk_table') : chunk_table'[k].id = offset' - Len(chunk_table') + k - 1
  BY <1>5, <1>6
<1> QED
  BY <1>3, <1>4, <1>5, <1>7, <1>8

LEMMA LinesStep ==
  ASSUME TypeOK, Untyped, LinesAreChunks, [Next]_vars
  PROVE  LinesAreChunks'
<1> DEFINE m == Len(chunk_table)
           IsChunk(l, table) == \E k \in 1 .. Len(table) : /\ table[k].first = l.first
                                                           /\ table[k].len = l.len - 1
<1>0. m \in Nat /\ Len(lines) \in Nat
  BY DEF TypeOK
<1>1. ASSUME NEW n \in Nat \ {0}, stage = "typing", TakeLine(n),
             \/ lines' = lines
             \/ lines' = Append(lines, [first |-> position, len |-> n])
      PROVE  LinesAreChunks'
  <2>1. /\ stage' = "typing"
        /\ \A k \in 1 .. m : chunk_table'[k] = chunk_table[k]
        /\ Len(chunk_table') = m + 1
        /\ chunk_table'[m + 1].first = position
        /\ n < CHUNK_SIZE => chunk_table'[m + 1].len = n - 1
        /\ \A k \in 1 .. Len(chunk_table') :
             chunk_table'[k].id = offset' - Len(chunk_table') + k - 1
    BY <1>1, LineTaken
  <2>2. ASSUME NEW j \in 1 .. Len(lines), lines[j].len < CHUNK_SIZE
        PROVE  IsChunk(lines[j], chunk_table')
    <3>1. IsChunk(lines[j], chunk_table)
      BY <1>1, <2>2 DEF LinesAreChunks
    <3>2. \A k \in 1 .. m : k \in 1 .. Len(chunk_table')
      BY <1>0, <2>1
    <3> QED
      BY <2>1, <3>1, <3>2
  <2>3. ASSUME lines' = Append(lines, [first |-> position, len |-> n]),
               NEW j \in 1 .. Len(lines'), lines'[j].len < CHUNK_SIZE
        PROVE  IsChunk(lines'[j], chunk_table')
    <3>1. CASE j \in 1 .. Len(lines)
      <4>1. lines'[j] = lines[j]
        BY <2>3, <3>1 DEF TypeOK
      <4> QED
        BY <2>2, <2>3, <3>1, <4>1
    <3>2. CASE j = Len(lines) + 1
      <4>1. lines'[j] = [first |-> position, len |-> n]
        BY <2>3, <3>2 DEF TypeOK
      <4>2. m + 1 \in 1 .. Len(chunk_table')
        BY <1>0, <2>1
      <4> QED
        BY <2>1, <2>3, <4>1, <4>2
    <3>3. Len(lines') = Len(lines) + 1
      BY <2>3 DEF TypeOK
    <3> QED
      BY <1>0, <3>1, <3>2, <3>3
  <2>4. \A j \in 1 .. Len(lines') : lines'[j].len < CHUNK_SIZE => IsChunk(lines'[j], chunk_table')
    BY <1>1, <2>2, <2>3
  <2> QED
    BY <2>1, <2>4 DEF LinesAreChunks
<1>2. CASE TypeLine
  <2>1. PICK n \in LineLengths : /\ TakeLine(n)
                                 /\ lines' = Append(lines, [first |-> position, len |-> n])
    BY <1>2 DEF TypeLine
  <2>2. n \in Nat \ {0} /\ stage = "typing"
    BY <1>2, ChunkingAssumption DEF TypeLine
  <2> QED
    BY <1>1, <2>1, <2>2
<1>3. CASE TakeRest
  <2>1. leftover \in Nat \ {0} /\ stage = "typing" /\ TakeLine(leftover) /\ lines' = lines
    BY <1>3 DEF TakeRest, TypeOK
  <2> QED
    BY <1>1, <2>1
<1>4. CASE CreateChunks
  <2>1. /\ stage' = "typing" /\ chunk_table' = << >> /\ lines' = << >>
    BY <1>4 DEF CreateChunks, Untyped
  <2> QED
    BY <2>1 DEF LinesAreChunks
<1>5. CASE EndTyping \/ UNCHANGED vars
  <2>1. /\ UNCHANGED <<chunk_table, offset, lines>>
        /\ stage' \in {"typing", "typed"} => stage \in {"typing", "typed"}
    BY <1>5 DEF EndTyping, vars
  <2> QED
    BY <2>1 DEF LinesAreChunks
<1>6. CASE CreateFile \/ DivideChunk \/ FailRead \/ EndDivide \/ EndOfInput
  <2>1. stage' \notin {"typing", "typed"}
    BY <1>6 DEF CreateFile, DivideChunk, FailRead, EndDivide, EndOfInput, Die
  <2> QED
    BY <2>1 DEF LinesAreChunks
<1> QED
  BY <1>2, <1>3, <1>4, <1>5, <1>6 DEF Next

(* Every typed line that fits is one chunk without its newline, and the    *)
(* chunks are numbered on from the offset (create_chunks), however many    *)
(* lines are typed and however long they are.                              *)
THEOREM ChunkingLinesAreChunks == Spec => []LinesAreChunks
<1>1. Init => Untyped /\ LinesAreChunks
  BY DEF Init, Untyped, LinesAreChunks
<1>2. Untyped /\ [Next]_vars => Untyped'
  BY DEF Untyped, Next, vars, CreateFile, DivideChunk, FailRead, EndDivide, CreateChunks,
         TypeLine, TakeRest, TakeLine, EndOfInput, EndTyping, Die
<1>3. TypeOK /\ Untyped /\ LinesAreChunks /\ [Next]_vars => LinesAreChunks'
  BY LinesStep
<1> QED
  BY <1>1, <1>2, <1>3, ChunkingTypeCorrect, PTL DEF Spec

=============================================================================
