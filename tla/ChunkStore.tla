----------------------------- MODULE ChunkStore -----------------------------
(***************************************************************************)
(* What a storage node promises while one connection writes and any number *)
(* read: a list of chunks per file to which writes append.  A read answers *)
(* the chunk at the position it names.  One position is open: that of the  *)
(* write in progress, where a read gets what arrives, or a buffer not yet  *)
(* filled.  StorageNode is shown to implement this module.                 *)
(***************************************************************************)
EXTENDS Integers, Sequences

CONSTANTS
  FileIds, ChunkIds, Payloads,
  Clean,           \* the payloads a client gets back as they were written
  Blank, Garbled   \* a buffer not filled yet; what a client gets of other payloads

VARIABLES
  stored,          \* the chunks of each file, in the order their writes ended
  arriving,        \* the write in progress, or none
  answers          \* the requests answered, in order

storeVars == <<stored, arriving, answers>>

(* What a client gets of a chunk.                                          *)
AsSent(d) == IF d \in Clean \cup {Blank} THEN d ELSE Garbled

(* A request is answered; seen is how many had been when it came.          *)
Answer(op, f, c, d, p) ==
  \E seen \in 0 .. Len(answers) :
    answers' = Append(answers, [op |-> op, file |-> f, chunk |-> c, data |-> d,
                                pos |-> p, seen |-> seen])

-----------------------------------------------------------------------------

StoreInit ==
  /\ stored = [f \in FileIds |-> << >>]
  /\ arriving = {}
  /\ answers = << >>

(* A write takes its place, after the chunks that are there.               *)
Arrive ==
  /\ arriving = {}
  /\ \E f \in FileIds, c \in ChunkIds, d \in Payloads :
       arriving' = {[file |-> f, id |-> c, data |-> d]}
  /\ UNCHANGED <<stored, answers>>

(* The write ends: its chunk is stored under its id.                       *)
Write ==
  \E a \in arriving :
    /\ stored' = [stored EXCEPT ![a.file] = Append(@, [id |-> a.id, data |-> a.data])]
    /\ arriving' = {}
    /\ Answer("W", a.file, a.id, a.data, Len(stored[a.file]))

(* A read names a position by a chunk id.                                  *)
ReadStored ==
  /\ \E f \in FileIds, c \in ChunkIds :
       /\ c < Len(stored[f])
       /\ Answer("R", f, c, AsSent(stored[f][c + 1].data), c)
  /\ UNCHANGED <<stored, arriving>>

(* The position is that of the write in progress.                          *)
ReadArriving ==
  /\ \E a \in arriving : \E d \in {Blank, a.data} :
       /\ Len(stored[a.file]) \in ChunkIds
       /\ Answer("R", a.file, Len(stored[a.file]), AsSent(d), Len(stored[a.file]))
  /\ UNCHANGED <<stored, arriving>>

StoreNext == Arrive \/ Write \/ ReadStored \/ ReadArriving

StoreSpec == StoreInit /\ [][StoreNext]_storeVars

=============================================================================
