---------------------------- MODULE StorageNode ----------------------------
(***************************************************************************)
(* A storage node (storage_node_1.c; the other four differ in the address  *)
(* they bind): one thread per connection, a table of files whose entries   *)
(* hold the chunks in the order they arrived, and two global counters.     *)
(*                                                                         *)
(* No lock protects any of it, so a C statement is an action, each turn of *)
(* a search loop is one, and ++ is a load and a store.  A request is       *)
(* received whole.  Chunk data is abstract: Wild is the pointer the memset *)
(* of main leaves, Blank a buffer fresh from malloc.                       *)
(***************************************************************************)
EXTENDS Integers, Sequences, FiniteSets

CONSTANTS
  Threads,      \* connection threads (client_handler)
  Writers,      \* the threads whose client sends writes
  MAX_FILES,    \* entries of the table (20 in the source)
  MAX_CHUNKS,   \* chunks of an entry (1000)
  FileIds,      \* file ids clients use
  ChunkIds,     \* chunk ids clients use
  Payloads,     \* chunk contents clients write
  Clean,        \* those strlen measures as written: no NUL in them, one after
  NoBytes,      \* those of length 0: what create_chunks makes of an empty line
  Blank, Wild, Garbled,
  MaxRequests   \* bound on the requests of a behaviour

Slots == 0 .. MAX_FILES - 1
Positions == 0 .. MAX_CHUNKS - 1

ASSUME StorageAssumption ==
  /\ Writers \subseteq Threads
  /\ MAX_FILES \in Nat \ {0}
  /\ MAX_CHUNKS \in Nat \ {0}
  /\ FileIds \subseteq Nat
  /\ ChunkIds \subseteq Nat
  /\ Clean \subseteq Payloads
  /\ NoBytes \subseteq Payloads
  /\ Wild # Blank
  /\ {Wild, Blank, Garbled} \cap Payloads = {}
  /\ MaxRequests \in Nat

VARIABLES
  \* shared by the threads
  files,             \* the table
  global_file_index, \* the entry the next new file gets
  chunk_counter,     \* where write_chunk puts the chunk it is writing
  alive,             \* FALSE once memory outside the table is touched
  \* one per thread
  pc,                \* where the thread is, see Labels
  req,               \* the request it serves
  i,                 \* loop index over the table
  file_index,        \* the entry found or made
  reg,               \* the value ++ has loaded
  \* history
  log                \* the requests served, in order

store == <<files, global_file_index, chunk_counter>>
vars == <<store, alive, pc, req, i, file_index, reg, log>>

Contents == Payloads \cup {Blank, Wild}

(* seen is history: how many requests had been served when this one came.  *)
Request == [op : {"W", "R"}, file : FileIds, chunk : ChunkIds, data : Payloads \cup {Blank},
            seen : Nat]

(* A request in the history: data is what was written or answered, pos the *)
(* position in the entry.                                                  *)
Served == [op : {"W", "R"}, file : FileIds, chunk : ChunkIds,
           data : Payloads \cup {Blank, Garbled}, pos : Int, seen : Nat]

(* The buffer of client_handler between two requests.                      *)
NoRequest == [op |-> "none"]

Entry == [file_id : Int, num_chunks : Int,
          chunks : [Positions -> [id : Int, data : Contents]]]

Labels == {"idle", "search", "claim", "clear", "index", "next", "advance", "count",
           "alloc", "label", "fill", "echo", "grow", "grown", "fetch"}

(* Where a thread works on an entry it found or made.                      *)
Inside == {"alloc", "label", "fill", "echo", "grow", "grown", "fetch"}

TypeOK ==
  /\ files \in [Slots -> Entry]
  /\ global_file_index \in Nat
  /\ chunk_counter \in Int
  /\ alive \in BOOLEAN
  /\ pc \in [Threads -> Labels]
  /\ req \in [Threads -> Request \cup {NoRequest}]
  /\ \A t \in Threads : pc[t] # "idle" => req[t] \in Request
  /\ i \in [Threads -> Slots]
  /\ file_index \in [Threads -> Nat]
  /\ \A t \in Threads : pc[t] \in Inside => file_index[t] \in Slots
  /\ reg \in [Threads -> Int]
  /\ \A t \in Threads : pc[t] = "advance" => reg[t] \in Nat
  /\ log \in Seq(Served)

-----------------------------------------------------------------------------
(* Helpers                                                                 *)

Goto(t, label) == pc' = [pc EXCEPT ![t] = label]

(* Memory outside the table is read or written, or a wild pointer is       *)
(* followed: from here on anything may happen, and nothing is claimed.     *)
Fault == /\ alive' = FALSE
         /\ UNCHANGED <<store, pc, req, i, file_index, reg, log>>

(* The chunk write_chunk is working on is inside the table.                *)
InTable(t) == file_index[t] \in Slots /\ chunk_counter \in Positions

Current(t) == files[file_index[t]].chunks[chunk_counter]

(* What a client gets for stored data: strlen decides how much is sent.    *)
Measured(d) == IF d \in Clean \cup {Blank} THEN d ELSE Garbled

(* The table after memset(files, -1, ...).                                 *)
EmptyTable ==
  [s \in Slots |-> [file_id |-> -1, num_chunks |-> -1,
                    chunks |-> [k \in Positions |-> [id |-> -1, data |-> Wild]]]]

Busy == {t \in Threads : pc[t] # "idle"}

(* Mutant: the search starts at the second entry.                          *)
ServeFromSecond(t, r) ==
  /\ pc[t] = "idle"
  /\ Len(log) + Cardinality(Busy) < MaxRequests
  /\ req' = [req EXCEPT ![t] = r]
  /\ i' = [i EXCEPT ![t] = 1]
  /\ Goto(t, "search")
  /\ UNCHANGED <<store, alive, file_index, reg, log>>

Serve(t, r) ==
  /\ pc[t] = "idle"
  /\ Len(log) + Cardinality(Busy) < MaxRequests
  /\ req' = [req EXCEPT ![t] = r]
  /\ i' = [i EXCEPT ![t] = 0]
  /\ Goto(t, "search")
  /\ UNCHANGED <<store, alive, file_index, reg, log>>

(* The request is served, and its buffer and locals are gone.              *)
Done(t, data, pos) ==
  /\ log' = Append(log, [op |-> req[t].op, file |-> req[t].file, chunk |-> req[t].chunk,
                         data |-> data, pos |-> pos, seen |-> req[t].seen])
  /\ req' = [req EXCEPT ![t] = NoRequest]
  /\ file_index' = [file_index EXCEPT ![t] = 0]
  /\ reg' = [reg EXCEPT ![t] = 0]
  /\ Goto(t, "idle")

-----------------------------------------------------------------------------
(* client_handler: a request is received                                   *)

Init ==
  /\ files = EmptyTable
  /\ global_file_index = 0
  /\ chunk_counter = 0
  /\ alive = TRUE
  /\ pc = [t \in Threads |-> "idle"]
  /\ req = [t \in Threads |-> NoRequest]
  /\ i = [t \in Threads |-> 0]
  /\ file_index = [t \in Threads |-> 0]
  /\ reg = [t \in Threads |-> 0]
  /\ log = << >>

ReceiveWrite(t) ==
  /\ t \in Writers
  /\ \E f \in FileIds, c \in ChunkIds, d \in Payloads :
       Serve(t, [op |-> "W", file |-> f, chunk |-> c, data |-> d, seen |-> Len(log)])

ReceiveRead(t) ==
  \E f \in FileIds, c \in ChunkIds :
    Serve(t, [op |-> "R", file |-> f, chunk |-> c, data |-> Blank, seen |-> Len(log)])

-----------------------------------------------------------------------------
(* get_file_index and check_cache: the search for the entry of a file      *)

(* The entry is here.                                                      *)
FindEntry(t) ==
  /\ pc[t] = "search"
  /\ files[i[t]].file_id = req[t].file
  /\ file_index' = [file_index EXCEPT ![t] = i[t]]
  /\ Goto(t, IF req[t].op = "W" THEN "count" ELSE "fetch")
  /\ UNCHANGED <<store, alive, req, i, reg, log>>

(* Mutants of PassEntry: the search runs one entry too far ...             *)
PassEntryBeyond(t) ==
  /\ pc[t] = "search"
  /\ files[i[t]].file_id # req[t].file
  /\ IF i[t] < MAX_FILES
     THEN /\ i' = [i EXCEPT ![t] = @ + 1]
          /\ UNCHANGED <<store, alive, pc, req, file_index, reg, log>>
     ELSE Fault

(* ... or begins again after the last entry.                               *)
PassEntryAgain(t) ==
  /\ pc[t] = "search"
  /\ files[i[t]].file_id # req[t].file
  /\ i' = [i EXCEPT ![t] = (@ + 1) % MAX_FILES]
  /\ UNCHANGED <<store, alive, pc, req, file_index, reg, log>>

(* It is not: the next one is tried.  After the last, a write makes a new  *)
(* entry and a read goes on with index -1.                                 *)
PassEntry(t) ==
  /\ pc[t] = "search"
  /\ files[i[t]].file_id # req[t].file
  /\ IF i[t] < MAX_FILES - 1
     THEN /\ i' = [i EXCEPT ![t] = @ + 1]
          /\ UNCHANGED <<store, alive, pc, req, file_index, reg, log>>
     ELSE IF req[t].op = "W"
          THEN Goto(t, "claim") /\ UNCHANGED <<store, alive, req, i, file_index, reg, log>>
          ELSE Fault

ClaimEntry(t) ==
  /\ pc[t] = "claim"
  /\ IF global_file_index \in Slots
     THEN /\ files' = [files EXCEPT ![global_file_index].file_id = req[t].file]
          /\ Goto(t, "clear")
          /\ UNCHANGED <<global_file_index, chunk_counter, alive, req, i, file_index, reg, log>>
     ELSE Fault

(* Mutant: num_chunks keeps the -1 of the memset.                          *)
ClearEntryNever(t) ==
  /\ pc[t] = "clear"
  /\ Goto(t, "index")
  /\ UNCHANGED <<store, alive, req, i, file_index, reg, log>>

ClearEntry(t) ==
  /\ pc[t] = "clear"
  /\ IF global_file_index \in Slots
     THEN /\ files' = [files EXCEPT ![global_file_index].num_chunks = 0]
          /\ Goto(t, "index")
          /\ UNCHANGED <<global_file_index, chunk_counter, alive, req, i, file_index, reg, log>>
     ELSE Fault

TakeIndex(t) ==
  /\ pc[t] = "index"
  /\ file_index' = [file_index EXCEPT ![t] = global_file_index]
  /\ Goto(t, "next")
  /\ UNCHANGED <<store, alive, req, i, reg, log>>

(* global_file_index++                                                     *)
LoadIndex(t) ==
  /\ pc[t] = "next"
  /\ reg' = [reg EXCEPT ![t] = global_file_index]
  /\ Goto(t, "advance")
  /\ UNCHANGED <<store, alive, req, i, file_index, log>>

(* Mutant: the next new file gets the same entry.                          *)
StoreIndexLost(t) ==
  /\ pc[t] = "advance"
  /\ Goto(t, "count")
  /\ UNCHANGED <<store, alive, req, i, file_index, reg, log>>

StoreIndex(t) ==
  /\ pc[t] = "advance"
  /\ global_file_index' = reg[t] + 1
  /\ Goto(t, "count")
  /\ UNCHANGED <<files, chunk_counter, alive, req, i, file_index, reg, log>>

-----------------------------------------------------------------------------
(* write_chunk, from line 149                                              *)

(* Mutant: the chunk goes where the last one went.                         *)
CountChunksNever(t) ==
  /\ pc[t] = "count"
  /\ Goto(t, "alloc")
  /\ UNCHANGED <<store, alive, req, i, file_index, reg, log>>

CountChunks(t) ==
  /\ pc[t] = "count"
  /\ IF file_index[t] \in Slots
     THEN /\ chunk_counter' = files[file_index[t]].num_chunks
          /\ Goto(t, "alloc")
          /\ UNCHANGED <<files, global_file_index, alive, req, i, file_index, reg, log>>
     ELSE Fault

AllocChunk(t) ==
  /\ pc[t] = "alloc"
  /\ IF InTable(t)
     THEN /\ files' = [files EXCEPT ![file_index[t]].chunks[chunk_counter].data = Blank]
          /\ Goto(t, "label")
          /\ UNCHANGED <<global_file_index, chunk_counter, alive, req, i, file_index, reg, log>>
     ELSE Fault

LabelChunk(t) ==
  /\ pc[t] = "label"
  /\ IF InTable(t)
     THEN /\ files' = [files EXCEPT ![file_index[t]].chunks[chunk_counter].id = req[t].chunk]
          /\ Goto(t, "fill")
          /\ UNCHANGED <<global_file_index, chunk_counter, alive, req, i, file_index, reg, log>>
     ELSE Fault

FillChunk(t) ==
  /\ pc[t] = "fill"
  /\ IF InTable(t) /\ Current(t).data # Wild
     THEN /\ files' = [files EXCEPT ![file_index[t]].chunks[chunk_counter].data = req[t].data]
          /\ Goto(t, "echo")
          /\ UNCHANGED <<global_file_index, chunk_counter, alive, req, i, file_index, reg, log>>
     ELSE Fault

(* The debug output measures the chunk and prints the chunk whose POSITION *)
(* is the id just stored, as many bytes of it as were stored: if none, its *)
(* pointer is not followed.                                                *)
EchoChunk(t) ==
  /\ pc[t] = "echo"
  /\ IF /\ InTable(t)
        /\ Current(t).data # Wild
        /\ Current(t).id \in Positions
        /\ \/ req[t].data \in NoBytes
           \/ files[file_index[t]].chunks[Current(t).id].data # Wild
     THEN Goto(t, "grow") /\ UNCHANGED <<store, alive, req, i, file_index, reg, log>>
     ELSE Fault

(* num_chunks++                                                            *)
LoadCount(t) ==
  /\ pc[t] = "grow"
  /\ reg' = [reg EXCEPT ![t] = files[file_index[t]].num_chunks]
  /\ Goto(t, "grown")
  /\ UNCHANGED <<store, alive, req, i, file_index, log>>

(* Mutant: the chunk is counted twice.                                     *)
StoreCountTwice(t) ==
  /\ pc[t] = "grown"
  /\ files' = [files EXCEPT ![file_index[t]].num_chunks = reg[t] + 2]
  /\ Done(t, req[t].data, reg[t])
  /\ UNCHANGED <<global_file_index, chunk_counter, alive, i>>

StoreCount(t) ==
  /\ pc[t] = "grown"
  /\ files' = [files EXCEPT ![file_index[t]].num_chunks = reg[t] + 1]
  /\ Done(t, req[t].data, reg[t])
  /\ UNCHANGED <<global_file_index, chunk_counter, alive, i>>

(* read_chunk, from line 128: the chunk id is used as a position.          *)
FetchChunk(t) ==
  /\ pc[t] = "fetch"
  /\ IF /\ req[t].chunk \in Positions
        /\ files[file_index[t]].chunks[req[t].chunk].data # Wild
     THEN /\ Done(t, Measured(files[file_index[t]].chunks[req[t].chunk].data), req[t].chunk)
          /\ UNCHANGED <<store, alive, i>>
     ELSE Fault

-----------------------------------------------------------------------------

Step(t) ==
  /\ alive
  /\ \/ FindEntry(t) \/ PassEntry(t) \/ ClaimEntry(t) \/ ClearEntry(t) \/ TakeIndex(t)
     \/ LoadIndex(t) \/ StoreIndex(t) \/ CountChunks(t) \/ AllocChunk(t) \/ LabelChunk(t)
     \/ FillChunk(t) \/ EchoChunk(t) \/ LoadCount(t) \/ StoreCount(t) \/ FetchChunk(t)

Receive(t) ==
  /\ alive
  /\ ReceiveWrite(t) \/ ReceiveRead(t)

Next == \E t \in Threads : Receive(t) \/ Step(t)

Spec == Init /\ [][Next]_vars

FairSpec == Spec /\ \A t \in Threads : WF_vars(Step(t))

-----------------------------------------------------------------------------
(* What holds while one connection at a time writes, whoever reads         *)

(* A file has one entry: the search that failed and the claim that follows *)
(* never make a second one, and a claim never takes over an entry.         *)
OneEntryPerFile ==
  \A a, b \in Slots :
    files[a].file_id = files[b].file_id /\ files[a].file_id # -1 => a = b

(* A chunk whose write ended stays where it was put, under the file it was *)
(* written to, and each write of a file has a position of its own, in the  *)
(* order the writes ended.                                                 *)
WritesKept ==
  \A k \in 1 .. Len(log) : log[k].op = "W" =>
    /\ \E s \in Slots :
         /\ files[s].file_id = log[k].file
         /\ log[k].pos \in 0 .. files[s].num_chunks - 1
         /\ files[s].chunks[log[k].pos] = [id |-> log[k].chunk, data |-> log[k].data]
    /\ \A j \in 1 .. k - 1 :
         log[j].op = "W" /\ log[j].file = log[k].file => log[j].pos < log[k].pos

(* A read that starts after a write ended gets what was written, if the    *)
(* client numbers its chunks in the order it writes them.                  *)
ReadsReturnWrites ==
  \A j, k \in 1 .. Len(log) :
    /\ log[j].op = "W"
    /\ log[k].op = "R"
    /\ j <= log[k].seen
    /\ log[j].file = log[k].file
    /\ log[j].chunk = log[k].chunk
    /\ log[j].pos = log[j].chunk
    => log[k].data = Measured(log[j].data)

(* Only a request the table has no answer for is fatal: a chunk is read    *)
(* whose write had not ended when the read came, a chunk is numbered ahead *)
(* of the chunks that are there and has bytes to print (or no place in the *)
(* table), or the table or an entry is full.                               *)
DiesOnlyOnMisuse ==
  ~alive =>
    \E t \in Threads :
      \/ /\ pc[t] \in {"search", "fetch"}
         /\ \A k \in 1 .. req[t].seen :
              ~ (log[k].op = "W" /\ log[k].file = req[t].file /\ log[k].pos = req[t].chunk)
      \/ /\ pc[t] = "echo" /\ req[t].chunk > chunk_counter
         /\ req[t].data \notin NoBytes \/ req[t].chunk >= MAX_CHUNKS
      \/ pc[t] = "claim" /\ global_file_index = MAX_FILES
      \/ pc[t] = "alloc" /\ chunk_counter = MAX_CHUNKS

(* The node implements the chunk store: a file has the chunks its entry    *)
(* counts, and a write has arrived once its chunk has memory.  So a reader *)
(* that meets a write half done gets what is there, or what arrives.       *)
StoredChunks(f) ==
  LET entries == {r \in Slots : files[r].file_id = f} IN
    IF entries = {} THEN << >>
    ELSE LET s == CHOOSE r \in entries : TRUE IN
           [k \in 1 .. files[s].num_chunks |-> files[s].chunks[k - 1]]

StoredFiles == [f \in FileIds |-> StoredChunks(f)]

Arriving(t) == pc[t] \in {"label", "fill", "echo", "grow", "grown"}

ArrivingWrites ==
  {[file |-> req[t].file, id |-> req[t].chunk, data |-> req[t].data] :
     t \in {u \in Threads : Arriving(u)}}

Store == INSTANCE ChunkStore WITH
  stored <- StoredFiles, arriving <- ArrivingWrites, answers <- log

ImplementsStore == Store!StoreSpec

(* What holds whatever the threads do                                      *)

(* Every request that was received ends, unless it ends the process.       *)
RequestsEnd == \A t \in Threads : pc[t] # "idle" ~> (pc[t] = "idle" \/ ~alive)

=============================================================================
