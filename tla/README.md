# Reduced DFS: a verification project

TLA+ models, TLC runs and TLAPS proofs for the distributed file system in
`src/`: a master, five storage nodes and a client library, in C, with one thread
per connection and no locks. Paths below are relative to the repository.

Contents: 1 inventory, 2 what is modelled and how it corresponds to the code,
3 the runs, 4 the proofs, 5 what is not modelled, 6 plan, 7 how to run it.

## 1. Inventory

### Components, their state and their operations

| component | source | state | operations |
|---|---|---|---|
| Master, file table | `src/masterlib.c` | `files_nodes[1000]`, `file_counter`; per thread the request buffer | `function_CF` (create), `function_RF` (look up), `print_node_list_per_file`, `decode_instruction`; stubs AF, NF, DF |
| Master, nodes | `src/linkedlist.c`, `src/node_managerlib.h` | per node `status`, `num_files` | `update_nodes_status`, `check_node_availability`, `add_node`, `get_node_list`, `generate_cf_response`; `removeNode` is never called |
| Storage node, five copies | `src/storage_node_1.c` ... `5.c` | `files[20]` of `file_id`, `num_chunks`, `file_chunks[1000]`; `global_file_index`, `chunk_counter` | `write_chunk`, `read_chunk`, `get_file_index`, `check_cache`, `create_payload`, `client_handler` |
| Accept loop | `main` of the six servers | `new_socket` | accept, `pthread_create(..., &new_socket)`, the thread's copy, recv, send, close |
| Client, chunking | `src/clientlib.c` | file position, chunk table, `*chunk_id_offset` | `create_file` (size), `divide_file_into_chunks`, `create_chunks` |
| Client, sessions | `src/clientlib.c` | `files[1000]`, `global_file_index` | `create_file` (requests), `append_file`, `read_chunk`, `send_chunks_to_nodes`, `check_cache` |
| Framing over TCP | client and nodes | bytes in the socket buffer | `send`, `recv` of 44 bytes, `sleep(1)` |
| Demonstration client | `src/application.c` | none | one fixed session |

### How they interact

1. The client asks the master to create a file (`CF`). The master pings the host
   of every node, takes the first three that answered and have room, enters them in
   its table under the next file id, and answers with the id and the three addresses.
2. The client connects to each of the three nodes in turn and sends every chunk of
   the file, one `W` message a second. The node answers nothing.
3. To append, the client sends further chunks to the nodes it has cached, or asks the
   master for them (`RF`).
4. To read, it takes the first of the three nodes that accepts a connection and sends
   an `R` message with file id and chunk id; the node answers with the chunk.

Master and nodes never talk to each other; no state is on disk.

### What is hard, and what makes each component correct

- **Master.** Threads share the table, its counter and the node list without a lock.
  Correct: an id is given once; what a client was told stays true; three different
  nodes; no node beyond its capacity; the process survives.
- **Storage node.** Every statement of `write_chunk` touches memory other threads
  write, through two global counters. Correct: one entry per file; a chunk that was
  written is kept and read back; indices stay inside the table.
- **Accept loop.** The thread reads a variable of `main` after `main` has gone on;
  descriptors are reused. Correct: one thread per connection, no foreign connection
  closed, every request taken by a thread.
- **Chunking.** An array bound computed by division for a loop that subtracts, a size
  one too small in an int, `fgets` and `strlen` at their edges. Correct: inside the
  array, inside the file, no byte lost or doubled.
- **Sessions.** Replicas that were down during a write, restarts that empty a table, a
  cache that outlives the master's table, answers that never come, chunks without a byte.
  Correct: a node holds a chunk at its place or not at all, a read gets the chunk it asked
  for, a replica that stayed up has everything, every call the master answers returns.
- **Framing.** Messages that arrive together are cut at 44 bytes. Correct: every request
  is a whole message, each is served once and in order.

`PROJECT.json` lists each hazard at its line with the properties that cover it.

## 2. The models

An action writes shared memory at most once. It may take with it the reads the same C
statement makes (`CheckNode` reads a node's status and load together, `EchoChunk` the
chunk it prints), except where the statement writes back what it read: `x++` is a load and a
store, and so is the use of a counter as an index in `Publish`. Steps on a thread's own
stack are folded into the access that follows. A dereference
of NULL, of a wild pointer, or outside a table sets `alive` to FALSE and nothing
follows: the code has no defined behaviour from there, and nothing is claimed.

### Master (`Master.tla`)

| definition | code |
|---|---|
| `ReceiveCreate`, `ReceiveLookup`, `ReceiveUnrecognised` | `recv` in `receive_data`, `decode_instruction`, `call_function_based_on_string` |
| `PingNode` | a turn of `update_nodes_status` |
| `CheckNode`, `AddNode`, `BumpLoad`, `NextNode` | a turn of `get_node_list`: availability, slot and load of `num_files++`, store, end of the turn |
| `ReadIndex`, `Publish`, `ReadCounter`, `WriteCounter` | `masterlib.c:33-34` |
| `PrintFile` | a turn of `print_node_list_per_file`, which reads `file_counter` again each time |
| `ReplyCreate`, `ReplyLookup` | `generate_cf_response` and `send` |

`FreshCounts` is what `malloc` may leave in `num_files`, which nobody sets.
`Unreliable` are hosts whose ping may fail. `CodeTerminated` says whether the byte
behind `instruction_code[2]` may or may not be NUL: `strcmp` reads it. `StaleIds` are
ids asked for that this master never gave. `replies` is history.

The memory of a list that came out short is taken as fresh from the kernel, that is
zero: its missing entries are NULL. Ids below zero and beyond the table, and unset
rows, are faults. The AF, NF and DF stubs change nothing and no client sends them.

**`ReplicaTable.tla`** is what the master promises: a table that only grows, one row
per file; a creation is answered once, with a complete row and its index; a lookup is
answered with the row as it was created. `Master` implements it when one connection
is served at a time (`ImplementsTable`, refinement `table` = the rows below
`file_counter`, `answers` = `replies`).

### Storage node (`StorageNode.tla`)

`FindEntry` and `PassEntry` are the search loop of `get_file_index` and `check_cache`.
`ClaimEntry`, `ClearEntry`, `TakeIndex`, `LoadIndex`, `StoreIndex` are lines 82-86, a
statement each. `CountChunks` to `StoreCount` are `write_chunk` from line 149.
`EchoChunk` is the debug output of lines 158-160, kept because it dereferences the
chunk at the position of the id just received. It prints at most as many bytes as were
stored (the precision `payload_length-14`), so for a chunk of no bytes (`NoBytes`, what
`create_chunks` makes of an empty line) it looks up the entry and follows no pointer.
`FetchChunk` is line 128.

A chunk's data is a member of `Payloads`, `Blank` (fresh from malloc) or `Wild` (the
pointer `memset(files, -1, ...)` leaves). `Measured` is `strlen`: what is in `Clean`
comes back as written, anything else comes back cut or with bytes behind it
(`Garbled`). A request is received whole (see 5). `log` is history: every request
served, with its position and how many were served when it came.

`Writers` are the threads whose client writes. With one writer, readers may still run
at every point of a write.

**`ChunkStore.tla`** is what a node promises while one connection writes: a list of
chunks per file (`stored`), to which the end of a write appends; a read of a position in
the list is answered with that chunk; a read of the position behind it only while a write
to that file is in progress (`arriving`), with its chunk or a buffer not filled yet. Any other read is
answered with nothing. `StorageNode` implements it (`ImplementsStore`): `StoredFiles` are
the chunks each entry counts, `ArrivingWrites` the write past its `malloc`, `answers` =
`log`. So `AllocChunk` is `Arrive`, `StoreCount` is `Write`, `FetchChunk` is a read, and
everything else, the search and the claim included, is a stutter.

### Accept loop (`AcceptLoop.tla`)

`Accept` and `Spawn` are separate, and `CopySocket` is the thread's read of
`new_socket`, whenever it runs. `Lowest` is the kernel's choice of a descriptor.
`CloseSocket` closes whatever the number stands for by then. The client connects,
sends at once, waits for the answer and closes, as `request_master_create_file`,
`send_read_request_to_server` and `read_chunk` do. `GiveUp` is the end of a thread of the
master at `masterlib.c:146-149`: no response for a code it does not recognise
(`ReceiveUnrecognised` of `Master`), `send` fails, neither answer nor close. The client is
left in `recv`, its descriptor is never used again, and the connection ends only when
somebody stops the program (`Stopped`).

### Chunking (`Chunking.tla`)

`CreateFile` is the size arithmetic of `create_file`: `ToInt` keeps the low bits of a
long, one is subtracted, and `Quotient` rounds towards zero as C does. `DivideChunk`
is a turn of the loop of `divide_file_into_chunks`, `FailRead` its error path with the
NULL dereference it leads to. `TypeLine`, `TakeRest` and `EndOfInput` are a turn of
`create_chunks`: `fgets` takes at most `CHUNK_SIZE - 1` characters, the last one taken
is dropped, and the rest of the line stays for the next turn. Bytes are their
positions, so a chunk is a stretch of the file and the properties speak of what is
covered, without contents.

### The client's sessions (`Rdfs.tla`)

Client, master and nodes together. An action is one exchange; each server takes one
request at a time, since `Master`, `StorageNode` and `AcceptLoop` are the models of what
goes on inside.

| definition | code |
|---|---|
| `CreateFile`, `OpenFails` | `create_file` up to its first connection, with the master's answer; the `fopen` error, which returns 0, a file id |
| `AppendFile`, `ReadChunk` | `append_file`, `read_chunk` up to the first connection: `check_cache`, else `RF` |
| `Unheard` | a request the master drops (`masterlib.c:93-95`, `146-149`): the client waits in `recv` (`clientlib.c:259`, `293`) until the master stops, and then goes on with a buffer of zeros (`Resumes`) |
| `Connect`, `PassNode`, `EndCall` | the loop over the nodes, its skip of a node that refuses, its end |
| `SendChunk`, `SendFails` | a turn of the send loop, with the node's `write_chunk` or its absence |
| `AskChunk`, `AskMissing`, `AskFails` | one question of `read_chunk`: the chunk is there, is not, or the node is gone |
| `Crash`, `Restart`, `MasterCrash`, `MasterRestart` | a server stops; it starts with the empty table of its `main` |

What decides the outcomes:

- A node that stops breaks its connections. The first message after that is lost or
  fails, a failure returns -1 out of the loop over the nodes (`clientlib.c:437`); a
  second message meets the reset and kills the client (SIGPIPE).
- With too few hosts the master dies, as in `Master`, and the client decodes a buffer of
  zeros: file 0, on addresses no connection reaches. A lookup of an id the master has no
  row for kills it too.
- A cache entry never used has id 0 and NULL nodes, so it answers for file 0 and kills
  the client, unless the program overwrites `files[]` first, as `application.c` does.
  `Cleared` are the clients that do.
- A chunk is stored at the next position whatever its id; then the debug output of
  `write_chunk` prints the chunk at the position of the id and kills the node when that is
  not there. An empty chunk prints nothing and kills nobody (`EchoSafe`): a node that was
  started again keeps it, at the place of another.
- No answer to a question leaves `buffer` as it was: what `read_chunk` lists then is
  junk (data 0), and the first time its length may kill the client.

The n-th chunk handed over for a file is the number n, so a chunk in the wrong place is
seen; `blank` are the numbers of those without a byte. Only appended chunks can be: a
bare newline, or the one left over behind a line of `CHUNK_SIZE - 1` characters. `content`, `gave`, `known`, `steady`, `cut` and `reads` are history. `known`, what
the program takes as stored, also chooses its next append and read; `application.c`
starts appending at 1 instead, and both are enabled. A client that restarts is another
member of `Clients`, with an empty cache.

Left out: two clients that write at once (`StorageNode` shows that they must not), the
end of the cache's `MAX_FILES` entries, the length of contents and of what comes back
(`Measured` in `StorageNode`: an empty chunk comes back `Garbled` there, as whatever bytes
lie behind it).

### Framing (`ChunkStream.tla`)

One connection from `send_chunks_to_nodes` to `client_handler`. A byte is its place in
the stream, a message a stretch of 14 to 44 bytes. `SendMessage` and `Close` are the
client's, `ServeMessage`, `ServePiece` and `EndOfInput` a turn of the node's loop: `recv`
returns what has come, up to 44 bytes, and whatever is behind the first message in the
buffer is wiped. `paced` remembers whether every send found all earlier bytes taken,
which is what `sleep(1)` at line 443 is for. One send arrives as one piece.

The model shows when the pause is needed: not for the chunks of `create_file`, which
fill the buffer up to the last one (`Full`), but for appended lines, which are shorter.

### Mutants

Beside the definitions they replace, the modules hold mutated forms (marked
*Mutant* in their comments): a forgotten bound, a lost increment, a second close. Each
property of a passing run is violated under one of them. No behaviour uses them.

## 3. The runs

| run | module, cfg | bounds | result |
|---|---|---|---|
| `master_serial` | `MCMaster`, `MasterSerial.cfg` | 1 thread, 5 nodes, 3 replicas, 2 files a node, 4 rows, 5 requests | passes |
| `master_concurrent` | `MasterConcurrent.cfg` | 2 threads, 3 nodes, 2 replicas, 2 files a node, 3 rows, 3 requests | passes |
| `master_race` | `MasterRace.cfg` | as above, 2 requests | `FreshFileIds` violated |
| `master_shortage` | `MasterShortage.cfg` | as `master_serial` | `SurvivesShortage` violated |
| `storage_one_writer` | `MCStorageNode`, `StorageOneWriter.cfg` | 2 threads, 1 writes; 2 entries, 3 files; 2 chunks an entry, 3 ids; 3 requests | passes |
| `storage_two_writers` | `StorageTwoWriters.cfg` | 2 writers, 2 requests | `WritesKept` violated |
| `accept_one_client` | `MCAcceptLoop`, `AcceptOneClient.cfg` | 1 client, 6 connections | passes |
| `accept_two_clients` | `AcceptTwoClients.cfg` | 2 clients, 2 connections | `OneThreadPerConnection` violated |
| `chunking` | `MCChunking`, `Chunking.cfg` | chunks of 3 bytes, an int of 32 values, files of 0 to 40 bytes, lines of 1 to 5, up to 3 chunks typed | passes |
| `rdfs` | `MCRdfs`, `Rdfs.cfg` | 3 nodes, 2 replicas, 2 files, 2 clients of which 1 clears `files[]`, up to 2 chunks a call of which the first may be empty, 3 calls, 1 crash and any number of restarts | passes |
| `chunk_stream` | `MCChunkStream`, `ChunkStream.cfg` | header 3, data up to 3 bytes, 5 messages | passes |
| `chunking_last_byte` | `ChunkingLastByte.cfg` | files of 0 to 7 bytes | `EveryByteStored` violated |

**Why the bounds are enough.** `master_serial` has the node counts of the source; two
files a node and a node that starts full make capacity run out within the five
requests, and three requests are the fewest after which a node must be passed over.
Two threads are enough for every race between two accesses, and three requests let one
thread finish and start again in the middle of another's. In `storage_one_writer` there
is one file more than entries and one chunk id more than positions, so the table and an
entry both overflow, and three requests are two writes and the read that compares them.
One client and six connections let several threads of old connections be anywhere in
their end while a new one is accepted. In `chunking` a size goes past the largest int,
past the number of ints, and through every remainder of the chunk size. In `rdfs` three
calls are a creation, an append and a read, or a second creation in place of either; two
replicas of three nodes let one be missed and another take over, two files let a
restarted master give an id again, and the crash falls between any two exchanges. Of the
lines of an append the first may be empty (`EmptyLines`): an empty chunk, alone, before
one with bytes, or behind those of an earlier call. With three
header and three data bytes a buffer can hold two short messages, or the end of one and
all of the next; five messages are two buffers and a
rest.

**Properties.** Master: `FreshFileIds`, `AnswersStayTrue`, `NoNodeOverAssigned`,
`DistinctReplicas`, `DiesOnlyShortOfNodes` (the only way to die, and the list came out
short although no usable node was passed over), `ImplementsTable`, `RequestsEnd`.
Storage node: `OneEntryPerFile`, `WritesKept`, `ReadsReturnWrites`, `DiesOnlyOnMisuse`
(the complete list of fatal requests), `ImplementsStore`, `RequestsEnd`. Accept loop:
`OneThreadPerConnection`, `ClosesOnlyLeft`, `EveryRequestTaken` (answered, or dropped by
the thread that serves the connection). Chunking:
`InsideTable`, `ReadsInsideFile`, `CutBeforeLastByte`, `LinesAreChunks`. Sessions:
`ChunksInPlace` and `ReadsAreRight` under any crashes, for files whose chunks were
numbered by their place; `SteadyReplicas` for a file whose id was given once and no call
on which was cut short; `CalmRunsHold` without faults, which is where `application.c`
stands; `CallsReturn`, for calls the master has answered and, once it has stopped, for the
others. Framing: `OnceInOrder`, `MessagesWhole`, `AllServed`. Each is
stated in words above its definition.

That a node keeps no chunk out of its place is not by design: a node that missed chunks
stores the next ones too early, but the debug output behind the store follows a pointer
that is not there, and the node dies first. The exception shows how thin this is: an
empty chunk prints nothing, so a node that was started again survives it and holds it, say
chunk 2 at position 0. `ChunksInPlace` and `ReadsAreRight` say that this is all: a read may get
such a chunk for another, but never a chunk with a byte in it.
A request the master drops is lost for its client: `EveryRequestTaken` counts it as taken
and `CallsReturn` promises nothing before the master has stopped; both say that other
requests, calls and connections do not suffer from it.
The hypotheses are needed. When a restarted master gives an id again, chunks of two files
share the id and are numbered twice (not `InOrder`), and a node that was not there for
the first holds the second at its beginning; a reader meets this in a fourth call. An
error on one replica ends the call for the others (`f \notin cut`), and an id given
twice has replicas of two creations (`Sole`): either way a replica that never stopped may
hold less than `known`. An append numbered 1 to a file without chunks kills its nodes in
a calm run (`NotAhead`), as `application.c` would for an empty file.

**Fairness.** `WF` on the steps of a thread that serves a request, on `main`'s two
steps, and on the close of a client that has its answer; in `Rdfs` on the steps of a
client inside a call and on its going on when a master it waits for has stopped, in `ChunkStream` on the node's handler while `recv` has something
to return: the kernel schedules runnable threads, and no such step waits for anything
but processor time (a step of `Rdfs` with a dead node is one that fails). Nothing is
assumed about clients sending requests, so no run needs a request to come, nor that anyone
stops a program or a master somebody waits for. Deadlock is
not checked because the models stop legitimately: the request bound is reached, a
server has died, or nobody connects.

### What the failing runs show

- `master_race`: two creations at once both read `file_counter` and get one id
  (`README.md:35` promises concurrent connections).
- `master_shortage`: when failed pings and full nodes leave fewer than three, the short
  list that `linkedlist.c:137` notices ("Nodes are Busy") is dereferenced by
  `print_node_list_per_file`.
- `storage_two_writers`: two connections share `chunk_counter` or the entry
  `global_file_index` names, and a chunk is lost (`README.md:4`).
- `accept_two_clients`: the second accept overwrites `new_socket` before the first
  thread has read it (`README.md:35`).
- `chunking_last_byte`: the last byte is dropped even when it is not a newline
  (`README.md:23`).

## 4. The proofs

Every safety invariant and every action property of the passing runs is a theorem, and so
are the refinements of `ReplicaTable` and `ChunkStore`. Liveness is not (below).

| theorem | of | hypotheses beside the module's assumption |
|---|---|---|
| `MasterTypeCorrect`, `StorageTypeCorrect`, `AcceptTypeCorrect`, `ChunkingTypeCorrect`, `StreamTypeCorrect`, `RdfsTypeCorrect` | `[]TypeOK` | none |
| `MasterDistinctReplicas` | `[]DistinctReplicas` | none: any number of threads |
| `MasterFreshFileIds`, `MasterAnswersStayTrue` | `[]FreshFileIds`, `AnswersStayTrue` | `Serial` |
| `MasterImplementsTable` | `ImplementsTable`: `Spec` implements `ReplicaTable` | `Serial` |
| `MasterNoNodeOverAssigned` | `[]NoNodeOverAssigned` | `Serial`, `CountsFromZero` |
| `MasterDiesOnlyShortOfNodes` | `[]DiesOnlyShortOfNodes` | `Serial`, `CountsFromZero`, `NodesFillFirst` |
| `StorageOneEntryPerFile`, `StorageWritesKept`, `StorageReadsReturnWrites`, `StorageDiesOnlyOnMisuse` | the invariants of these names | `SingleWriter`, any number of readers |
| `StorageImplementsStore` | `ImplementsStore`: `Spec` implements `ChunkStore` | `SingleWriter`, any number of readers |
| `AcceptOneThreadPerConnection`, `AcceptClosesOnlyLeft` | `[]OneThreadPerConnection`, `ClosesOnlyLeft` | `Alone` |
| `ChunkingInsideTable`, `ChunkingReadsInsideFile`, `ChunkingCutBeforeLastByte`, `ChunkingLinesAreChunks` | the invariants of these names | none |
| `RdfsChunksInPlace`, `RdfsReadsAreRight`, `RdfsSteadyReplicas`, `RdfsCalmRunsHold` | the invariants of these names | none: any number of clients, nodes, calls, crashes |
| `StreamOnceInOrder`, `StreamMessagesWhole` | the invariants of these names | none |

All hold for every value of the constants that satisfies the module's assumption
(`MasterAssumption`, `StorageAssumption`, `AcceptAssumption`, `ChunkingAssumption`,
`RdfsAssumption`, `StreamAssumption`: types, at least one node and entry, replicas among
the nodes, the marks of `StorageNode` not payloads, a chunk of two bytes or more, a header
of one). TLC evaluates the assumptions in the runs.

The hypotheses:

- `Serial`: one thread at most, and no stale ids. `master_race` shows that
  `FreshFileIds` needs it.
- `CountsFromZero`: what `malloc` leaves in `num_files` is not negative. Nothing in the
  code sets it; memory fresh from the kernel is zero. A node whose count starts below zero is given
  that many files too many.
- `NodesFillFirst`: `MAX_NODES * MAX_NODE_FILES < MAX_NODES_ASSIGNED * MAX_FILES`, which
  is 5 * 20 < 3 * 1000 in the source and 10 < 12 in `master_serial`. Without it the file table may fill first, and
  its end is another way to die.
- `SingleWriter`: at most one connection writes. `storage_two_writers` shows that it
  cannot be dropped.
- `Alone`: one client at most. `accept_two_clients` shows that it cannot be dropped.

**Master** (`MasterProofs.tla`). `DistinctReplicas` is not inductive: it says nothing of
a list under construction. `WalkInv` adds that a thread's `avail` rises strictly and,
from `add` on, lies below the loop index, and that every published row has been made so;
the status and load other threads change do not occur in it. `RowInv` is for the serial
theorems: it ties the program counter of the one thread to `file_counter` and the rows
above and below it, so that between `publish` and `counted` the row exists but is not
counted, and at `reply` the id to be sent is that of the last row and was never sent.

**Master, one at a time** (`MasterSerialProofs.tla`). *Refinement*: the table of
`ReplicaTable` is the rows below `file_counter` (`CountedRows`), so `WriteCounter` is the
step that adds a row, `ReplyCreate` and `ReplyLookup` are the steps that answer, and
every other step stutters; that a reply carries a complete row is `ShortInv` (no list is
longer than `MAX_NODES_ASSIGNED`, whatever the threads do) with `RowInv`. *Capacity*: `LoadInv`
counts against a node the files of the table and, while a list that takes the node is
being built, the next one (`Held`); that number never exceeds `num_files`, and `num_files`
stays within the slots once anything is held. *Death*: `WatchInv` says that a list being
built has taken every usable node it passed (`Passed`), and that every row is full but
perhaps the last, which is then being printed. What is left is the end of the table, and `ReplicasFit` shows
that it is never reached: F full rows put F * A different (row, place) pairs into N * M
(node, slot) pairs, an injection, so F * A <= N * M.

**Storage node** (`StorageNodeProofs.tla`). `PlaceInv` has three parts. `RoleInv`:
only the writer is ever outside the search and the fetch. `TableInv`: the entries above `global_file_index` are as
`memset` left them, the one at it is free unless the writer is claiming it, and no two
have the same file id. `Placed`: what the writer knows at each of its steps, such as that
no entry below its search index holds its file, and that the chunk it fills is at
`num_chunks` of its file's entry. So a step never touches a chunk below `num_chunks`
(`Keeps`), and what the log says of ended writes stays true.
`ReadInv` is the same for a reader, whose search runs while the table changes: a file
that was written before the read came is in no entry the search has passed, because the
entry was there by then and a file never gets another one. So the search finds it, the
fetch is from the file's entry, and `WritesKept` says what is there. `DataInv`: no chunk
an entry counts, and none a write is working on past its `malloc`, is the wild pointer of
the memset. With these each place where the model can fault is one that
`DiesOnlyOnMisuse` lists.
*Refinement*: only `StoreCount` changes what a file holds, by one chunk (`ChunksStay`,
`CountAppends`): a new entry counts -1 and then 0 chunks, both of them an empty list.
That a read is one of `ChunkStore` needs `FreshInv`: a chunk with memory is blank until it
is filled (`FreshFirst`), and behind the chunks an entry counts there is nothing but the
wild pointer, except at the next position while a write is there (`Beyond`). So whatever a reader
finds behind the end of the list comes from the one write in progress.

**Accept loop** (`AcceptLoopProofs.tla`). `TypeInv` adds to the types that `new_socket`
is a descriptor whenever something may read it. For one client `AloneInv` says that at most one connection waits
between `connect` and the read of `new_socket` (`OnePending`), that it stands under
exactly one descriptor which no thread works on (`PendingAsked`), and that a
thread at work has an open descriptor of its own, whose client has left by the time the
thread closes it (`OwnSocket`). The kernel gives out a number again only when it is
closed, so a thread that is late to close never meets the next connection under its number.

**Chunking** (`ChunkingProofs.tla`). `Cutting`: position and remaining size add up to
`file_size`, and while something remains the position is the number of chunks times the
chunk size. `QuotientBound` turns that into the bound on the array, `ToIntBound` gives
what the conversion to int does to a size. `LinesAreChunks` is inductive once nothing is
typed before `create_chunks` (`Untyped`).

**Sessions** (`RdfsProofs.tla`, `RdfsSteadyProofs.tla`). `PrefixInv`: one program writes at a
time, its `base`, `next` and `chunks` are the end of `content` (`WriterPlace`), no list names a node
twice, and in a file numbered by place every replica holds at each position p the chunk p
or an empty one, and no more chunks than were handed over (`Prefix`). A chunk that would
be stored too early carries an id beyond the node's end: it is empty, or `EchoSafe` fails.
`SteadyInv` follows the replicas that never stopped: before the
writer's node they hold all of the call, at it all that was sent, behind it all up to the
call (`WriterKeeps`); lists in caches and in the master's rows are lists that were given
(`Given`); a link that broke leads to no such replica (`BrokenNotSteady`). `CalmInv`
adds, for runs without faults, that links are whole, that every replica is steady and
every known chunk there. `FileNodes` and `Known` choose the least entry; `LeastNumber`
supplies it, from the well-foundedness of < and without induction.

**Framing** (`ChunkStreamProofs.tla`). `StreamInv`: messages lie end to end (`Layout`);
the start of a served message has been taken (`Behind`), which alone gives
`OnceInOrder`; and if sends were paced or all but the last message are full, what has
been taken ends between two messages (`Place`). For the paced case one must also know
that at most one message waits (`OneWaits`): then a `recv` returns all of it. For full
ones a `recv` returns `BUFFER_SIZE` bytes, which is one message, however many wait.

**Only model-checked**: liveness (`RequestsEnd` of both servers, `EveryRequestTaken`,
`CallsReturn`, `AllServed`), which needs fairness and so ENABLED, and which the prover
does not handle. The properties that runs violate are not theorems, of course: `FreshFileIds` and
`WritesKept` with two threads, `OneThreadPerConnection` with two clients,
`SurvivesShortage`, `EveryByteStored`.

## 5. Not modelled

- Code without a caller: `get_file_index` and `create_payload` of `clientlib.c`,
  `decode_payload` of `masterlib.c`, `removeNode` of `linkedlist.c`; and the stubs for
  AF, NF and DF, which no client asks for.
- A TCP stream that splits one `send`: a message fits a segment.
- Requests to the master and reads on a shared stream: each is answered before the next
  is sent, so nothing can run together. Their answers are taken whole.
- Races inside a server while a client's call is in progress: `Rdfs` has atomic servers,
  and `Master`, `StorageNode` and `AcceptLoop` no crashes.
- A chunk torn in the middle: the `memcpy` of line 156 is one step, and so is the
  measuring and copying of `read_chunk`. A read that names the chunk being written may
  get part of it, where the model says all of it or what `malloc` left.
- Byte layouts of messages: both ends copy the same fields at the same offsets.
- The failure of `socket`, `bind`, `listen`, `accept`, `pthread_create`: the process ends.
- Memory beyond a fault. Data races are modelled at the grain of single accesses in
  program order; what an optimising compiler may reorder is not.

## 6. Plan

Done, in this order: `ReplicaTable`, `Master`, `MasterProofs`, `StorageNode`,
`StorageNodeProofs`, `AcceptLoop`, `Chunking`, `ChunkingProofs`, `Rdfs`, `ChunkStream`,
`ChunkStreamProofs`, `RdfsProofs`, `RdfsSteadyProofs`, `MasterSerialProofs`,
`AcceptLoopProofs`, `ChunkStore`.

Next: the safety half of the liveness properties, such as a bound on the turns of each
loop; a `read_chunk` that measures, measures again and copies in steps of its own.

## 7. Running

    tlc -config MasterSerial.cfg MCMaster.tla
    tlapm MasterProofs.tla

Each cfg names its bounds; every passing run takes seconds, `rdfs` two to three minutes, the
proofs of a module seconds to a few minutes.
