-------------------------------- MODULE Rdfs --------------------------------
(***************************************************************************)
(* The client library (clientlib.c) at work with the master and the        *)
(* storage nodes: which replicas a write reaches, which one a read asks,   *)
(* what a client remembers, while nodes and master stop and start again    *)
(* with empty tables.                                                      *)
(*                                                                         *)
(* An action is one exchange: a request to the master and its answer, a    *)
(* connection, one chunk sent or asked for.  Inside the servers, Master,   *)
(* StorageNode and AcceptLoop are the models; here each serves one request *)
(* at a time.  What is written is a number: the n-th chunk clients hand    *)
(* over for a file is n, whatever chunk id it is given; blank are those    *)
(* without a byte.                                                         *)
(***************************************************************************)
EXTENDS Integers, Sequences, FiniteSets

CONSTANTS
  Clients,
  Cleared,            \* clients that set files[] to -1 as application.c does
  MAX_NODES, MAX_NODES_ASSIGNED,
  Unreliable,         \* nodes the master may find unreachable or full
  MaxFiles, MaxChunks, MaxCalls, MaxFaults, \* bounds
  EmptyLines          \* bound: which of the lines of a call may be empty

Nodes == 0 .. MAX_NODES - 1
FileIds == 0 .. MaxFiles - 1

ASSUME RdfsAssumption ==
  /\ Cleared \subseteq Clients
  /\ MAX_NODES \in Nat /\ MAX_NODES_ASSIGNED \in 1 .. MAX_NODES
  /\ Unreliable \subseteq Nodes
  /\ MaxFiles \in Nat \ {0} /\ MaxChunks \in Nat /\ MaxCalls \in Nat /\ MaxFaults \in Nat
  /\ EmptyLines \subseteq Nat \ {0}

VARIABLES
  masterUp, rows,   \* the master: rows[f + 1] are the nodes of file f
  running, disk,    \* the nodes: node -> file -> the chunks of its entry
  cache,            \* files[] of each client: the entries create_file made
  job,              \* the call each client is in
  blank,            \* file -> its chunks that are empty lines
  \* history
  content,          \* file -> the chunk ids handed over for it, in order
  gave,             \* file -> the node lists create_file had with its id
  known,            \* file -> its chunks when a call on it last returned, or -1
  steady,           \* file -> its replicas that never stopped since create_file
  cut,              \* files a call on which ended before its last replica
  reads,            \* what read_chunk returned
  calls, faults

servers == <<masterUp, rows, running, disk>>
history == <<blank, content, gave, known, steady, cut, reads>>
vars == <<servers, cache, job, history, calls, faults>>

NodeList == Seq(Nodes)

(* chunks are the ids to send or ask for, chunks[1] the base-th handed     *)
(* over; at the replica, next the chunk it gets next.  A link is broken    *)
(* when its node has stopped, reset when the client's kernel knows.        *)
Job == [op : {"idle", "waiting", "write", "read", "dead"}, file : FileIds, nodes : NodeList,
        at : Nat \ {0}, chunks : Seq(Nat), base : Nat \ {0}, next : Nat \ {0},
        link : {"none", "up", "broken", "reset"}]
Idle == [op |-> "idle", file |-> 0, nodes |-> << >>, at |-> 1, chunks |-> << >>,
         base |-> 1, next |-> 1, link |-> "none"]

TypeOK ==
  /\ masterUp \in BOOLEAN
  /\ rows \in Seq(NodeList) /\ Len(rows) <= MaxFiles
  /\ running \in [Nodes -> BOOLEAN]
  /\ disk \in [Nodes -> [FileIds -> Seq(Nat)]]
  /\ cache \in [Clients -> Seq([id : FileIds, nodes : NodeList])]
  /\ job \in [Clients -> Job]
  /\ \A c \in Clients :
       IF job[c].link = "none" THEN job[c].next = 1
       ELSE job[c].at \in DOMAIN job[c].nodes /\ job[c].next \in DOMAIN job[c].chunks
  /\ blank \in [FileIds -> SUBSET Nat]
  /\ content \in [FileIds -> Seq(Nat)]
  /\ gave \in [FileIds -> Seq(NodeList)]
  /\ known \in [FileIds -> Nat \cup {-1}]
  /\ steady \in [FileIds -> SUBSET Nodes]
  /\ cut \subseteq FileIds
  /\ reads \subseteq [file : FileIds, chunk : Nat, data : Nat]
  /\ calls \in 0 .. MaxCalls /\ faults \in 0 .. MaxFaults

Empty == [f \in FileIds |-> << >>]

Init ==
  /\ masterUp = TRUE /\ rows = << >>
  /\ running = [n \in Nodes |-> TRUE] /\ disk = [n \in Nodes |-> Empty]
  /\ cache = [c \in Clients |-> << >>] /\ job = [c \in Clients |-> Idle]
  /\ blank = [f \in FileIds |-> {}] /\ content = Empty /\ gave = Empty /\ known = [f \in FileIds |-> -1]
  /\ steady = [f \in FileIds |-> {}] /\ cut = {} /\ reads = {}
  /\ calls = 0 /\ faults = 0

-----------------------------------------------------------------------------
(* Helpers                                                                 *)

Target(c) == job[c].nodes[job[c].at]
Item(c) == job[c].chunks[job[c].next]
Number(c) == job[c].base + job[c].next - 1
IsBlank(c) == Number(c) \in blank[job[c].file]
Entry(c) == disk[Target(c)][job[c].file]

(* A call may begin; or one that waits for the master goes on, because the *)
(* master is gone and recv has come back with nothing.  Two clients never  *)
(* write at once: StorageNode shows why they must not.                     *)
Calls(c, op) ==
  /\ \/ job[c].op = "idle" /\ calls < MaxCalls /\ calls' = calls + 1
     \/ job[c].op = "waiting" /\ ~masterUp /\ UNCHANGED calls
  /\ op = "write" => \A d \in Clients : job[d].op # "write"
  /\ UNCHANGED faults

Begin(c, op, f, nodes, chunks) ==
  job' = [job EXCEPT ![c] = [Idle EXCEPT !.op = op, !.file = f, !.nodes = nodes,
                               !.chunks = chunks, !.base = Len(content[f]) + 1]]

(* n chunks numbered from id on.                                           *)
Ids(id, n) == [k \in 1 .. n |-> id + k - 1]

(* The chunks at the places lines are without a byte.                      *)
HandOver(f, chunks, lines) ==
  /\ content' = [content EXCEPT ![f] = @ \o chunks]
  /\ blank' = [blank EXCEPT ![f] = @ \cup {Len(content[f]) + k : k \in lines}]

(* The connections to node n break: the client will see it when it sends.  *)
Broken(jobs, n) ==
  [c \in Clients |-> IF jobs[c].link = "up" /\ jobs[c].nodes[jobs[c].at] = n
                     THEN [jobs[c] EXCEPT !.link = "broken"] ELSE jobs[c]]

(* Node n is gone with everything it held.                                 *)
NodeStops(n) ==
  /\ running' = [running EXCEPT ![n] = FALSE]
  /\ disk' = [disk EXCEPT ![n] = Empty]
  /\ steady' = [f \in FileIds |-> steady[f] \ {n}]

(* The client is done with a replica: send_chunks_to_nodes goes to the     *)
(* next one.  Mutant: the others are given up.                             *)
NextNodeNone(c) == [job[c] EXCEPT !.at = Len(job[c].nodes) + 1, !.next = 1, !.link = "none"]
NextNode(c) == [job[c] EXCEPT !.at = @ + 1, !.next = 1, !.link = "none"]

(* The call returns to the program, which takes all of it as stored.       *)
Returns(c) ==
  /\ job' = [job EXCEPT ![c] = Idle]
  /\ known' = IF job[c].op = "write"
              THEN [known EXCEPT ![job[c].file] = Len(content[job[c].file])] ELSE known

Dies(c) == job' = [job EXCEPT ![c] = [Idle EXCEPT !.op = "dead"]]

-----------------------------------------------------------------------------
(* create_file, append_file and read_chunk up to their first connection    *)

(* The buffer of zeros a client decodes when no answer came: file 0, on    *)
(* nodes no connection reaches.                                            *)
Zeros == [id |-> 0, nodes |-> << >>]

Enough(hosts) == masterUp /\ Cardinality(hosts) >= MAX_NODES_ASSIGNED

(* The first nodes of the node list whose hosts answered.                  *)
FirstNodes(hosts) ==
  {list \in [1 .. MAX_NODES_ASSIGNED -> hosts] :
     /\ \A x, y \in DOMAIN list : x < y => list[x] < list[y]
     /\ \A h \in hosts, x \in DOMAIN list : h < list[x] => \E y \in DOMAIN list : list[y] = h}

(* What the client decodes: the next id and those nodes; if they were too  *)
(* few, the master has died.                                               *)
Created(hosts) ==
  IF Enough(hosts) THEN {[id |-> Len(rows), nodes |-> list] : list \in FirstNodes(hosts)}
  ELSE {Zeros}

CreateFile(c) ==
  /\ Calls(c, "write")
  /\ \E hosts \in SUBSET Nodes, n \in 0 .. MaxChunks : \E answer \in Created(hosts) :
       LET f == answer.id  nodes == answer.nodes
       IN /\ Nodes \ hosts \subseteq Unreliable
          /\ f \in FileIds
          /\ masterUp' = Enough(hosts)
          /\ rows' = IF Enough(hosts) THEN Append(rows, nodes) ELSE rows
          /\ cache' = [cache EXCEPT ![c] = Append(@, answer)]
          /\ Begin(c, "write", f, nodes, Ids(0, n))
          /\ HandOver(f, Ids(0, n), {})
          /\ gave' = [gave EXCEPT ![f] = Append(@, nodes)]
          /\ steady' = [steady EXCEPT ![f] = {nodes[k] : k \in {l \in DOMAIN nodes : running[nodes[l]]}}]
  /\ UNCHANGED <<running, disk, known, cut, reads>>

(* The master does not recognise the code, or cannot send: its thread ends *)
(* with neither an answer nor a close, and the client stays in recv for as *)
(* long as the master runs.  Which call it made shows when it goes on.     *)
Unheard(c) ==
  /\ Calls(c, "read") /\ masterUp
  /\ job' = [job EXCEPT ![c] = [Idle EXCEPT !.op = "waiting"]]
  /\ UNCHANGED <<servers, cache, history>>

(* The file cannot be opened: create_file returns 0, which the program     *)
(* takes for a file id.                                                    *)
OpenFails(c) ==
  /\ job[c].op = "idle" /\ Calls(c, "write")
  /\ known' = [known EXCEPT ![0] = IF @ < 0 THEN 0 ELSE @]
  /\ gave' = [gave EXCEPT ![0] = Append(@, Zeros.nodes)]
  /\ UNCHANGED <<servers, cache, job, blank, content, steady, cut, reads>>

(* check_cache: the first entry with the id.  An entry never used has id 0 *)
(* and no nodes, unless the program has overwritten them all.              *)
Cached(c, f) == {k \in DOMAIN cache[c] : cache[c][k].id = f}

(* Mutant: every client's unused entries match.                            *)
MatchesUnusedAlways(c, f) == Cached(c, f) = {} /\ f = 0
MatchesUnused(c, f) == Cached(c, f) = {} /\ f = 0 /\ c \notin Cleared

Known(f) == masterUp /\ f < Len(rows)

(* The nodes of file f, from the cache or the master.                      *)
FileNodes(c, f) ==
  IF Cached(c, f) # {}
  THEN cache[c][CHOOSE k \in Cached(c, f) : \A l \in Cached(c, f) : k <= l].nodes
  ELSE IF Known(f) THEN rows[f + 1] ELSE Zeros.nodes

(* A lookup of an id the master has no row for kills it.                   *)
LookUp(c, f) == masterUp' = (masterUp /\ (Cached(c, f) # {} \/ Known(f)))

(* A call that has waited is one that asked.                               *)
Asked(c, f) == job[c].op = "waiting" => Cached(c, f) = {} /\ ~MatchesUnused(c, f)

(* The program counts the file's chunks, or starts at 1 as application.c;  *)
(* lines typed may be empty.                                               *)
AppendFile(c) ==
  /\ Calls(c, "write")
  /\ \E f \in FileIds, n \in 1 .. MaxChunks : \E id \in {known[f], 1}, lines \in SUBSET (EmptyLines \cap 1 .. n) :
       /\ known[f] >= 0 /\ Asked(c, f)
       /\ IF MatchesUnused(c, f)
          THEN Dies(c) /\ UNCHANGED <<masterUp, blank, content>>
          ELSE /\ Begin(c, "write", f, FileNodes(c, f), Ids(id, n))
               /\ HandOver(f, Ids(id, n), lines)
               /\ LookUp(c, f)
  /\ UNCHANGED <<rows, running, disk, cache, gave, known, steady, cut, reads>>

(* The program reads chunks it takes to be there, one or several.          *)
ReadChunk(c) ==
  /\ Calls(c, "read")
  /\ \E f \in FileIds : \E k \in 0 .. known[f] - 1 : \E n \in 1 .. known[f] - k :
       /\ Asked(c, f)
       /\ IF MatchesUnused(c, f)
          THEN Dies(c) /\ UNCHANGED masterUp
          ELSE Begin(c, "read", f, FileNodes(c, f), Ids(k, n)) /\ LookUp(c, f)
  /\ UNCHANGED <<rows, running, disk, cache, history>>

-----------------------------------------------------------------------------
(* send_chunks_to_nodes and read_chunk, one exchange with a node at a time *)

Trying(c) == job[c].op \in {"write", "read"} /\ job[c].link = "none"

(* Mutant: a connection is used although there is nothing to send.         *)
UsesLinkAlways(c) == job[c].op \in {"write", "read"}
UsesLink(c) == job[c].chunks # << >>

Connect(c) ==
  /\ Trying(c) /\ job[c].at <= Len(job[c].nodes) /\ running[Target(c)]
  /\ job' = [job EXCEPT ![c] = IF UsesLink(c) THEN [@ EXCEPT !.link = "up"] ELSE NextNode(c)]
  /\ UNCHANGED <<servers, cache, history, calls, faults>>

(* Mutant: the same node is tried until it is back.                        *)
PassNodeNever(c) ==
  /\ Trying(c) /\ job[c].at <= Len(job[c].nodes) /\ ~running[Target(c)]
  /\ UNCHANGED vars

PassNode(c) ==
  /\ Trying(c) /\ job[c].at <= Len(job[c].nodes) /\ ~running[Target(c)]
  /\ job' = [job EXCEPT ![c] = NextNode(c)]
  /\ UNCHANGED <<servers, cache, history, calls, faults>>

(* All replicas are done; or none let the reader in, and NULL is returned. *)
EndCall(c) ==
  /\ Trying(c) /\ job[c].at > Len(job[c].nodes)
  /\ Returns(c)
  /\ cut' = IF job[c].op = "write" /\ job[c].nodes = << >> THEN cut \cup {job[c].file} ELSE cut
  /\ UNCHANGED <<servers, cache, blank, content, gave, steady, reads, calls, faults>>

(* A chunk is stored at the next position, whatever its id.                *)
write_chunk(entry, chunk) == Append(entry, chunk)

(* The debug output of write_chunk then prints the chunk at the position   *)
(* of the id, as many bytes of it as were stored: an empty one prints      *)
(* nothing, from whatever address.  Mutant: nothing is printed.            *)
EchoSafeAlways(entry, id, empty) == empty \/ id >= 0
EchoSafe(entry, id, empty) == empty \/ id <= Len(entry)

AfterChunk(c) ==
  IF job[c].next < Len(job[c].chunks) THEN [job[c] EXCEPT !.next = @ + 1] ELSE NextNode(c)

SendChunk(c) ==
  /\ job[c].op = "write" /\ job[c].link = "up"
  /\ IF EchoSafe(Entry(c), Item(c), IsBlank(c))
     THEN /\ disk' = [disk EXCEPT ![Target(c)][job[c].file] = write_chunk(@, Number(c))]
          /\ job' = [job EXCEPT ![c] = AfterChunk(c)]
          /\ UNCHANGED <<running, steady>>
     ELSE NodeStops(Target(c)) /\ job' = Broken([job EXCEPT ![c] = AfterChunk(c)], Target(c))
  /\ UNCHANGED <<masterUp, rows, cache, blank, content, gave, known, cut, reads, calls, faults>>

(* To a node that has stopped, the first message after its end is lost, or *)
(* send fails and -1 is returned; the next raises SIGPIPE.                 *)
SendFails(c) ==
  /\ job[c].op = "write" /\ job[c].link \in {"broken", "reset"}
  /\ \/ /\ job[c].link = "broken"
        /\ job' = [job EXCEPT ![c] = IF job[c].next < Len(job[c].chunks)
                                     THEN [AfterChunk(c) EXCEPT !.link = "reset"]
                                     ELSE AfterChunk(c)]
        /\ UNCHANGED <<known, cut>>
     \/ job[c].link = "broken" /\ Returns(c) /\ cut' = cut \cup {job[c].file}
     \/ job[c].link = "reset" /\ Dies(c) /\ cut' = cut \cup {job[c].file} /\ UNCHANGED known
  /\ UNCHANGED <<servers, cache, blank, content, gave, steady, reads, calls, faults>>

(* What read_chunk puts in its list: data 0 stands for anything but a      *)
(* chunk.  The connection stays for the next question.                     *)
Got(c, data) == reads' = reads \cup {[file |-> job[c].file, chunk |-> Item(c), data |-> data]}
AfterAnswer(c, link) ==
  IF job[c].next < Len(job[c].chunks) THEN [job[c] EXCEPT !.next = @ + 1, !.link = link] ELSE Idle
NextQuestion(c, link) == [job EXCEPT ![c] = AfterAnswer(c, link)]

(* The chunk at the position of the id.  Mutant: the last one.             *)
read_chunk_last(entry, k) == entry[Len(entry)]
read_chunk(entry, k) == entry[k + 1]

AskChunk(c) ==
  /\ job[c].op = "read" /\ job[c].link = "up"
  /\ Item(c) < Len(Entry(c))
  /\ Got(c, read_chunk(Entry(c), Item(c)))
  /\ job' = NextQuestion(c, "up")
  /\ UNCHANGED <<servers, cache, blank, content, gave, known, steady, cut, calls, faults>>

(* No answer: the first chunk's length is taken from an unset buffer, which*)
(* may kill the client, that of a later one from zeros.                    *)
NoAnswer(c, jobs) ==
  \/ job' = jobs /\ Got(c, 0)
  \/ job[c].next = 1 /\ job' = [jobs EXCEPT ![c] = [Idle EXCEPT !.op = "dead"]] /\ UNCHANGED reads

(* The node has no such chunk: it follows a wild pointer and stops, or,    *)
(* for a file it does not know, answers with memory before its table.      *)
AskMissing(c) ==
  /\ job[c].op = "read" /\ job[c].link = "up"
  /\ Item(c) >= Len(Entry(c))
  /\ \/ NodeStops(Target(c)) /\ NoAnswer(c, Broken(NextQuestion(c, "up"), Target(c)))
     \/ /\ Entry(c) = << >> /\ Got(c, 0) /\ job' = NextQuestion(c, "up")
        /\ UNCHANGED <<running, disk, steady>>
  /\ UNCHANGED <<masterUp, rows, cache, blank, content, gave, known, cut, calls, faults>>

AskFails(c) ==
  /\ job[c].op = "read" /\ job[c].link \in {"broken", "reset"}
  /\ \/ job[c].link = "broken" /\ NoAnswer(c, NextQuestion(c, "reset"))
     \/ job[c].link = "broken" /\ job' = [job EXCEPT ![c] = Idle] /\ UNCHANGED reads
     \/ job[c].link = "reset" /\ Dies(c) /\ UNCHANGED reads
  /\ UNCHANGED <<servers, cache, blank, content, gave, known, steady, cut, calls, faults>>

-----------------------------------------------------------------------------
(* Faults                                                                  *)

Crash(n) ==
  /\ running[n] /\ faults < MaxFaults /\ faults' = faults + 1
  /\ NodeStops(n)
  /\ job' = Broken(job, n)
  /\ UNCHANGED <<masterUp, rows, cache, blank, content, gave, known, cut, reads, calls>>

(* memset(files, -1, ...): the table is empty, the links stay broken.      *)
Restart(n) ==
  /\ ~running[n]
  /\ running' = [running EXCEPT ![n] = TRUE]
  /\ UNCHANGED <<masterUp, rows, disk, cache, job, history, calls, faults>>

MasterCrash ==
  /\ masterUp /\ faults < MaxFaults /\ faults' = faults + 1
  /\ masterUp' = FALSE
  /\ UNCHANGED <<rows, running, disk, cache, job, history, calls>>

(* Its table is empty and its ids begin at 0 again.  By then the kernel    *)
(* has closed the connections of the old one.                              *)
MasterRestart ==
  /\ ~masterUp /\ \A c \in Clients : job[c].op # "waiting"
  /\ masterUp' = TRUE /\ rows' = << >>
  /\ UNCHANGED <<running, disk, cache, job, history, calls, faults>>

Step(c) ==
  \/ Connect(c) \/ PassNode(c) \/ EndCall(c)
  \/ SendChunk(c) \/ SendFails(c) \/ AskChunk(c) \/ AskMissing(c) \/ AskFails(c)

Next ==
  \/ \E c \in Clients : \/ CreateFile(c) \/ OpenFails(c) \/ AppendFile(c) \/ ReadChunk(c)
                       \/ Unheard(c) \/ Step(c)
  \/ \E n \in Nodes : Crash(n) \/ Restart(n)
  \/ MasterCrash \/ MasterRestart

Spec == Init /\ [][Next]_vars

(* recv comes back when the master has stopped.                            *)
Resumes(c) == job[c].op = "waiting" /\ (CreateFile(c) \/ AppendFile(c) \/ ReadChunk(c))

(* The kernel runs a client in a call; no step of it waits for another,    *)
(* but for recv from the master.                                           *)
FairSpec == Spec /\ \A c \in Clients : WF_vars(Step(c)) /\ WF_vars(Resumes(c))

-----------------------------------------------------------------------------
(* What holds                                                              *)

(* One create_file was given the id.                                       *)
Sole(f) == Len(gave[f]) = 1

(* Chunks were numbered by their place in the file ...                     *)
InOrder(f) == \A p \in DOMAIN content[f] : content[f][p] = p - 1

(* ... or, as application.c may do, lower.                                 *)
NotAhead(f) == \A p \in DOMAIN content[f] : content[f][p] < p

(* Whatever crashes and restarts: a chunk with a byte in it is never held  *)
(* at another place than its own, although a node that missed chunks takes *)
(* the next: the debug output of write_chunk kills it.  Empty chunks it    *)
(* does not print, and keeps.                                              *)
ChunksInPlace ==
  \A f \in FileIds : InOrder(f) =>
    \A n \in Nodes : \A p \in DOMAIN disk[n][f] : disk[n][f][p] \in {p} \cup blank[f]

(* So a reader gets from a node's table the chunk it asked for, whichever  *)
(* replica let it in, or in its place at worst an empty one.               *)
ReadsAreRight ==
  \A r \in reads : InOrder(r.file) => r.data \in {0, r.chunk + 1} \cup blank[r.file]

(* A replica that has not stopped since the file was created holds all     *)
(* that calls on it have stored, although other replicas came and went,    *)
(* unless a call was cut short by an error on an earlier replica.  One it  *)
(* numbered too high stops the replica instead.                            *)
SteadyReplicas ==
  \A f \in FileIds : Sole(f) /\ f \notin cut =>
    \A n \in steady[f] : Len(disk[n][f]) >= known[f]

(* No fault so far, and enough hosts for every file.                       *)
Calm == faults = 0 /\ \A f \in FileIds : << >> \notin {gave[f][k] : k \in DOMAIN gave[f]}

(* While it is calm and no chunk has an id ahead of its place, no server   *)
(* stops, no program that has cleared files[] dies, and every read is      *)
(* answered with the chunk at that place.                                  *)
CalmRunsHold ==
  Calm /\ (\A f \in FileIds : NotAhead(f)) =>
    /\ masterUp /\ \A n \in Nodes : running[n]
    /\ \A c \in Cleared : job[c].op # "dead"
    /\ \A r \in reads : r.data = r.chunk + 1

(* Every call the master has answered returns or kills its program,        *)
(* whatever stops meanwhile.  One whose request the master dropped does    *)
(* once the master has stopped; before that it need not.                   *)
CallsReturn ==
  \A c \in Clients :
    (\/ job[c].op \in {"write", "read"}
     \/ job[c].op = "waiting" /\ ~masterUp) ~> job[c].op \in {"idle", "dead"}
=============================================================================
