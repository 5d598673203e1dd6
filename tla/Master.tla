------------------------------- MODULE Master -------------------------------
(***************************************************************************)
(* The master server: masterlib.c (one thread per client connection, the   *)
(* file table files_nodes and its counter) and linkedlist.c (the storage   *)
(* nodes, their ping status and load, the choice of replicas).             *)
(*                                                                         *)
(* The threads share every global without a lock, so an action is one      *)
(* access to shared memory: a C increment is a load and a store, and a     *)
(* check and the update it guards are different actions.  Steps that touch *)
(* only a thread's own stack are folded into the access that follows.      *)
(***************************************************************************)
EXTENDS Integers, Sequences, FiniteSets

CONSTANTS
  Threads,            \* connection threads (receive_data)
  MAX_NODES,          \* storage nodes the master knows (5 in the source)
  MAX_NODES_ASSIGNED, \* replicas per file (3)
  MAX_NODE_FILES,     \* files a node may be assigned (20)
  MAX_FILES,          \* slots of files_nodes (1000)
  FreshCounts,        \* what malloc may leave in the num_files nobody sets
  Unreliable,         \* nodes whose host may fail to answer a ping
  CodeTerminated,     \* may the byte after instruction_code[2] be a NUL?
  StaleIds,           \* ids asked for that this master never gave: from before
                      \* a restart, or the 0 create_file returns on an error
  MaxRequests         \* bound on the requests of a behaviour

Nodes == 0 .. MAX_NODES - 1

ASSUME MasterAssumption ==
  /\ MAX_NODES \in Nat \ {0}
  /\ MAX_NODES_ASSIGNED \in 1 .. MAX_NODES
  /\ MAX_NODE_FILES \in Nat
  /\ MAX_FILES \in Nat
  /\ FreshCounts \subseteq Int
  /\ Unreliable \subseteq Nodes
  /\ CodeTerminated \subseteq BOOLEAN
  /\ StaleIds \subseteq Int
  /\ MaxRequests \in Nat

VARIABLES
  \* shared by the threads
  status,       \* storage_node.status of each node
  num_files,    \* storage_node.num_files of each node
  files_nodes,  \* file id -> nodes of the file; << >> stands for NULL
  file_counter, \* the next file id
  alive,        \* FALSE once a thread has dereferenced NULL or run off a table
  \* one per thread
  pc,           \* where the thread is, see Labels
  i,            \* loop index over the nodes
  avail,        \* available_nodes: the slots set so far
  reg,          \* the value last loaded, or the requested file id
  \* history
  replies       \* the responses the clients have been sent, in order

shared == <<status, num_files, files_nodes, file_counter>>
vars == <<shared, alive, pc, i, avail, reg, replies>>

Labels == {"idle", "ping", "check", "add", "bump", "index", "publish", "count",
           "counted", "print", "reply", "lookup", "returned"}

Reply == [op : {"CF", "RF"}, id : Int, nodes : Seq(Nodes)]

TypeOK ==
  /\ status \in [Nodes -> BOOLEAN]
  /\ num_files \in [Nodes -> Int]
  /\ files_nodes \in [0 .. MAX_FILES - 1 -> Seq(Nodes)]
  /\ file_counter \in Nat
  /\ alive \in BOOLEAN
  /\ pc \in [Threads -> Labels]
  /\ i \in [Threads -> Nodes]
  /\ avail \in [Threads -> Seq(Nodes)]
  /\ reg \in [Threads -> Int]
  /\ \A t \in Threads : pc[t] \in {"publish", "counted", "print"} => reg[t] \in Nat
  /\ replies \in Seq(Reply)

-----------------------------------------------------------------------------
(* Helpers                                                                 *)

Goto(t, label) == pc' = [pc EXCEPT ![t] = label]

(* A NULL or wild pointer is dereferenced: the whole process is gone.      *)
Fault == /\ alive' = FALSE
         /\ UNCHANGED <<shared, pc, i, avail, reg, replies>>

(* Mutants of NextNode: the bound of the loop is forgotten ...             *)
NextNodeUnbounded(t, assigned) ==
  IF assigned = MAX_NODES_ASSIGNED
  THEN Goto(t, "index") /\ UNCHANGED i
  ELSE Goto(t, "check") /\ i' = [i EXCEPT ![t] = @ + 1]

(* ... is one too low ...                                                  *)
NextNodeShort(t, assigned) ==
  IF assigned = MAX_NODES_ASSIGNED \/ i[t] >= MAX_NODES - 2
  THEN Goto(t, "index") /\ UNCHANGED i
  ELSE Goto(t, "check") /\ i' = [i EXCEPT ![t] = @ + 1]

(* ... or the index stays where it is.                                     *)
NextNodeSame(t, assigned) ==
  Goto(t, IF assigned = MAX_NODES_ASSIGNED THEN "index" ELSE "check") /\ UNCHANGED i

(* The loop of get_node_list goes on until the nodes run out or enough are *)
(* assigned.                                                               *)
NextNode(t, assigned) ==
  IF assigned = MAX_NODES_ASSIGNED \/ i[t] = MAX_NODES - 1
  THEN Goto(t, "index") /\ UNCHANGED i
  ELSE Goto(t, "check") /\ i' = [i EXCEPT ![t] = @ + 1]

(* Mutant: the last slot of a node is given twice.                         *)
check_node_availability_full(n) == status[n] /\ num_files[n] <= MAX_NODE_FILES

check_node_availability(n) == status[n] /\ num_files[n] < MAX_NODE_FILES

(* Mutant: a list that came out short is taken for a full one.             *)
ReadableShort(list) == Len(list) > 0

(* The response has room for every replica, and generate_cf_response reads *)
(* all of them.                                                            *)
Readable(list) == Len(list) = MAX_NODES_ASSIGNED

Send(t, op, id, list) ==
  /\ replies' = Append(replies, [op |-> op, id |-> id, nodes |-> list])
  /\ Goto(t, "idle")

(* File ids some client holds.                                             *)
KnownIds == {replies[k].id : k \in 1 .. Len(replies)}

Busy == {t \in Threads : pc[t] # "idle"}

Waiting(t) == pc[t] = "idle" /\ Len(replies) + Cardinality(Busy) < MaxRequests

-----------------------------------------------------------------------------
(* receive_data: recv, decode_instruction, call_function_based_on_string   *)

Init ==
  /\ status \in [Nodes -> {FALSE}]
  /\ num_files \in [Nodes -> FreshCounts]
  /\ files_nodes = [id \in 0 .. MAX_FILES - 1 |-> << >>]
  /\ file_counter = 0
  /\ alive = TRUE
  /\ pc = [t \in Threads |-> "idle"]
  /\ i = [t \in Threads |-> 0]
  /\ avail = [t \in Threads |-> << >>]
  /\ reg = [t \in Threads |-> 0]
  /\ replies = << >>

ReceiveCreate(t) ==
  /\ Waiting(t)
  /\ TRUE \in CodeTerminated
  /\ Goto(t, "ping")
  /\ i' = [i EXCEPT ![t] = 0]
  /\ avail' = [avail EXCEPT ![t] = << >>]
  /\ UNCHANGED <<shared, alive, reg, replies>>

ReceiveLookup(t) ==
  /\ Waiting(t)
  /\ TRUE \in CodeTerminated
  /\ \E id \in KnownIds \cup StaleIds : reg' = [reg EXCEPT ![t] = id]
  /\ Goto(t, "lookup")
  /\ UNCHANGED <<shared, alive, i, avail, replies>>

(* instruction_code has no terminator, so strcmp may reject any code; the  *)
(* NULL response makes send fail and the thread returns without closing.   *)
ReceiveUnrecognised(t) ==
  /\ Waiting(t)
  /\ FALSE \in CodeTerminated
  /\ Goto(t, "returned")
  /\ UNCHANGED <<shared, alive, i, avail, reg, replies>>

-----------------------------------------------------------------------------
(* function_CF                                                             *)

(* update_nodes_status: one ping, and its result is the node's status.     *)
PingNode(t) ==
  /\ pc[t] = "ping"
  /\ \E up \in (IF i[t] \in Unreliable THEN BOOLEAN ELSE {TRUE}) :
       status' = [status EXCEPT ![i[t]] = up]
  /\ IF i[t] = MAX_NODES - 1
     THEN Goto(t, "check") /\ i' = [i EXCEPT ![t] = 0]
     ELSE UNCHANGED pc /\ i' = [i EXCEPT ![t] = @ + 1]
  /\ UNCHANGED <<num_files, files_nodes, file_counter, alive, avail, reg, replies>>

CheckNode(t) ==
  /\ pc[t] = "check"
  /\ IF check_node_availability(i[t])
     THEN Goto(t, "add") /\ UNCHANGED i
     ELSE NextNode(t, Len(avail[t]))
  /\ UNCHANGED <<shared, alive, avail, reg, replies>>

(* add_node: the slot is set and num_files++ begins ...                    *)
AddNode(t) ==
  /\ pc[t] = "add"
  /\ avail' = [avail EXCEPT ![t] = Append(@, i[t])]
  /\ reg' = [reg EXCEPT ![t] = num_files[i[t]]]
  /\ Goto(t, "bump")
  /\ UNCHANGED <<shared, alive, i, replies>>

(* ... and ends.                                                           *)
BumpLoad(t) ==
  /\ pc[t] = "bump"
  /\ num_files' = [num_files EXCEPT ![i[t]] = reg[t] + 1]
  /\ NextNode(t, Len(avail[t]))
  /\ UNCHANGED <<status, files_nodes, file_counter, alive, avail, reg, replies>>

(* files_nodes[file_counter] = available_nodes: the index is read ...      *)
ReadIndex(t) ==
  /\ pc[t] = "index"
  /\ reg' = [reg EXCEPT ![t] = file_counter]
  /\ Goto(t, "publish")
  /\ UNCHANGED <<shared, alive, i, avail, replies>>

(* ... and the entry written.                                              *)
Publish(t) ==
  /\ pc[t] = "publish"
  /\ IF reg[t] < MAX_FILES
     THEN /\ files_nodes' = [files_nodes EXCEPT ![reg[t]] = avail[t]]
          /\ Goto(t, "count")
          /\ UNCHANGED <<status, num_files, file_counter, alive, i, avail, reg, replies>>
     ELSE Fault

(* file_counter++                                                          *)
ReadCounter(t) ==
  /\ pc[t] = "count"
  /\ reg' = [reg EXCEPT ![t] = file_counter]
  /\ Goto(t, "counted")
  /\ UNCHANGED <<shared, alive, i, avail, replies>>

(* Mutant: the counter is not advanced.                                    *)
WriteCounterLost(t) ==
  /\ pc[t] = "counted"
  /\ reg' = [reg EXCEPT ![t] = 0]
  /\ Goto(t, "print")
  /\ UNCHANGED <<shared, alive, i, avail, replies>>

WriteCounter(t) ==
  /\ pc[t] = "counted"
  /\ file_counter' = reg[t] + 1
  /\ reg' = [reg EXCEPT ![t] = 0]
  /\ Goto(t, "print")
  /\ UNCHANGED <<status, num_files, files_nodes, alive, i, avail, replies>>

(* print_node_list_per_file: each turn of its loop reads the counter again *)
(* and dereferences every replica of one file.                             *)
PrintFile(t) ==
  /\ pc[t] = "print"
  /\ IF reg[t] >= file_counter
     THEN Goto(t, "reply") /\ UNCHANGED <<shared, alive, i, avail, reg, replies>>
     ELSE IF reg[t] < MAX_FILES /\ Readable(files_nodes[reg[t]])
          THEN /\ reg' = [reg EXCEPT ![t] = @ + 1]
               /\ UNCHANGED <<shared, alive, pc, i, avail, replies>>
          ELSE Fault

(* Mutant: the client is told the id after its own.                        *)
ReplyCreateNext(t) ==
  /\ pc[t] = "reply"
  /\ IF Readable(avail[t])
     THEN /\ Send(t, "CF", file_counter, avail[t])
          /\ UNCHANGED <<shared, alive, i, avail, reg>>
     ELSE Fault

(* generate_cf_response(available_nodes, file_counter - 1), then send.     *)
ReplyCreate(t) ==
  /\ pc[t] = "reply"
  /\ IF Readable(avail[t])
     THEN /\ Send(t, "CF", file_counter - 1, avail[t])
          /\ UNCHANGED <<shared, alive, i, avail, reg>>
     ELSE Fault

(* function_RF: the requested id indexes files_nodes unchecked.            *)
ReplyLookup(t) ==
  /\ pc[t] = "lookup"
  /\ IF reg[t] \in 0 .. MAX_FILES - 1 /\ Readable(files_nodes[reg[t]])
     THEN /\ Send(t, "RF", reg[t], files_nodes[reg[t]])
          /\ UNCHANGED <<shared, alive, i, avail, reg>>
     ELSE Fault

-----------------------------------------------------------------------------

Step(t) ==
  /\ alive
  /\ \/ PingNode(t) \/ CheckNode(t) \/ AddNode(t) \/ BumpLoad(t)
     \/ ReadIndex(t) \/ Publish(t) \/ ReadCounter(t) \/ WriteCounter(t)
     \/ PrintFile(t) \/ ReplyCreate(t) \/ ReplyLookup(t)

Receive(t) ==
  /\ alive
  /\ ReceiveCreate(t) \/ ReceiveLookup(t) \/ ReceiveUnrecognised(t)

Next == \E t \in Threads : Receive(t) \/ Step(t)

Spec == Init /\ [][Next]_vars

(* A runnable thread is scheduled; nobody owes the master a request.       *)
FairSpec == Spec /\ \A t \in Threads : WF_vars(Step(t))

-----------------------------------------------------------------------------
(* What holds whatever the threads do                                      *)

(* Every answer names MAX_NODES_ASSIGNED different nodes, in the order of  *)
(* the node list: the walk of get_node_list never offers a node twice and  *)
(* a short list is never sent, even while other threads change the status  *)
(* and load it is reading.                                                 *)
DistinctReplicas ==
  \A k \in 1 .. Len(replies) :
    /\ Len(replies[k].nodes) = MAX_NODES_ASSIGNED
    /\ \A x, y \in 1 .. MAX_NODES_ASSIGNED :
         x < y => replies[k].nodes[x] < replies[k].nodes[y]

(* A request that was received is answered, is dropped by a thread that    *)
(* returned, or dies with the process: no handler loops or waits for ever. *)
RequestsEnd ==
  \A t \in Threads :
    pc[t] \notin {"idle", "returned"} ~> (pc[t] = "idle" \/ ~alive)

(* What holds while one connection is served at a time                     *)

(* No two creations are answered with the same file id.                    *)
FreshFileIds ==
  \A j, k \in 1 .. Len(replies) :
    /\ replies[j].op = "CF"
    /\ replies[k].op = "CF"
    /\ replies[j].id = replies[k].id
    => j = k

(* The nodes a client was told for a file are the nodes the file table     *)
(* holds for it from then on: the client's cache never goes stale.         *)
AnswersStayTrue ==
  \A k \in 1 .. Len(replies) :
    /\ replies[k].id \in 0 .. file_counter - 1
    /\ files_nodes[replies[k].id] = replies[k].nodes

FilesOf(n) ==
  {id \in 0 .. file_counter - 1 :
     \E k \in 1 .. Len(files_nodes[id]) : files_nodes[id][k] = n}

(* The table never holds a node in more files than the node has slots for  *)
(* (MAX_NODE_FILES here is MAX_FILES of storage_node_k.c).                 *)
NoNodeOverAssigned ==
  \A n \in Nodes : Cardinality(FilesOf(n)) <= MAX_NODE_FILES

(* The process dies for one reason only: fewer than MAX_NODES_ASSIGNED     *)
(* nodes were up and had room, and the list that came out short is being   *)
(* printed.  In particular a lookup of a known id never kills it, and no   *)
(* node that could have been taken was passed over.                        *)
DiesOnlyShortOfNodes ==
  ~alive =>
    \E t \in Threads :
      /\ pc[t] = "print"
      /\ Len(avail[t]) < MAX_NODES_ASSIGNED
      /\ \A n \in Nodes :
           check_node_availability(n) => \E k \in 1 .. Len(avail[t]) : avail[t][k] = n

(* The master implements the table its clients rely on.                    *)
Table == INSTANCE ReplicaTable WITH
  Replicas <- MAX_NODES_ASSIGNED,
  table <- [k \in 1 .. file_counter |-> files_nodes[k - 1]],
  answers <- replies

ImplementsTable == Table!TableSpec

(* The master outlives a shortage of nodes: get_node_list foresees it and  *)
(* says "Nodes are Busy".                                                  *)
SurvivesShortage == alive

=============================================================================
