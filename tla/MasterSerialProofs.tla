------------------------- MODULE MasterSerialProofs -------------------------
(***************************************************************************)
(* Theorems about Master while one connection is served at a time, for     *)
(* every number of nodes, replicas, slots and requests: it implements the  *)
(* abstract table of ReplicaTable, gives no node more files than it has    *)
(* slots for, and dies only for want of nodes.                             *)
(***************************************************************************)
EXTENDS MasterProofs, FiniteSetTheorems, FunctionTheorems

-----------------------------------------------------------------------------
(* The length of a list of nodes, with any number of threads               *)

(* A walk stops when it has MAX_NODES_ASSIGNED nodes, so no list is longer *)
(* and a thread that looks at a node has room for it.                      *)
ShortInv ==
  /\ \A t \in Threads : Len(avail[t]) <= MAX_NODES_ASSIGNED
  /\ \A t \in Threads :
       pc[t] \in {"check", "add"} => Len(avail[t]) < MAX_NODES_ASSIGNED
  /\ \A id \in 0 .. MAX_FILES - 1 : Len(files_nodes[id]) <= MAX_NODES_ASSIGNED

LEMMA ShortStep == TypeOK /\ WalkInv /\ ShortInv /\ [Next]_vars => ShortInv'
<1> SUFFICES ASSUME TypeOK, WalkInv, ShortInv, [Next]_vars PROVE ShortInv'
  OBVIOUS
<1>0. /\ MAX_NODES_ASSIGNED \in Nat /\ MAX_NODES_ASSIGNED >= 1
      /\ pc \in [Threads -> Labels]
      /\ avail \in [Threads -> Seq(Nodes)]
      /\ files_nodes \in [0 .. MAX_FILES - 1 -> Seq(Nodes)]
      /\ \A t \in Threads : Len(avail[t]) \in Nat
  BY MasterAssumption DEF TypeOK
(* Steps that leave the lists alone, and take no thread to a node it has   *)
(* no room for.                                                            *)
<1>1. ASSUME NEW t \in Threads, NEW label, pc' = [pc EXCEPT ![t] = label],
             label \in {"check", "add"} => Len(avail[t]) < MAX_NODES_ASSIGNED,
             avail' = avail, files_nodes' = files_nodes
      PROVE  ShortInv'
  BY <1>0, <1>1 DEF ShortInv
<1>2. ASSUME UNCHANGED <<pc, avail, files_nodes>> PROVE ShortInv'
  BY <1>2 DEF ShortInv
<1>3. ASSUME NEW t \in Threads, NextNode(t, Len(avail[t])), UNCHANGED <<avail, files_nodes>>
      PROVE  ShortInv'
  <2>1. \E label \in {"index", "check"} :
          /\ pc' = [pc EXCEPT ![t] = label]
          /\ label = "check" => Len(avail[t]) # MAX_NODES_ASSIGNED
    BY <1>3 DEF NextNode, Goto
  <2>2. Len(avail[t]) # MAX_NODES_ASSIGNED => Len(avail[t]) < MAX_NODES_ASSIGNED
    BY <1>0 DEF ShortInv
  <2> QED
    BY <1>1, <1>3, <2>1, <2>2
<1>4. ASSUME NEW t \in Threads, Receive(t) PROVE ShortInv'
  <2>1. CASE ReceiveCreate(t)
    <3>1. pc'[t] = "ping" /\ avail'[t] = << >> /\ files_nodes' = files_nodes
          /\ \A u \in Threads \ {t} : pc'[u] = pc[u] /\ avail'[u] = avail[u]
      BY <1>0, <2>1 DEF ReceiveCreate, Goto, shared
    <3> QED
      BY <1>0, <3>1 DEF ShortInv
  <2>2. CASE ReceiveLookup(t) \/ ReceiveUnrecognised(t)
    BY <1>1, <2>2 DEF ReceiveLookup, ReceiveUnrecognised, Goto, shared
  <2> QED
    BY <1>4, <2>1, <2>2 DEF Receive
<1>5. ASSUME NEW t \in Threads, PingNode(t) PROVE ShortInv'
  <2>1. Len(avail[t]) < MAX_NODES_ASSIGNED
    BY <1>0, <1>5 DEF PingNode, WalkInv
  <2> QED
    BY <1>1, <1>2, <1>5, <2>1 DEF PingNode, Goto
<1>6. ASSUME NEW t \in Threads, CheckNode(t) PROVE ShortInv'
  <2>1. Len(avail[t]) < MAX_NODES_ASSIGNED /\ avail' = avail /\ files_nodes' = files_nodes
    BY <1>6 DEF CheckNode, ShortInv, shared
  <2>2. CASE Goto(t, "add")
    BY <1>1, <2>1, <2>2 DEF Goto
  <2>3. CASE NextNode(t, Len(avail[t]))
    BY <1>3, <2>1, <2>3
  <2> QED
    BY <1>6, <2>2, <2>3 DEF CheckNode
<1>7. ASSUME NEW t \in Threads, AddNode(t) PROVE ShortInv'
  <2>1. /\ Len(avail'[t]) = Len(avail[t]) + 1 /\ pc'[t] = "bump" /\ files_nodes' = files_nodes
        /\ \A u \in Threads \ {t} : pc'[u] = pc[u] /\ avail'[u] = avail[u]
    BY <1>0, <1>7 DEF AddNode, Goto, shared, TypeOK
  <2>2. Len(avail[t]) + 1 <= MAX_NODES_ASSIGNED
    BY <1>0, <1>7 DEF AddNode, ShortInv
  <2> QED
    BY <1>0, <2>1, <2>2 DEF ShortInv
<1>8. ASSUME NEW t \in Threads, BumpLoad(t) PROVE ShortInv'
  BY <1>3, <1>8 DEF BumpLoad
<1>9. ASSUME NEW t \in Threads, ReadIndex(t) \/ ReadCounter(t) \/ WriteCounter(t) PROVE ShortInv'
  BY <1>1, <1>9 DEF ReadIndex, ReadCounter, WriteCounter, Goto, shared
<1>10. ASSUME Fault PROVE ShortInv'
  BY <1>2, <1>10 DEF Fault, shared
<1>11. ASSUME NEW t \in Threads, Publish(t) PROVE ShortInv'
  <2>1. CASE reg[t] < MAX_FILES
    <3>1. /\ files_nodes' = [files_nodes EXCEPT ![reg[t]] = avail[t]]
          /\ pc'[t] = "count" /\ avail' = avail
          /\ \A u \in Threads \ {t} : pc'[u] = pc[u]
      BY <1>0, <1>11, <2>1 DEF Publish, Goto
    <3>2. \A id \in 0 .. MAX_FILES - 1 : files_nodes'[id] = files_nodes[id] \/ files_nodes'[id] = avail[t]
      BY <1>0, <3>1
    <3> QED
      BY <3>1, <3>2 DEF ShortInv
  <2> QED
    BY <1>10, <1>11, <2>1 DEF Publish
<1>12. ASSUME NEW t \in Threads, PrintFile(t) PROVE ShortInv'
  BY <1>1, <1>2, <1>10, <1>12 DEF PrintFile, Goto, shared
<1>13. ASSUME NEW t \in Threads, ReplyCreate(t) \/ ReplyLookup(t) PROVE ShortInv'
  BY <1>1, <1>10, <1>13 DEF ReplyCreate, ReplyLookup, Send, Goto, shared
<1>14. CASE UNCHANGED vars
  BY <1>2, <1>14 DEF vars, shared
<1> QED
  BY <1>4, <1>5, <1>6, <1>7, <1>8, <1>9, <1>11, <1>12, <1>13, <1>14 DEF Next, Step

LEMMA ShortInvariant == Spec => []ShortInv
<1>1. Init => ShortInv
  BY MasterAssumption DEF Init, ShortInv
<1> QED
  BY <1>1, ShortStep, MasterTypeCorrect, WalkInvariant, PTL DEF Spec

-----------------------------------------------------------------------------
(* The master implements the abstract table                                *)

(* The row a creation puts in the table names no node twice and is not too *)
(* long.                                                                   *)
LEMMA ListIsRow ==
  ASSUME NEW list \in Seq(Nodes), Climbing(list), Len(list) <= MAX_NODES_ASSIGNED
  PROVE  list \in Table!Rows
<1>1. Len(list) \in 0 .. MAX_NODES_ASSIGNED /\ list \in [1 .. Len(list) -> Nodes]
  BY MasterAssumption
<1>2. list \in UNION {[1 .. n -> Nodes] : n \in 0 .. MAX_NODES_ASSIGNED}
  BY <1>1
<1>3. \A j, k \in DOMAIN list : list[j] = list[k] => j = k
  <2> SUFFICES ASSUME NEW j \in 1 .. Len(list), NEW k \in 1 .. Len(list), list[j] = list[k]
               PROVE  j = k
    OBVIOUS
  <2>1. list[j] \in Int /\ list[k] \in Int
    BY NextIndex
  <2> QED
    BY <2>1 DEF Climbing
<1> QED
  BY <1>2, <1>3 DEF Table!Rows

(* The rows the abstract table sees are those of ids below file_counter.   *)
CountedRows == [k \in 1 .. file_counter |-> files_nodes[k - 1]]

LEMMA CountedRowsSeq ==
  ASSUME TypeOK, RowInv
  PROVE  /\ CountedRows \in Seq(Seq(Nodes)) /\ Len(CountedRows) = file_counter
         /\ \A id \in 0 .. file_counter - 1 : id + 1 \in 1 .. file_counter /\ CountedRows[id + 1] = files_nodes[id]
<1>1. file_counter \in Nat /\ file_counter <= MAX_FILES /\ MAX_FILES \in Nat
  BY MasterAssumption DEF TypeOK, RowInv
<1>2. \A k \in 1 .. file_counter : k - 1 \in 0 .. MAX_FILES - 1 /\ files_nodes[k - 1] \in Seq(Nodes)
  BY <1>1 DEF TypeOK
<1> QED
  BY <1>1, <1>2 DEF CountedRows

LEMMA TableStep ==
  ASSUME Serial, TypeOK, WalkInv, ShortInv, RowInv, TypeOK', RowInv', [Next]_vars
  PROVE  [Table!TableNext]_(Table!tableVars)
<1>0. file_counter \in Nat
  BY DEF TypeOK
<1>1. ASSUME UNCHANGED <<files_nodes, file_counter, replies>>
      PROVE  UNCHANGED Table!tableVars
  BY <1>1 DEF Table!tableVars
<1>2. CASE UNCHANGED vars
  BY <1>1, <1>2 DEF vars, shared
<1>3. ASSUME NEW t \in Threads, Receive(t) PROVE UNCHANGED Table!tableVars
  BY <1>1, <1>3 DEF Receive, ReceiveCreate, ReceiveLookup, ReceiveUnrecognised, shared
<1>4. ASSUME NEW t \in Threads,
             PingNode(t) \/ CheckNode(t) \/ AddNode(t) \/ BumpLoad(t)
               \/ ReadIndex(t) \/ ReadCounter(t) \/ PrintFile(t) \/ Fault
      PROVE  UNCHANGED Table!tableVars
  BY <1>1, <1>4 DEF PingNode, CheckNode, AddNode, BumpLoad, ReadIndex, ReadCounter,
                    PrintFile, Fault, shared
(* The new row is written where the table does not yet reach ...           *)
<1>5. ASSUME NEW t \in Threads, Publish(t), ~Fault PROVE UNCHANGED Table!tableVars
  <2>1. /\ files_nodes' = [files_nodes EXCEPT ![file_counter] = avail[t]]
        /\ UNCHANGED <<file_counter, replies>>
    BY <1>5 DEF Publish, RowInv
  <2>2. \A k \in 1 .. file_counter : files_nodes'[k - 1] = files_nodes[k - 1]
    BY <1>0, <2>1 DEF TypeOK
  <2> QED
    BY <2>1, <2>2 DEF Table!tableVars
(* ... and enters it when it is counted.                                   *)
<1>6. ASSUME NEW t \in Threads, WriteCounter(t) PROVE Table!Register
  <2>1. /\ file_counter' = file_counter + 1
        /\ files_nodes' = files_nodes /\ replies' = replies
        /\ file_counter < MAX_FILES /\ files_nodes[file_counter] = avail[t]
    BY <1>6 DEF WriteCounter, RowInv
  <2>2. avail[t] \in Table!Rows
    <3>1. avail[t] \in Seq(Nodes) /\ Climbing(avail[t]) /\ Len(avail[t]) <= MAX_NODES_ASSIGNED
      BY DEF TypeOK, WalkInv, ShortInv
    <3> QED
      BY <3>1, ListIsRow
  <2>3. CountedRows' = Append(CountedRows, avail[t])
    <3>1. CountedRows \in Seq(Seq(Nodes)) /\ Len(CountedRows) = file_counter
      BY CountedRowsSeq
    <3>2. CountedRows' = [k \in 1 .. file_counter + 1 |-> files_nodes[k - 1]]
      BY <2>1 DEF CountedRows
    <3>3. \A k \in 1 .. file_counter + 1 :
            files_nodes[k - 1] = IF k = file_counter + 1 THEN avail[t] ELSE CountedRows[k]
      BY <1>0, <2>1 DEF CountedRows
    <3>4. Append(CountedRows, avail[t]) =
            [k \in 1 .. file_counter + 1 |-> IF k = file_counter + 1 THEN avail[t] ELSE CountedRows[k]]
      BY <1>0, <3>1
    <3> QED
      BY <3>2, <3>3, <3>4
  <2> QED
    BY <2>1, <2>2, <2>3 DEF Table!Register, CountedRows
(* An answer tells a row of the table, complete ...                        *)
<1>7. ASSUME NEW t \in Threads, NEW op, NEW id \in 0 .. file_counter - 1,
             Readable(files_nodes[id]), Send(t, op, id, files_nodes[id]),
             UNCHANGED <<files_nodes, file_counter>>
      PROVE  Table!Answer(op, id) /\ Table!Complete(id) /\ id \in Table!FileIds
  <2>1. Len(CountedRows) = file_counter /\ CountedRows[id + 1] = files_nodes[id]
    BY CountedRowsSeq
  <2> QED
    BY <1>7, <2>1 DEF Table!Answer, Table!Complete, Table!FileIds, Send, Readable, CountedRows
(* ... and to a creator the last one, which nobody was told yet.           *)
<1>8. ASSUME NEW t \in Threads, ReplyCreate(t), ~Fault PROVE Table!AnswerCreate
  <2> DEFINE id == file_counter - 1
  <2>1. /\ id \in 0 .. file_counter - 1
        /\ files_nodes[id] = avail[t]
        /\ \A k \in 1 .. Len(replies) : replies[k].op = "CF" => replies[k].id # id
    BY <1>0, <1>8 DEF ReplyCreate, RowInv
  <2> HIDE DEF id
  <2>2. Table!Answer("CF", id) /\ Table!Complete(id) /\ id \in Table!FileIds
    BY <1>7, <1>8, <2>1 DEF ReplyCreate, shared, id
  <2>3. ~Table!Answered(id)
    BY <2>1 DEF Table!Answered
  <2> QED
    BY <2>2, <2>3 DEF Table!AnswerCreate
<1>9. ASSUME NEW t \in Threads, ReplyLookup(t), ~Fault PROVE Table!AnswerLookup
  <2>1. reg[t] \in 0 .. file_counter - 1
    BY <1>9 DEF ReplyLookup, RowInv
  <2> QED
    BY <1>7, <1>9, <2>1 DEF ReplyLookup, shared, Table!AnswerLookup
<1> QED
  BY <1>2, <1>3, <1>4, <1>5, <1>6, <1>8, <1>9 DEF Next, Step, Table!TableNext

(* One connection at a time, the master does what ReplicaTable says its    *)
(* clients may rely on: rows are only added, each is told to one creator,  *)
(* and read as it was created.                                             *)
THEOREM MasterImplementsTable ==
  ASSUME Serial
  PROVE  Spec => ImplementsTable
<1>1. Init => Table!TableInit
  <2> SUFFICES ASSUME Init PROVE Table!TableInit
    OBVIOUS
  <2>1. file_counter = 0 /\ replies = << >>
    BY DEF Init
  <2>2. [k \in 1 .. file_counter |-> files_nodes[k - 1]] = << >>
    BY <2>1
  <2> QED
    BY <2>1, <2>2 DEF Table!TableInit
<1>2. TypeOK /\ WalkInv /\ ShortInv /\ RowInv /\ TypeOK' /\ RowInv' /\ [Next]_vars
      => [Table!TableNext]_(Table!tableVars)
  BY TableStep
<1> QED
  BY <1>1, <1>2, MasterTypeCorrect, WalkInvariant, ShortInvariant, RowInvariant, PTL
     DEF Spec, ImplementsTable, Table!TableSpec

-----------------------------------------------------------------------------
(* No node is given more files than it has slots for                       *)

Takes(t, n) == \E k \in 1 .. Len(avail[t]) : avail[t][k] = n

(* A thread has counted a file against node n which the table does not yet *)
(* hold.                                                                   *)
Pending(n) ==
  \E t \in Threads :
    /\ pc[t] \in {"check", "add", "bump", "index", "publish", "count", "counted"}
    /\ Takes(t, n)
    /\ ~(pc[t] = "bump" /\ n = i[t])

(* The files counted against a node: those of the table and the next one.  *)
Held(n) == FilesOf(n) \cup {id \in {file_counter} : Pending(n)}

(* What makes NoNodeOverAssigned inductive: the count of a node covers its *)
(* files, and is within its slots if there are any, whatever it started    *)
(* from; a thread that takes a node found a slot and still has its count.  *)
LoadInv ==
  /\ \A n \in Nodes :
       /\ Cardinality(Held(n)) <= num_files[n]
       /\ Held(n) # {} => num_files[n] <= MAX_NODE_FILES
  /\ \A t \in Threads : pc[t] \in {"add", "bump"} => num_files[i[t]] < MAX_NODE_FILES
  /\ \A t \in Threads : pc[t] = "bump" => reg[t] = num_files[i[t]]

LEMMA HeldFinite ==
  ASSUME TypeOK, NEW n
  PROVE  /\ IsFiniteSet(FilesOf(n)) /\ IsFiniteSet(Held(n))
         /\ Cardinality(FilesOf(n)) \in Nat /\ Cardinality(Held(n)) \in Nat
         /\ Cardinality(FilesOf(n)) <= Cardinality(Held(n))
<1>1. file_counter \in Nat
  BY DEF TypeOK
<1>2. IsFiniteSet(0 .. file_counter)
  BY <1>1, FS_Interval
<1>3. FilesOf(n) \in SUBSET Held(n) /\ Held(n) \in SUBSET (0 .. file_counter)
  BY <1>1 DEF FilesOf, Held
<1>4. IsFiniteSet(Held(n))
  BY <1>2, <1>3, FS_Subset
<1> QED
  BY <1>3, <1>4, FS_Subset, FS_CardinalityType

LEMMA OneMore ==
  ASSUME NEW S, IsFiniteSet(S), NEW x
  PROVE  /\ IsFiniteSet(S \cup {x})
         /\ Cardinality(S \cup {x}) \in Nat
         /\ Cardinality(S \cup {x}) <= Cardinality(S) + 1
<1>1. /\ IsFiniteSet(S \cup {x})
      /\ Cardinality(S \cup {x}) = IF x \in S THEN Cardinality(S) ELSE Cardinality(S) + 1
  BY FS_AddElement
<1>2. Cardinality(S) \in Nat
  BY FS_CardinalityType
<1> QED
  BY <1>1, <1>2

(* A step that counts no file anew and adds none to the table.             *)
LEMMA QuietLoad ==
  ASSUME TypeOK, LoadInv, UNCHANGED <<num_files, file_counter>>,
         \A n \in Nodes : FilesOf(n)' = FilesOf(n) /\ (Pending(n)' => Pending(n)),
         \A t \in Threads : pc'[t] \in {"add", "bump"} =>
           num_files[i'[t]] < MAX_NODE_FILES /\ (pc'[t] = "bump" => reg'[t] = num_files[i'[t]])
  PROVE  LoadInv'
<1>1. ASSUME NEW n \in Nodes
      PROVE  Cardinality(Held(n)') <= num_files[n] /\ (Held(n)' # {} => num_files[n] <= MAX_NODE_FILES)
  <2>1. Held(n)' \in SUBSET Held(n)
    BY DEF Held
  <2>2. IsFiniteSet(Held(n)) /\ Cardinality(Held(n)) \in Nat
    BY HeldFinite
  <2>3. Cardinality(Held(n)') <= Cardinality(Held(n)) /\ Cardinality(Held(n)') \in Nat
    BY <2>1, <2>2, FS_Subset, FS_CardinalityType
  <2>4. num_files[n] \in Int
    BY DEF TypeOK
  <2> QED
    BY <2>1, <2>2, <2>3, <2>4 DEF LoadInv
<1> QED
  BY <1>1 DEF LoadInv

LEMMA LoadStep ==
  ASSUME Serial, TypeOK, WalkInv, RowInv, LoadInv, [Next]_vars
  PROVE  LoadInv'
<1>0. /\ pc \in [Threads -> Labels] /\ i \in [Threads -> Nodes]
      /\ avail \in [Threads -> Seq(Nodes)] /\ reg \in [Threads -> Int]
      /\ num_files \in [Nodes -> Int] /\ file_counter \in Nat
      /\ files_nodes \in [0 .. MAX_FILES - 1 -> Seq(Nodes)]
  BY DEF TypeOK
(* The only thread leaves its list and what it has counted as they are.    *)
<1>1. ASSUME NEW t \in Threads, UNCHANGED <<num_files, files_nodes, file_counter, avail>>,
             pc'[t] \notin {"add", "bump"}, pc[t] # "bump",
             \/ pc[t] \in {"check", "add", "index", "publish", "count", "counted"}
             \/ pc'[t] \notin {"check", "index", "publish", "count", "counted"}
             \/ avail[t] = << >>
      PROVE  LoadInv'
  <2>1. \A u \in Threads : u = t
    BY DEF Serial
  <2>2. \A n \in Nodes : FilesOf(n)' = FilesOf(n)
    BY <1>1 DEF FilesOf
  <2>3. \A n \in Nodes : Pending(n)' => Pending(n)
    BY <1>1, <2>1 DEF Pending, Takes
  <2> QED
    BY <1>1, <2>1, <2>2, <2>3, QuietLoad
<1>2. ASSUME NEW t \in Threads, Receive(t) PROVE LoadInv'
  <2>1. CASE ReceiveCreate(t)
    <3>1. \A u \in Threads : u = t /\ pc'[u] = "ping"
      BY <1>0, <2>1 DEF ReceiveCreate, Serial, Goto
    <3>2. UNCHANGED <<num_files, files_nodes, file_counter>>
      BY <2>1 DEF ReceiveCreate, shared
    <3>3. \A n \in Nodes : FilesOf(n)' = FilesOf(n) /\ ~Pending(n)'
      BY <3>1, <3>2 DEF FilesOf, Pending
    <3> QED
      BY <3>1, <3>2, <3>3, QuietLoad
  <2>2. CASE ReceiveLookup(t) \/ ReceiveUnrecognised(t)
    <3>1. pc'[t] \in {"lookup", "returned"} /\ pc[t] = "idle"
      BY <1>0, <2>2 DEF ReceiveLookup, ReceiveUnrecognised, Waiting, Goto
    <3> QED
      BY <1>1, <2>2, <3>1 DEF ReceiveLookup, ReceiveUnrecognised, shared
  <2> QED
    BY <1>2, <2>1, <2>2 DEF Receive
<1>3. ASSUME NEW t \in Threads, PingNode(t) PROVE LoadInv'
  <2>1. avail[t] = << >> /\ pc[t] = "ping" /\ pc'[t] \in {"ping", "check"}
    BY <1>0, <1>3 DEF PingNode, WalkInv, Goto
  <2> QED
    BY <1>1, <1>3, <2>1 DEF PingNode
<1>4. ASSUME NEW t \in Threads, CheckNode(t) PROVE LoadInv'
  <2>1. CASE check_node_availability(i[t])
    <3>1. /\ pc[t] = "check" /\ num_files[i[t]] < MAX_NODE_FILES
          /\ \A u \in Threads : u = t /\ pc'[u] = "add"
          /\ UNCHANGED <<num_files, files_nodes, file_counter, i, avail>>
      BY <1>0, <1>4, <2>1 DEF CheckNode, Serial, Goto, shared, check_node_availability
    <3>2. \A n \in Nodes : FilesOf(n)' = FilesOf(n) /\ (Pending(n)' => Pending(n))
      BY <3>1 DEF FilesOf, Pending, Takes
    <3> QED
      BY <3>1, <3>2, QuietLoad
  <2>2. CASE ~check_node_availability(i[t])
    <3>1. pc[t] = "check" /\ pc'[t] \in {"check", "index"}
      BY <1>0, <1>4, <2>2 DEF CheckNode, NextNode, Goto
    <3> QED
      BY <1>1, <1>4, <3>1 DEF CheckNode, shared
  <2> QED
    BY <2>1, <2>2
<1>5. ASSUME NEW t \in Threads, AddNode(t) PROVE LoadInv'
  <2>1. /\ pc[t] = "add" /\ num_files[i[t]] < MAX_NODE_FILES
        /\ \A u \in Threads : u = t /\ pc'[u] = "bump" /\ reg'[u] = num_files[i[u]]
        /\ avail'[t] = Append(avail[t], i[t])
        /\ UNCHANGED <<num_files, files_nodes, file_counter, i>>
    BY <1>0, <1>5 DEF AddNode, Serial, Goto, shared, LoadInv
  <2>2. ASSUME NEW n \in Nodes, Pending(n)' PROVE Pending(n)
    <3>1. n # i[t] /\ \E k \in 1 .. Len(avail'[t]) : avail'[t][k] = n
      BY <2>1, <2>2 DEF Pending, Takes
    <3>2. \E k \in 1 .. Len(avail[t]) : avail[t][k] = n
      BY <1>0, <2>1, <3>1
    <3> QED
      BY <2>1, <3>2 DEF Pending, Takes
  <2>3. \A n \in Nodes : FilesOf(n)' = FilesOf(n)
    BY <2>1 DEF FilesOf
  <2> QED
    BY <2>1, <2>2, <2>3, QuietLoad
(* A node is counted: one file more, which was not counted before.         *)
<1>6. ASSUME NEW t \in Threads, BumpLoad(t) PROVE LoadInv'
  <2>1. /\ pc[t] = "bump" /\ num_files[i[t]] < MAX_NODE_FILES
        /\ num_files' = [num_files EXCEPT ![i[t]] = @ + 1]
        /\ \A u \in Threads : u = t /\ pc'[u] \in {"check", "index"}
        /\ UNCHANGED <<files_nodes, file_counter, avail>>
    BY <1>0, <1>6 DEF BumpLoad, NextNode, Serial, Goto, LoadInv
  <2>2. \A n \in Nodes : FilesOf(n)' = FilesOf(n)
    BY <2>1 DEF FilesOf
  <2>3. ASSUME NEW n \in Nodes
        PROVE  Cardinality(Held(n)') <= num_files'[n] /\ (Held(n)' # {} => num_files'[n] <= MAX_NODE_FILES)
    <3>1. CASE n # i[t]
      <4>1. Pending(n)' => Pending(n)
        BY <2>1, <3>1 DEF Pending, Takes
      <4>2. Held(n)' \in SUBSET Held(n) /\ num_files'[n] = num_files[n]
        BY <1>0, <2>1, <2>2, <3>1, <4>1 DEF Held
      <4>3. IsFiniteSet(Held(n)) /\ Cardinality(Held(n)) \in Nat
        BY HeldFinite
      <4>4. Cardinality(Held(n)') <= Cardinality(Held(n)) /\ Cardinality(Held(n)') \in Nat
        BY <4>2, <4>3, FS_Subset, FS_CardinalityType
      <4> QED
        BY <1>0, <4>2, <4>3, <4>4 DEF LoadInv
    <3>2. CASE n = i[t]
      <4>1. Held(n)' \in SUBSET (FilesOf(n) \cup {file_counter})
        BY <2>1, <2>2 DEF Held
      <4>2. IsFiniteSet(FilesOf(n)) /\ Cardinality(FilesOf(n)) \in Nat
            /\ Cardinality(FilesOf(n)) <= Cardinality(Held(n)) /\ Cardinality(Held(n)) \in Nat
        BY HeldFinite
      <4>3. /\ IsFiniteSet(FilesOf(n) \cup {file_counter})
            /\ Cardinality(FilesOf(n) \cup {file_counter}) <= Cardinality(FilesOf(n)) + 1
            /\ Cardinality(FilesOf(n) \cup {file_counter}) \in Nat
        BY <4>2, OneMore
      <4>4. Cardinality(Held(n)') <= Cardinality(FilesOf(n)) + 1
        <5>1. Cardinality(Held(n)') <= Cardinality(FilesOf(n) \cup {file_counter})
              /\ Cardinality(Held(n)') \in Nat
          BY <4>1, <4>3, FS_Subset, FS_CardinalityType
        <5> QED
          BY <4>2, <4>3, <5>1
      <4>5. num_files'[n] = num_files[n] + 1 /\ num_files[n] \in Int /\ num_files[n] < MAX_NODE_FILES
        BY <1>0, <2>1, <3>2
      <4>6. Cardinality(Held(n)') \in Nat
        BY <4>1, <4>3, FS_Subset, FS_CardinalityType
      <4>7. num_files'[n] <= MAX_NODE_FILES
        BY <4>5, MasterAssumption
      <4>8. Cardinality(Held(n)) <= num_files[n]
        BY DEF LoadInv
      <4> QED
        BY <4>2, <4>4, <4>5, <4>6, <4>7, <4>8
    <3> QED
      BY <3>1, <3>2
  <2> QED
    BY <2>1, <2>3 DEF LoadInv
<1>7. ASSUME NEW t \in Threads, ReadIndex(t) \/ ReadCounter(t) PROVE LoadInv'
  <2>1. pc[t] \in {"index", "count"} /\ pc'[t] \in {"publish", "counted"}
    BY <1>0, <1>7 DEF ReadIndex, ReadCounter, Goto
  <2> QED
    BY <1>1, <1>7, <2>1 DEF ReadIndex, ReadCounter, shared
<1>8. ASSUME Fault PROVE LoadInv'
  <2>1. \A n \in Nodes : FilesOf(n)' = FilesOf(n) /\ (Pending(n)' => Pending(n))
    BY <1>8 DEF Fault, shared, FilesOf, Pending, Takes
  <2> QED
    BY <1>8, <2>1, QuietLoad DEF Fault, shared, LoadInv
<1>9. ASSUME NEW t \in Threads, Publish(t), ~Fault PROVE LoadInv'
  <2>1. /\ files_nodes' = [files_nodes EXCEPT ![file_counter] = avail[t]]
        /\ pc[t] = "publish" /\ \A u \in Threads : u = t /\ pc'[u] = "count"
        /\ UNCHANGED <<num_files, file_counter, i, avail, reg>>
    BY <1>0, <1>9 DEF Publish, RowInv, Serial, Goto
  <2>2. \A id \in 0 .. file_counter - 1 : files_nodes'[id] = files_nodes[id]
    BY <1>0, <2>1
  <2>3. \A n \in Nodes : FilesOf(n)' = FilesOf(n) /\ (Pending(n)' => Pending(n))
    BY <2>1, <2>2 DEF FilesOf, Pending, Takes
  <2> QED
    BY <2>1, <2>3, QuietLoad
(* The file that was counted enters the table.                             *)
<1>10. ASSUME NEW t \in Threads, WriteCounter(t) PROVE LoadInv'
  <2>1. /\ pc[t] = "counted" /\ file_counter' = file_counter + 1
        /\ files_nodes[file_counter] = avail[t]
        /\ \A u \in Threads : u = t /\ pc'[u] = "print"
        /\ UNCHANGED <<num_files, files_nodes>>
    BY <1>0, <1>10 DEF WriteCounter, RowInv, Serial, Goto
  <2>2. ASSUME NEW n \in Nodes PROVE Held(n)' = Held(n)
    <3>1. ~Pending(n)' /\ (Pending(n) <=> Takes(t, n))
      BY <2>1 DEF Pending
    <3>2. Held(n)' = {id \in 0 .. file_counter : \E k \in 1 .. Len(files_nodes[id]) : files_nodes[id][k] = n}
      BY <1>0, <2>1, <3>1 DEF Held, FilesOf
    <3>3. Held(n) = {id \in 0 .. file_counter : \E k \in 1 .. Len(files_nodes[id]) : files_nodes[id][k] = n}
      BY <1>0, <2>1, <3>1 DEF Held, FilesOf, Takes
    <3> QED
      BY <3>2, <3>3
  <2> QED
    BY <2>1, <2>2 DEF LoadInv
<1>11. ASSUME NEW t \in Threads, PrintFile(t), ~Fault PROVE LoadInv'
  <2>1. pc[t] = "print" /\ pc'[t] \in {"print", "reply"}
    BY <1>0, <1>11 DEF PrintFile, Goto
  <2> QED
    BY <1>1, <1>11, <2>1 DEF PrintFile, shared
<1>12. ASSUME NEW t \in Threads, ReplyCreate(t) \/ ReplyLookup(t), ~Fault PROVE LoadInv'
  <2>1. pc[t] \in {"reply", "lookup"} /\ pc'[t] = "idle"
    BY <1>0, <1>12 DEF ReplyCreate, ReplyLookup, Send, Goto
  <2> QED
    BY <1>1, <1>12, <2>1 DEF ReplyCreate, ReplyLookup, shared
<1>13. CASE UNCHANGED vars
  <2>1. \A n \in Nodes : FilesOf(n)' = FilesOf(n) /\ (Pending(n)' => Pending(n))
    BY <1>13 DEF vars, shared, FilesOf, Pending, Takes
  <2> QED
    BY <1>13, <2>1, QuietLoad DEF vars, shared, LoadInv
<1> QED
  BY <1>2, <1>3, <1>4, <1>5, <1>6, <1>7, <1>8, <1>9, <1>10, <1>11, <1>12, <1>13 DEF Next, Step

(* What malloc leaves in num_files is not negative: a node whose count     *)
(* starts below zero is given that many files too many.                    *)
CountsFromZero == FreshCounts \subseteq Nat

LEMMA LoadInvariant ==
  ASSUME Serial, CountsFromZero
  PROVE  Spec => []LoadInv
<1>1. Init => LoadInv
  <2> SUFFICES ASSUME Init PROVE LoadInv
    OBVIOUS
  <2>1. \A n \in Nodes : Held(n) = {}
    BY DEF Init, Held, FilesOf, Pending
  <2>2. \A n \in Nodes : num_files[n] \in Nat
    BY DEF Init, CountsFromZero
  <2>3. Cardinality({}) = 0
    BY FS_EmptySet
  <2>4. \A n \in Nodes : Cardinality(Held(n)) <= num_files[n]
    BY <2>1, <2>2, <2>3
  <2>5. \A t \in Threads : pc[t] = "idle"
    BY DEF Init
  <2> QED
    BY <2>1, <2>4, <2>5 DEF LoadInv
<1>2. TypeOK /\ WalkInv /\ RowInv /\ LoadInv /\ [Next]_vars => LoadInv'
  BY LoadStep
<1> QED
  BY <1>1, <1>2, MasterTypeCorrect, WalkInvariant, RowInvariant, PTL DEF Spec

LEMMA LoadBounds ==
  ASSUME TypeOK, LoadInv, NEW n \in Nodes
  PROVE  Cardinality(FilesOf(n)) <= MAX_NODE_FILES
<1>1. /\ Cardinality(FilesOf(n)) \in Nat /\ Cardinality(Held(n)) \in Nat
      /\ Cardinality(FilesOf(n)) <= Cardinality(Held(n))
  BY HeldFinite
<1>2. num_files[n] \in Int /\ MAX_NODE_FILES \in Nat
  BY MasterAssumption DEF TypeOK
<1>3. CASE Held(n) = {}
  BY <1>1, <1>2, <1>3, FS_EmptySet
<1>4. CASE Held(n) # {}
  BY <1>1, <1>2, <1>4 DEF LoadInv
<1> QED
  BY <1>3, <1>4

(* One connection at a time, the table never names a node in more files    *)
(* than check_node_availability has slots for.                             *)
THEOREM MasterNoNodeOverAssigned ==
  ASSUME Serial, CountsFromZero
  PROVE  Spec => []NoNodeOverAssigned
<1>1. TypeOK /\ LoadInv => NoNodeOverAssigned
  BY LoadBounds DEF NoNodeOverAssigned
<1> QED
  BY <1>1, MasterTypeCorrect, LoadInvariant, PTL

-----------------------------------------------------------------------------
(* The nodes are full before the table is                                  *)

(* Each of F files is held by A different ones of N nodes, and no node     *)
(* holds more than M: then F * A replicas fit in N * M slots.              *)
LEMMA ReplicasFit ==
  ASSUME NEW F \in Nat, NEW A \in Nat, NEW N \in Nat, NEW M \in Nat,
         NEW row, \A f \in 0 .. F - 1 : \A k \in 1 .. A : row[f][k] \in 0 .. N - 1,
         \A f \in 0 .. F - 1 : \A j, k \in 1 .. A : row[f][j] = row[f][k] => j = k,
         \A n \in 0 .. N - 1 :
           LET files == {f \in 0 .. F - 1 : \E k \in 1 .. A : row[f][k] = n}
           IN  IsFiniteSet(files) /\ Cardinality(files) <= M
  PROVE  F * A <= N * M
<1> DEFINE Files(n) == {f \in 0 .. F - 1 : \E k \in 1 .. A : row[f][k] = n}
           Replicas == (0 .. F - 1) \X (1 .. A)
           Slots == (0 .. N - 1) \X (1 .. M)
(* Number the files of each node: a file's number is its slot.             *)
<1>1. \A n \in 0 .. N - 1 : Injection(Files(n), 1 .. M) # {}
  <2> SUFFICES ASSUME NEW n \in 0 .. N - 1 PROVE Injection(Files(n), 1 .. M) # {}
    OBVIOUS
  <2>1. IsFiniteSet(Files(n)) /\ Cardinality(Files(n)) <= M
    OBVIOUS
  <2> DEFINE C == Cardinality(Files(n))
  <2>2. C \in Nat /\ ExistsBijection(1 .. C, Files(n))
    BY <2>1, FS_CardinalityType
  <2>3. ExistsBijection(Files(n), 1 .. C)
    BY <2>2, Fun_ExistsBijSymmetric
  <2> HIDE DEF Files
  <2>4. PICK h : h \in Bijection(Files(n), 1 .. C)
    BY <2>3 DEF ExistsBijection
  <2>5. h \in [Files(n) -> 1 .. C] /\ \A f, g \in Files(n) : h[f] = h[g] => f = g
    BY <2>4 DEF Bijection, Injection, IsInjective
  <2>6. 1 .. C \subseteq 1 .. M
    BY <2>1, <2>2
  <2> HIDE DEF C
  <2>7. h \in Injection(Files(n), 1 .. M)
    BY <2>5, <2>6 DEF Injection, IsInjective
  <2> QED
    BY <2>7
<1> DEFINE number == [n \in 0 .. N - 1 |-> CHOOSE h : h \in Injection(Files(n), 1 .. M)]
           place == [p \in Replicas |-> <<row[p[1]][p[2]], number[row[p[1]][p[2]]][p[1]]>>]
<1>2. \A n \in 0 .. N - 1 :
        /\ \A f \in Files(n) : number[n][f] \in 1 .. M
        /\ \A f, g \in Files(n) : number[n][f] = number[n][g] => f = g
  <2> HIDE DEF Files
  <2> SUFFICES ASSUME NEW n \in 0 .. N - 1
               PROVE  /\ \A f \in Files(n) : number[n][f] \in 1 .. M
                      /\ \A f, g \in Files(n) : number[n][f] = number[n][g] => f = g
    OBVIOUS
  <2>1. number[n] \in Injection(Files(n), 1 .. M)
    BY <1>1
  <2> QED
    BY <2>1 DEF Injection, IsInjective
<1>3. \A f \in 0 .. F - 1 : \A k \in 1 .. A : f \in Files(row[f][k])
  OBVIOUS
<1> HIDE DEF number, Files
<1>4. place \in Injection(Replicas, Slots)
  <2>1. \A p \in Replicas : place[p] \in Slots
    BY <1>2, <1>3
  <2>2. ASSUME NEW p \in Replicas, NEW q \in Replicas, place[p] = place[q] PROVE p = q
    <3> DEFINE n == row[p[1]][p[2]]
    <3>1. /\ p[1] \in 0 .. F - 1 /\ p[2] \in 1 .. A /\ q[1] \in 0 .. F - 1 /\ q[2] \in 1 .. A
          /\ p = <<p[1], p[2]>> /\ q = <<q[1], q[2]>>
      OBVIOUS
    <3>2. row[q[1]][q[2]] = n /\ number[n][p[1]] = number[n][q[1]]
      BY <2>2
    <3>3. n \in 0 .. N - 1 /\ p[1] \in Files(n) /\ q[1] \in Files(n)
      BY <1>3, <3>1, <3>2
    <3>4. p[1] = q[1]
      BY <1>2, <3>2, <3>3
    <3> QED
      BY <3>1, <3>2, <3>4
  <2> HIDE DEF Replicas, Slots
  <2>3. place \in [Replicas -> Slots]
    BY <2>1
  <2> HIDE DEF place
  <2> QED
    BY <2>2, <2>3 DEF Injection, IsInjective
<1>5. IsFiniteSet(Slots) /\ Cardinality(Slots) = N * M
  <2>1. /\ IsFiniteSet(0 .. N - 1) /\ Cardinality(0 .. N - 1) = N
        /\ IsFiniteSet(1 .. M) /\ Cardinality(1 .. M) = M
    BY FS_Interval
  <2> QED
    BY <2>1, FS_Product
<1>6. Cardinality(Replicas) = F * A
  <2>1. /\ IsFiniteSet(0 .. F - 1) /\ Cardinality(0 .. F - 1) = F
        /\ IsFiniteSet(1 .. A) /\ Cardinality(1 .. A) = A
    BY FS_Interval
  <2> QED
    BY <2>1, FS_Product
<1> HIDE DEF place, Replicas, Slots
<1>7. Cardinality(Replicas) <= Cardinality(Slots)
  BY <1>4, <1>5, FS_Injection
<1> QED
  BY <1>5, <1>6, <1>7

-----------------------------------------------------------------------------
(* The master dies only for want of nodes                                  *)

(* Every node the walk has left behind, and every node once it has ended   *)
(* short, is taken unless it cannot be had.                                *)
Passed(t) == \A n \in Nodes : n < i[t] /\ check_node_availability(n) => Takes(t, n)
Searched(t) ==
  \/ Len(avail[t]) = MAX_NODES_ASSIGNED
  \/ \A n \in Nodes : check_node_availability(n) => Takes(t, n)

(* What makes DiesOnlyShortOfNodes inductive: what a walk has passed over, *)
(* and that a row which came out short is the last one, and about to be    *)
(* printed.                                                                *)
Walked(t) ==
  /\ pc[t] \in {"check", "add"} => Passed(t)
  /\ pc[t] = "bump" => Passed(t) /\ Takes(t, i[t])
  /\ pc[t] \in {"index", "publish", "count", "counted", "print"} => Searched(t)

FullOrLast(id) ==
  \/ Readable(files_nodes[id])
  \/ \E t \in Threads : pc[t] = "print" /\ id = file_counter - 1 /\ reg[t] <= id

WatchInv ==
  /\ \A t \in Threads : Walked(t)
  /\ \A id \in 0 .. file_counter - 1 : FullOrLast(id)
  /\ DiesOnlyShortOfNodes

(* The nodes have fewer slots than a full table needs replicas: 5 * 20     *)
(* and 3 * 1000 in the source.                                             *)
NodesFillFirst == MAX_NODES * MAX_NODE_FILES < MAX_NODES_ASSIGNED * MAX_FILES

(* As long as no short row is being printed, the table has a slot left for *)
(* the next one.                                                           *)
LEMMA SlotLeft ==
  ASSUME NodesFillFirst, TypeOK, WalkInv, RowInv, LoadInv,
         \A id \in 0 .. file_counter - 1 : Readable(files_nodes[id])
  PROVE  file_counter < MAX_FILES
<1> SUFFICES ASSUME file_counter = MAX_FILES PROVE FALSE
  BY MasterAssumption DEF TypeOK, RowInv
<1> DEFINE F == file_counter
           A == MAX_NODES_ASSIGNED
           row == files_nodes
<1>1. /\ F \in Nat /\ A \in Nat /\ MAX_NODES \in Nat /\ MAX_NODE_FILES \in Nat
      /\ MAX_FILES = F /\ Nodes = 0 .. MAX_NODES - 1
  BY MasterAssumption DEF TypeOK, Nodes
<1>2. \A f \in 0 .. F - 1 :
        row[f] \in Seq(Nodes) /\ Len(row[f]) = A /\ Climbing(row[f])
  BY <1>1 DEF TypeOK, WalkInv, Readable
<1>3. \A f \in 0 .. F - 1 : \A k \in 1 .. A : row[f][k] \in Nodes /\ row[f][k] \in Int
  BY <1>2, NextIndex
<1>4. \A f \in 0 .. F - 1 : \A j, k \in 1 .. A : row[f][j] = row[f][k] => j = k
  <2> SUFFICES ASSUME NEW f \in 0 .. F - 1, NEW j \in 1 .. A, NEW k \in 1 .. A, row[f][j] = row[f][k]
               PROVE  j = k
    OBVIOUS
  <2>1. ~(row[f][j] < row[f][k]) /\ ~(row[f][k] < row[f][j])
    BY <1>3
  <2>2. ~(j < k) /\ ~(k < j)
    BY <1>2, <2>1 DEF Climbing
  <2> QED
    BY <1>1, <2>2
<1>5. ASSUME NEW n \in Nodes
      PROVE  LET files == {f \in 0 .. F - 1 : \E k \in 1 .. A : row[f][k] = n}
             IN  IsFiniteSet(files) /\ Cardinality(files) <= MAX_NODE_FILES
  <2>1. FilesOf(n) = {f \in 0 .. F - 1 : \E k \in 1 .. A : row[f][k] = n}
    BY <1>2 DEF FilesOf
  <2>2. IsFiniteSet(FilesOf(n)) /\ Cardinality(FilesOf(n)) <= MAX_NODE_FILES
    BY HeldFinite, LoadBounds
  <2> QED
    BY <2>1, <2>2
<1> HIDE DEF F, A, row
<1>6. F * A <= MAX_NODES * MAX_NODE_FILES
  BY <1>1, <1>3, <1>4, <1>5, ReplicasFit
<1>7. MAX_NODES * MAX_NODE_FILES < A * F
  BY <1>1 DEF NodesFillFirst, A
<1>8. F * A = A * F /\ F * A \in Nat /\ MAX_NODES * MAX_NODE_FILES \in Nat
  BY <1>1
<1> QED
  BY <1>6, <1>7, <1>8

(* A step of the only thread that is not a fault keeps WatchInv if the     *)
(* thread's own walk is right where it goes, and every row is complete.    *)
LEMMA GoOn ==
  ASSUME Serial, NEW t \in Threads, alive, alive' = alive, Walked(t)',
         \A id \in 0 .. file_counter' - 1 : FullOrLast(id)'
  PROVE  WatchInv'
<1>1. \A u \in Threads : u = t
  BY DEF Serial
<1>2. \A u \in Threads : Walked(u)'
  BY <1>1
<1>3. DiesOnlyShortOfNodes'
  BY DEF DiesOnlyShortOfNodes
<1> QED
  BY <1>2, <1>3 DEF WatchInv

(* Where NextNode leaves the thread.                                       *)
LEMMA NextNodeWatch ==
  ASSUME TypeOK, NEW t \in Threads, NextNode(t, Len(avail[t])),
         \A n \in Nodes : n <= i[t] /\ check_node_availability(n)' => Takes(t, n),
         avail' = avail
  PROVE  Walked(t)' /\ pc'[t] \in {"check", "index"}
<1>0. /\ pc \in [Threads -> Labels] /\ i \in [Threads -> Nodes]
      /\ \A n \in Nodes : n \in Int /\ n <= MAX_NODES - 1 /\ MAX_NODES \in Nat
  BY MasterAssumption DEF TypeOK, Nodes
<1>1. CASE Goto(t, "index") /\ UNCHANGED i /\ (Len(avail[t]) = MAX_NODES_ASSIGNED \/ i[t] = MAX_NODES - 1)
  <2>1. pc'[t] = "index"
    BY <1>0, <1>1 DEF Goto
  <2>2. Len(avail'[t]) = MAX_NODES_ASSIGNED \/ \A n \in Nodes : check_node_availability(n)' => Takes(t, n)'
    BY <1>0, <1>1 DEF Takes
  <2> QED
    BY <2>1, <2>2 DEF Walked, Searched
<1>2. CASE Goto(t, "check") /\ i' = [i EXCEPT ![t] = @ + 1]
  <2>1. pc'[t] = "check" /\ i'[t] = i[t] + 1
    BY <1>0, <1>2 DEF Goto
  <2>2. \A n \in Nodes : n < i'[t] /\ check_node_availability(n)' => Takes(t, n)'
    <3> SUFFICES ASSUME NEW n \in Nodes, n < i'[t], check_node_availability(n)' PROVE Takes(t, n)'
      OBVIOUS
    <3>1. n <= i[t]
      BY <1>0, <2>1
    <3> QED
      BY <3>1 DEF Takes
  <2> QED
    BY <2>1, <2>2 DEF Walked, Passed
<1> QED
  BY <1>1, <1>2 DEF NextNode

LEMMA WatchStep ==
  ASSUME Serial, NodesFillFirst, TypeOK, WalkInv, ShortInv, RowInv, LoadInv, WatchInv, [Next]_vars
  PROVE  WatchInv'
<1>0. /\ pc \in [Threads -> Labels] /\ i \in [Threads -> Nodes]
      /\ avail \in [Threads -> Seq(Nodes)] /\ reg \in [Threads -> Int]
      /\ num_files \in [Nodes -> Int] /\ file_counter \in Nat
      /\ files_nodes \in [0 .. MAX_FILES - 1 -> Seq(Nodes)]
      /\ \A n \in Nodes : n \in Int /\ n >= 0 /\ n <= MAX_NODES - 1 /\ MAX_NODES \in Nat
  BY MasterAssumption DEF TypeOK, Nodes
<1>1. CASE UNCHANGED vars
  BY <1>1 DEF vars, shared, WatchInv, Walked, Passed, Searched, Takes, FullOrLast, Readable,
              check_node_availability, DiesOnlyShortOfNodes
<1>2. ASSUME NEW t \in Threads, alive, Receive(t) \/ Step(t) PROVE WatchInv'
  <2>0. Walked(t) /\ (\A id \in 0 .. file_counter - 1 : FullOrLast(id)) /\ \A u \in Threads : u = t
    BY DEF WatchInv, Serial
  (* Unless it is printed or goes on from there, a row stays as it is.     *)
  <2>1. ASSUME UNCHANGED <<files_nodes, file_counter>>, pc[t] # "print"
        PROVE  \A id \in 0 .. file_counter' - 1 : FullOrLast(id)'
    BY <2>0, <2>1 DEF FullOrLast, Readable
  (* A fault changes nothing, and must find a short row at the printer.    *)
  <2>2. ASSUME Fault, pc[t] = "print", Len(avail[t]) < MAX_NODES_ASSIGNED
        PROVE  WatchInv'
    <3>1. \A n \in Nodes : check_node_availability(n) => Takes(t, n)
      BY <2>0, <2>2, MasterAssumption DEF Walked, Searched
    <3>2. DiesOnlyShortOfNodes'
      BY <2>2, <3>1 DEF Fault, shared, DiesOnlyShortOfNodes, check_node_availability, Takes
    <3>3. (\A u \in Threads : Walked(u)') /\ \A id \in 0 .. file_counter' - 1 : FullOrLast(id)'
      BY <2>0, <2>2 DEF Fault, shared, Walked, Passed, Searched, Takes, FullOrLast, Readable,
                        check_node_availability
    <3> QED
      BY <3>2, <3>3 DEF WatchInv
  (* A step that leaves the thread outside the walk and the table alone.   *)
  <2>3. ASSUME UNCHANGED <<files_nodes, file_counter, alive>>, pc[t] # "print",
               pc'[t] \in {"idle", "ping", "reply", "lookup", "returned"}
        PROVE  WatchInv'
    <3>1. Walked(t)'
      BY <2>3 DEF Walked
    <3> QED
      BY <1>2, <2>1, <2>3, <3>1, GoOn
  <2>4. CASE Receive(t)
    <3>1. /\ pc'[t] \in {"ping", "lookup", "returned"} /\ pc[t] = "idle"
          /\ UNCHANGED <<files_nodes, file_counter, alive>>
      BY <1>0, <2>4 DEF Receive, ReceiveCreate, ReceiveLookup, ReceiveUnrecognised, Waiting, Goto, shared
    <3> QED
      BY <2>3, <3>1
  <2>5. CASE PingNode(t)
    <3>1. CASE i[t] = MAX_NODES - 1
      <4>1. /\ pc[t] = "ping" /\ pc'[t] = "check" /\ i'[t] = 0
            /\ UNCHANGED <<files_nodes, file_counter, alive>>
        BY <1>0, <2>5, <3>1, NextIndex DEF PingNode, Goto
      <4>2. Walked(t)'
        BY <1>0, <4>1 DEF Walked, Passed
      <4> QED
        BY <1>2, <2>1, <4>1, <4>2, GoOn
    <3>2. CASE i[t] # MAX_NODES - 1
      BY <1>0, <2>3, <2>5, <3>2 DEF PingNode
    <3> QED
      BY <3>1, <3>2
  <2>6. CASE CheckNode(t)
    <3>1. /\ pc[t] = "check" /\ Passed(t) /\ avail' = avail
          /\ UNCHANGED <<status, num_files, files_nodes, file_counter, alive>>
      BY <2>0, <2>6 DEF CheckNode, shared, Walked
    <3>2. CASE check_node_availability(i[t])
      <4>1. pc'[t] = "add" /\ i' = i
        BY <1>0, <2>6, <3>2 DEF CheckNode, Goto
      <4>2. Walked(t)'
        BY <3>1, <4>1 DEF Walked, Passed, Takes, check_node_availability
      <4> QED
        BY <1>2, <2>1, <3>1, <4>2, GoOn
    <3>3. CASE ~check_node_availability(i[t])
      <4>1. \A n \in Nodes : n <= i[t] /\ check_node_availability(n)' => Takes(t, n)
        <5> SUFFICES ASSUME NEW n \in Nodes, n <= i[t], check_node_availability(n)' PROVE Takes(t, n)
          OBVIOUS
        <5>1. check_node_availability(n) /\ n # i[t]
          BY <3>1, <3>3 DEF check_node_availability
        <5>2. n < i[t]
          BY <1>0, <5>1
        <5> QED
          BY <3>1, <5>1, <5>2 DEF Passed
      <4>2. NextNode(t, Len(avail[t]))
        BY <2>6, <3>3 DEF CheckNode
      <4> QED
        BY <1>2, <2>1, <3>1, <4>1, <4>2, NextNodeWatch, GoOn
    <3> QED
      BY <3>2, <3>3
  <2>7. CASE AddNode(t)
    <3>1. /\ pc[t] = "add" /\ Passed(t) /\ pc'[t] = "bump"
          /\ avail'[t] = Append(avail[t], i[t])
          /\ UNCHANGED <<status, num_files, files_nodes, file_counter, alive, i>>
      BY <1>0, <2>0, <2>7 DEF AddNode, shared, Walked, Goto
    <3>2. Takes(t, i[t])' /\ \A n \in Nodes : Takes(t, n) => Takes(t, n)'
      <4>1. /\ avail[t] \in Seq(Nodes) /\ i'[t] = i[t]
            /\ Len(avail'[t]) = Len(avail[t]) + 1
            /\ avail'[t][Len(avail[t]) + 1] = i[t]
            /\ \A k \in 1 .. Len(avail[t]) : avail'[t][k] = avail[t][k]
        BY <1>0, <3>1
      <4> QED
        BY <4>1 DEF Takes
    <3>3. Walked(t)'
      BY <3>1, <3>2 DEF Walked, Passed, check_node_availability
    <3> QED
      BY <1>2, <2>1, <3>1, <3>3, GoOn
  <2>8. CASE BumpLoad(t)
    <3>1. /\ pc[t] = "bump" /\ Passed(t) /\ Takes(t, i[t]) /\ NextNode(t, Len(avail[t]))
          /\ num_files' = [num_files EXCEPT ![i[t]] = reg[t] + 1]
          /\ UNCHANGED <<status, files_nodes, file_counter, alive, avail>>
      BY <2>0, <2>8 DEF BumpLoad, Walked
    <3>2. \A n \in Nodes : n <= i[t] /\ check_node_availability(n)' => Takes(t, n)
      <4> SUFFICES ASSUME NEW n \in Nodes, n <= i[t], n # i[t], check_node_availability(n)' PROVE Takes(t, n)
        BY <3>1
      <4>1. check_node_availability(n) /\ n < i[t]
        BY <1>0, <3>1 DEF check_node_availability
      <4> QED
        BY <3>1, <4>1 DEF Passed
    <3> QED
      BY <1>2, <2>1, <3>1, <3>2, NextNodeWatch, GoOn
  (* From the end of the walk to the printer the list is only carried.     *)
  <2>9. ASSUME pc[t] \in {"index", "publish", "count", "counted", "print"},
               pc'[t] \in {"index", "publish", "count", "counted", "print", "reply"},
               UNCHANGED <<status, num_files, avail>>
        PROVE  Walked(t)'
    BY <2>0, <2>9 DEF Walked, Searched, Takes, check_node_availability
  <2>10. CASE ReadIndex(t) \/ ReadCounter(t)
    <3>1. /\ pc[t] \in {"index", "count"} /\ pc'[t] \in {"publish", "counted"}
          /\ UNCHANGED <<status, num_files, files_nodes, file_counter, alive, avail>>
      BY <1>0, <2>10 DEF ReadIndex, ReadCounter, Goto, shared
    <3>2. Walked(t)'
      BY <2>9, <3>1
    <3> QED
      BY <1>2, <2>1, <3>1, <3>2, GoOn
  <2>11. CASE Publish(t)
    <3>1. pc[t] = "publish" /\ reg[t] = file_counter
      BY <2>11 DEF Publish, RowInv
    <3>2. \A id \in 0 .. file_counter - 1 : Readable(files_nodes[id])
      BY <2>0, <3>1 DEF FullOrLast
    <3>3. reg[t] < MAX_FILES
      BY <3>1, <3>2, SlotLeft
    <3>4. /\ pc'[t] = "count" /\ files_nodes' = [files_nodes EXCEPT ![file_counter] = avail[t]]
          /\ UNCHANGED <<status, num_files, file_counter, alive, avail>>
      BY <1>0, <2>11, <3>1, <3>3 DEF Publish, Goto
    <3>5. \A id \in 0 .. file_counter' - 1 : FullOrLast(id)'
      <4>1. \A id \in 0 .. file_counter - 1 : files_nodes'[id] = files_nodes[id]
        BY <1>0, <3>4
      <4> QED
        BY <3>2, <3>4, <4>1 DEF FullOrLast, Readable
    <3>6. Walked(t)'
      BY <2>9, <3>1, <3>4
    <3> QED
      BY <1>2, <3>4, <3>5, <3>6, GoOn
  <2>12. CASE WriteCounter(t)
    <3>1. /\ pc[t] = "counted" /\ pc'[t] = "print" /\ file_counter' = file_counter + 1 /\ reg'[t] = 0
          /\ UNCHANGED <<status, num_files, files_nodes, alive, avail>>
      BY <1>0, <2>12 DEF WriteCounter, RowInv, Goto
    <3>2. \A id \in 0 .. file_counter - 1 : Readable(files_nodes[id])
      BY <2>0, <3>1 DEF FullOrLast
    <3>3. \A id \in 0 .. file_counter' - 1 : FullOrLast(id)'
      <4> SUFFICES ASSUME NEW id \in 0 .. file_counter' - 1 PROVE FullOrLast(id)'
        OBVIOUS
      <4>1. CASE id = file_counter
        BY <1>0, <3>1, <4>1 DEF FullOrLast
      <4>2. CASE id # file_counter
        <5>1. id \in 0 .. file_counter - 1
          BY <1>0, <3>1, <4>2
        <5> QED
          BY <3>1, <3>2, <5>1 DEF FullOrLast, Readable
      <4> QED
        BY <4>1, <4>2
    <3>4. Walked(t)'
      BY <2>9, <3>1
    <3> QED
      BY <1>2, <3>1, <3>3, <3>4, GoOn
  <2>13. CASE PrintFile(t)
    <3>1. /\ pc[t] = "print" /\ 1 <= file_counter /\ file_counter <= MAX_FILES
          /\ files_nodes[file_counter - 1] = avail[t] /\ reg[t] \in Nat
      BY <2>13 DEF PrintFile, RowInv, TypeOK
    (* Rows before the last are complete.                                  *)
    <3>2. \A id \in 0 .. file_counter - 1 :
            Readable(files_nodes[id]) \/ (id = file_counter - 1 /\ reg[t] <= id)
      BY <2>0 DEF FullOrLast
    <3>3. CASE reg[t] >= file_counter
      <4>1. pc'[t] = "reply" /\ UNCHANGED <<shared, alive, i, avail, reg, replies>>
        BY <1>0, <2>13, <3>3 DEF PrintFile, Goto
      <4>2. \A id \in 0 .. file_counter' - 1 : FullOrLast(id)'
        BY <1>0, <3>1, <3>2, <3>3, <4>1 DEF shared, FullOrLast, Readable
      <4>3. Walked(t)'
        BY <4>1 DEF Walked
      <4> QED
        BY <1>2, <4>1, <4>2, <4>3, GoOn
    <3>4. CASE reg[t] < file_counter /\ Readable(files_nodes[reg[t]])
      <4>1. /\ reg[t] < MAX_FILES /\ reg'[t] = reg[t] + 1
            /\ UNCHANGED <<shared, alive, pc, i, avail, replies>>
        BY <1>0, <2>13, <3>1, <3>4, MasterAssumption DEF PrintFile
      <4>2. \A id \in 0 .. file_counter' - 1 : FullOrLast(id)'
        <5>1. ASSUME NEW id \in 0 .. file_counter - 1, ~Readable(files_nodes[id])
              PROVE  id = file_counter - 1 /\ reg'[t] <= id
          <6>1. id = file_counter - 1 /\ reg[t] <= id /\ reg[t] # id
            BY <3>2, <3>4, <5>1
          <6> QED
            BY <1>0, <3>1, <4>1, <6>1
        <5>2. /\ files_nodes' = files_nodes /\ file_counter' = file_counter /\ pc'[t] = "print"
          BY <3>1, <4>1 DEF shared
        <5> QED
          BY <5>1, <5>2 DEF FullOrLast, Readable
      <4>3. Walked(t)'
        BY <2>9, <3>1, <4>1 DEF shared
      <4> QED
        BY <1>2, <4>1, <4>2, <4>3, GoOn
    <3>5. CASE reg[t] < file_counter /\ ~Readable(files_nodes[reg[t]])
      <4>1. Fault
        BY <2>13, <3>5, <1>0 DEF PrintFile
      <4>2. reg[t] \in 0 .. file_counter - 1
        BY <1>0, <3>1, <3>5
      <4>3. reg[t] = file_counter - 1
        BY <3>2, <3>5, <4>2
      <4>4. Len(avail[t]) # MAX_NODES_ASSIGNED /\ Len(avail[t]) <= MAX_NODES_ASSIGNED /\ Len(avail[t]) \in Nat
        BY <1>0, <3>1, <3>5, <4>3 DEF Readable, ShortInv
      <4>5. Len(avail[t]) < MAX_NODES_ASSIGNED
        BY <4>4, MasterAssumption
      <4> QED
        BY <2>2, <3>1, <4>1, <4>5
    <3> QED
      BY <1>0, <3>1, <3>3, <3>4, <3>5
  (* No answer faults: the row it reads is complete.                       *)
  <2>14. CASE ReplyCreate(t)
    <3>1. pc[t] = "reply" /\ file_counter - 1 \in 0 .. file_counter - 1 /\ files_nodes[file_counter - 1] = avail[t]
      BY <1>0, <2>14 DEF ReplyCreate, RowInv
    <3>2. Readable(avail[t])
      BY <2>0, <3>1 DEF FullOrLast
    <3>3. pc'[t] = "idle" /\ UNCHANGED <<files_nodes, file_counter, alive>>
      BY <1>0, <2>14, <3>2 DEF ReplyCreate, Send, Goto, shared
    <3> QED
      BY <2>3, <3>1, <3>3
  <2>15. CASE ReplyLookup(t)
    <3>1. pc[t] = "lookup" /\ reg[t] \in 0 .. file_counter - 1 /\ file_counter <= MAX_FILES
      BY <2>15 DEF ReplyLookup, RowInv
    <3>2. Readable(files_nodes[reg[t]]) /\ reg[t] \in 0 .. MAX_FILES - 1
      BY <1>0, <2>0, <3>1, MasterAssumption DEF FullOrLast
    <3>3. pc'[t] = "idle" /\ UNCHANGED <<files_nodes, file_counter, alive>>
      BY <1>0, <2>15, <3>2 DEF ReplyLookup, Send, Goto, shared
    <3> QED
      BY <2>3, <3>1, <3>3
  <2> QED
    BY <1>2, <2>4, <2>5, <2>6, <2>7, <2>8, <2>10, <2>11, <2>12, <2>13, <2>14, <2>15 DEF Step
<1> QED
  BY <1>1, <1>2 DEF Next, Receive, Step

(* One connection at a time, the master dies for one reason: a creation    *)
(* found fewer nodes than a file needs, although it took every node that   *)
(* answered its ping and had room.  No lookup kills it, and its table      *)
(* never runs out.                                                         *)
THEOREM MasterDiesOnlyShortOfNodes ==
  ASSUME Serial, CountsFromZero, NodesFillFirst
  PROVE  Spec => []DiesOnlyShortOfNodes
<1>1. Init => WatchInv
  <2> SUFFICES ASSUME Init PROVE WatchInv
    OBVIOUS
  <2>1. alive /\ file_counter = 0 /\ \A t \in Threads : pc[t] = "idle"
    BY DEF Init
  <2> QED
    BY <2>1 DEF WatchInv, Walked, DiesOnlyShortOfNodes
<1>2. TypeOK /\ WalkInv /\ ShortInv /\ RowInv /\ LoadInv /\ WatchInv /\ [Next]_vars => WatchInv'
  BY WatchStep
<1>3. WatchInv => DiesOnlyShortOfNodes
  BY DEF WatchInv
<1> QED
  BY <1>1, <1>2, <1>3, MasterTypeCorrect, WalkInvariant, ShortInvariant, RowInvariant, LoadInvariant, PTL
     DEF Spec

=============================================================================
