---------------------------- MODULE MasterProofs ----------------------------
(***************************************************************************)
(* Theorems about Master, for every number of threads, nodes, replicas,    *)
(* slots and requests.                                                     *)
(***************************************************************************)
EXTENDS Master, SequenceTheorems, TLAPS

-----------------------------------------------------------------------------
(* Type correctness                                                        *)

(* The loop index has a successor on the node list unless it is the last.  *)
LEMMA NextIndex ==
  /\ 0 \in Nodes
  /\ \A n \in Nodes : n \in Int /\ (n # MAX_NODES - 1 => n + 1 \in Nodes)
BY MasterAssumption DEF Nodes

(* Going on to the next node, or to the table, keeps a thread's place and  *)
(* its loop index of their types.                                          *)
LEMMA NextNodeType ==
  ASSUME TypeOK, NEW t \in Threads, NEW assigned, NextNode(t, assigned)
  PROVE  /\ pc' \in [Threads -> Labels]
         /\ i' \in [Threads -> Nodes]
         /\ \A u \in Threads : pc'[u] \in {"publish", "counted", "print"} => pc'[u] = pc[u]
<1>1. pc \in [Threads -> Labels] /\ i \in [Threads -> Nodes]
  BY DEF TypeOK
<1>2. i[t] # MAX_NODES - 1 => i[t] + 1 \in Nodes
  BY <1>1, NextIndex
<1>3. CASE Goto(t, "index") /\ UNCHANGED i
  BY <1>1, <1>3 DEF Goto, Labels
<1>4. CASE i[t] # MAX_NODES - 1 /\ Goto(t, "check") /\ i' = [i EXCEPT ![t] = @ + 1]
  BY <1>1, <1>2, <1>4 DEF Goto, Labels
<1> QED
  BY <1>3, <1>4 DEF NextNode

(* A fault changes nothing but alive.                                      *)
LEMMA FaultType == TypeOK /\ Fault => TypeOK'
BY DEF TypeOK, Fault, shared

(* An answer about a file id, sent to the client of a thread.              *)
LEMMA SendType ==
  ASSUME TypeOK, NEW t \in Threads, NEW op \in {"CF", "RF"}, NEW id \in Int,
         NEW list \in Seq(Nodes), Send(t, op, id, list),
         UNCHANGED <<shared, alive, i, avail, reg>>
  PROVE  TypeOK'
<1>1. [op |-> op, id |-> id, nodes |-> list] \in Reply
  BY DEF Reply
<1>2. replies' \in Seq(Reply)
  BY <1>1 DEF Send, TypeOK
<1>3. pc' \in [Threads -> Labels] /\ pc'[t] = "idle" /\ \A u \in Threads \ {t} : pc'[u] = pc[u]
  BY DEF Send, Goto, TypeOK, Labels
<1> QED
  BY <1>2, <1>3 DEF TypeOK, shared

(* Every step of every thread keeps the types: in particular the loop      *)
(* index stays on the node list and the counter never becomes negative.    *)
LEMMA TypeStep == TypeOK /\ [Next]_vars => TypeOK'
<1> SUFFICES ASSUME TypeOK, [Next]_vars PROVE TypeOK'
  OBVIOUS
<1> USE DEF TypeOK, Labels, Goto
<1>1. ASSUME NEW t \in Threads, ReceiveCreate(t) PROVE TypeOK'
  BY <1>1, MasterAssumption DEF ReceiveCreate, shared, Nodes
<1>2. ASSUME NEW t \in Threads, ReceiveLookup(t) PROVE TypeOK'
  <2>1. KnownIds \cup StaleIds \subseteq Int
    <3>1. \A k \in 1 .. Len(replies) : replies[k] \in Reply
      OBVIOUS
    <3>2. \A k \in 1 .. Len(replies) : replies[k].id \in Int
      BY <3>1 DEF Reply
    <3> HIDE DEF TypeOK
    <3>3. KnownIds \subseteq Int
      BY <3>2 DEF KnownIds
    <3> QED
      BY <3>3, MasterAssumption
  <2>2. PICK id \in KnownIds \cup StaleIds : reg' = [reg EXCEPT ![t] = id]
    BY <1>2 DEF ReceiveLookup
  <2> QED
    BY <1>2, <2>1, <2>2 DEF ReceiveLookup, shared
<1>3. ASSUME NEW t \in Threads, ReceiveUnrecognised(t) PROVE TypeOK'
  BY <1>3 DEF ReceiveUnrecognised, shared
<1>4. ASSUME NEW t \in Threads, PingNode(t) PROVE TypeOK'
  <2>1. /\ 0 \in Nodes
        /\ i[t] # MAX_NODES - 1 => i[t] + 1 \in Nodes
    BY NextIndex
  <2>2. PICK up \in BOOLEAN : status' = [status EXCEPT ![i[t]] = up]
    BY <1>4 DEF PingNode
  <2> QED
    BY <1>4, <2>1, <2>2 DEF PingNode
<1>5. ASSUME NEW t \in Threads, CheckNode(t) PROVE TypeOK'
  <2>1. CASE Goto(t, "add") /\ UNCHANGED i
    BY <1>5, <2>1 DEF CheckNode, shared
  <2>2. CASE NextNode(t, Len(avail[t]))
    BY <1>5, <2>2, NextNodeType DEF CheckNode, shared
  <2> QED
    BY <1>5, <2>1, <2>2 DEF CheckNode
<1>6. ASSUME NEW t \in Threads, AddNode(t) PROVE TypeOK'
  BY <1>6 DEF AddNode, shared
<1>7. ASSUME NEW t \in Threads, BumpLoad(t) PROVE TypeOK'
  <2>1. NextNode(t, Len(avail[t]))
    BY <1>7 DEF BumpLoad
  <2>2. /\ pc' \in [Threads -> Labels]
        /\ i' \in [Threads -> Nodes]
        /\ \A u \in Threads : pc'[u] \in {"publish", "counted", "print"} => pc'[u] = pc[u]
    BY <2>1, NextNodeType
  <2>3. num_files' \in [Nodes -> Int]
    BY <1>7 DEF BumpLoad
  <2> QED
    BY <1>7, <2>2, <2>3 DEF BumpLoad
<1>8. ASSUME NEW t \in Threads, ReadIndex(t) PROVE TypeOK'
  BY <1>8 DEF ReadIndex, shared
<1>9. ASSUME NEW t \in Threads, Publish(t) PROVE TypeOK'
  BY <1>9, MasterAssumption DEF Publish, Fault, shared
<1>10. ASSUME NEW t \in Threads, ReadCounter(t) PROVE TypeOK'
  BY <1>10 DEF ReadCounter, shared
<1>11. ASSUME NEW t \in Threads, WriteCounter(t) PROVE TypeOK'
  BY <1>11 DEF WriteCounter
<1>12. ASSUME NEW t \in Threads, PrintFile(t) PROVE TypeOK'
  <2>1. CASE Fault
    BY <2>1, FaultType
  <2>2. CASE Goto(t, "reply") /\ UNCHANGED <<shared, alive, i, avail, reg, replies>>
    BY <2>2 DEF shared
  <2>3. CASE /\ reg' = [reg EXCEPT ![t] = @ + 1]
             /\ UNCHANGED <<shared, alive, pc, i, avail, replies>>
    BY <1>12, <2>3 DEF PrintFile, shared
  <2> QED
    BY <1>12, <2>1, <2>2, <2>3 DEF PrintFile
<1>13. ASSUME NEW t \in Threads, ReplyCreate(t) PROVE TypeOK'
  <2>1. CASE Fault
    BY <2>1, FaultType
  <2>2. CASE Send(t, "CF", file_counter - 1, avail[t]) /\ UNCHANGED <<shared, alive, i, avail, reg>>
    <3>1. file_counter - 1 \in Int /\ avail[t] \in Seq(Nodes)
      OBVIOUS
    <3> QED
      BY <2>2, <3>1, SendType
  <2> QED
    BY <1>13, <2>1, <2>2 DEF ReplyCreate
<1>14. ASSUME NEW t \in Threads, ReplyLookup(t) PROVE TypeOK'
  <2>1. CASE Fault
    BY <2>1, FaultType
  <2>2. CASE /\ reg[t] \in 0 .. MAX_FILES - 1
             /\ Send(t, "RF", reg[t], files_nodes[reg[t]])
             /\ UNCHANGED <<shared, alive, i, avail, reg>>
    <3>1. reg[t] \in Int /\ files_nodes[reg[t]] \in Seq(Nodes)
      BY <2>2
    <3> QED
      BY <2>2, <3>1, SendType
  <2> QED
    BY <1>14, <2>1, <2>2 DEF ReplyLookup
<1>15. CASE UNCHANGED vars
  BY <1>15 DEF vars, shared
<1> QED
  BY <1>1, <1>2, <1>3, <1>4, <1>5, <1>6, <1>7, <1>8, <1>9, <1>10, <1>11,
     <1>12, <1>13, <1>14, <1>15 DEF Next, Receive, Step

(* The master's tables, counters and threads are always of their types.    *)
THEOREM MasterTypeCorrect == Spec => []TypeOK
<1>1. Init => TypeOK
  <2> SUFFICES ASSUME Init PROVE TypeOK
    OBVIOUS
  <2>1. status \in [Nodes -> BOOLEAN] /\ num_files \in [Nodes -> Int]
    BY MasterAssumption DEF Init
  <2>2. i \in [Threads -> Nodes]
    BY NextIndex DEF Init
  <2>3. pc \in [Threads -> Labels] /\ \A t \in Threads : pc[t] = "idle"
    BY DEF Init, Labels
  <2>4. files_nodes \in [0 .. MAX_FILES - 1 -> Seq(Nodes)] /\ avail \in [Threads -> Seq(Nodes)]
    BY DEF Init
  <2>5. replies \in Seq(Reply)
    BY DEF Init
  <2> QED
    BY <2>1, <2>2, <2>3, <2>4, <2>5 DEF Init, TypeOK
<1> QED
  BY <1>1, TypeStep, PTL DEF Spec

-----------------------------------------------------------------------------
(* Replicas are distinct, for any number of threads                        *)

(* A list that names nodes in the order of the node list.                  *)
Climbing(list) ==
  \A x, y \in 1 .. Len(list) : x < y => list[x] < list[y]

(* What makes DistinctReplicas inductive: a thread that walks the nodes    *)
(* has only taken nodes below the one it looks at, so every list it takes  *)
(* with it to the table and into an answer climbs.                         *)
WalkInv ==
  /\ \A t \in Threads : Climbing(avail[t])
  /\ \A t \in Threads : pc[t] = "ping" => avail[t] = << >>
  /\ \A t \in Threads : pc[t] \in {"check", "add"} =>
       \A k \in 1 .. Len(avail[t]) : avail[t][k] < i[t]
  /\ \A t \in Threads : pc[t] = "bump" =>
       \A k \in 1 .. Len(avail[t]) : avail[t][k] <= i[t]
  /\ \A id \in 0 .. MAX_FILES - 1 : Climbing(files_nodes[id])
  /\ \A k \in 1 .. Len(replies) : Readable(replies[k].nodes) /\ Climbing(replies[k].nodes)

(* A list that climbs, followed by a node above all of it, climbs.         *)
LEMMA ClimbingAppend ==
  ASSUME NEW list \in Seq(Nodes), NEW n \in Nodes, Climbing(list),
         \A k \in 1 .. Len(list) : list[k] < n
  PROVE  /\ Climbing(Append(list, n))
         /\ \A k \in 1 .. Len(Append(list, n)) : Append(list, n)[k] <= n
<1>1. /\ Len(Append(list, n)) = Len(list) + 1
      /\ Append(list, n)[Len(list) + 1] = n
      /\ \A k \in 1 .. Len(list) : Append(list, n)[k] = list[k]
  OBVIOUS
<1>2. n \in Int /\ \A k \in 1 .. Len(list) : list[k] \in Int
  BY NextIndex
<1> QED
  BY <1>1, <1>2 DEF Climbing

(* Where NextNode leaves a thread, its list stays below its loop index.    *)
LEMMA NextNodeWalk ==
  ASSUME TypeOK, WalkInv, NEW t \in Threads, NEW assigned, NextNode(t, assigned),
         \A k \in 1 .. Len(avail[t]) : avail[t][k] <= i[t],
         UNCHANGED <<files_nodes, avail, replies>>
  PROVE  WalkInv'
<1>1. /\ i \in [Threads -> Nodes]
      /\ pc \in [Threads -> Labels]
      /\ avail \in [Threads -> Seq(Nodes)]
      /\ \A u \in Threads : i[u] \in Int
      /\ \A u \in Threads : \A k \in 1 .. Len(avail[u]) : avail[u][k] \in Int
  BY NextIndex DEF TypeOK
<1>2. CASE Goto(t, "index") /\ UNCHANGED i
  BY <1>1, <1>2 DEF Goto, WalkInv
<1>3. CASE Goto(t, "check") /\ i' = [i EXCEPT ![t] = @ + 1]
  <2>1. \A k \in 1 .. Len(avail[t]) : avail[t][k] < i'[t]
    BY <1>1, <1>3
  <2>2. /\ pc'[t] = "check"
        /\ \A u \in Threads \ {t} : pc'[u] = pc[u] /\ i'[u] = i[u]
    BY <1>1, <1>3 DEF Goto
  <2> QED
    BY <2>1, <2>2 DEF WalkInv
<1> QED
  BY <1>2, <1>3 DEF NextNode

(* An answer that is sent is complete and climbs.                          *)
LEMMA SendWalk ==
  ASSUME TypeOK, WalkInv, NEW t \in Threads, NEW op, NEW id, NEW list,
         Readable(list), Climbing(list), Send(t, op, id, list),
         UNCHANGED <<shared, alive, i, avail, reg>>
  PROVE  WalkInv'
<1>1. /\ Len(replies') = Len(replies) + 1
      /\ replies'[Len(replies) + 1].nodes = list
      /\ \A k \in 1 .. Len(replies) : replies'[k] = replies[k]
      /\ Len(replies) \in Nat
  BY DEF TypeOK, Send
<1>2. /\ pc'[t] = "idle"
      /\ \A u \in Threads \ {t} : pc'[u] = pc[u]
  BY DEF TypeOK, Send, Goto
<1>3. \A k \in 1 .. Len(replies') : Readable(replies'[k].nodes) /\ Climbing(replies'[k].nodes)
  BY <1>1 DEF WalkInv
<1> QED
  BY <1>2, <1>3 DEF WalkInv, shared, Readable, Climbing

LEMMA WalkStep == TypeOK /\ WalkInv /\ [Next]_vars => WalkInv'
<1> SUFFICES ASSUME TypeOK, WalkInv, [Next]_vars PROVE WalkInv'
  OBVIOUS
<1>0. /\ i \in [Threads -> Nodes]
      /\ pc \in [Threads -> Labels]
      /\ avail \in [Threads -> Seq(Nodes)]
  BY DEF TypeOK
<1> USE DEF Goto
<1>1. ASSUME NEW t \in Threads, Receive(t) PROVE WalkInv'
  <2>1. CASE ReceiveCreate(t)
    <3>1. /\ avail'[t] = << >> /\ pc'[t] = "ping"
          /\ \A u \in Threads \ {t} : pc'[u] = pc[u] /\ avail'[u] = avail[u] /\ i'[u] = i[u]
      BY <2>1, <1>0 DEF ReceiveCreate
    <3>2. Climbing(<< >>)
      BY DEF Climbing
    <3> QED
      BY <2>1, <3>1, <3>2 DEF WalkInv, ReceiveCreate, shared
  <2>2. CASE ReceiveLookup(t) \/ ReceiveUnrecognised(t)
    BY <2>2, <1>0 DEF WalkInv, ReceiveLookup, ReceiveUnrecognised, shared
  <2> QED
    BY <1>1, <2>1, <2>2 DEF Receive
<1>2. ASSUME NEW t \in Threads, PingNode(t) PROVE WalkInv'
  <2>1. avail[t] = << >>
    BY <1>2 DEF PingNode, WalkInv
  <2>2. \A u \in Threads \ {t} : pc'[u] = pc[u] /\ i'[u] = i[u]
    BY <1>0, <1>2 DEF PingNode
  <2>3. pc'[t] \in {"ping", "check"}
    BY <1>0, <1>2 DEF PingNode
  <2> QED
    BY <1>2, <2>1, <2>2, <2>3 DEF WalkInv, PingNode
<1>3. ASSUME NEW t \in Threads, CheckNode(t) PROVE WalkInv'
  <2>1. CASE Goto(t, "add") /\ UNCHANGED i
    BY <1>0, <1>3, <2>1 DEF WalkInv, CheckNode, shared
  <2>2. CASE NextNode(t, Len(avail[t]))
    <3>1. \A k \in 1 .. Len(avail[t]) : avail[t][k] <= i[t]
      <4>1. \A k \in 1 .. Len(avail[t]) : avail[t][k] < i[t]
        BY <1>3 DEF WalkInv, CheckNode
      <4>2. \A k \in 1 .. Len(avail[t]) : avail[t][k] \in Int /\ i[t] \in Int
        BY <1>0, NextIndex
      <4> QED
        BY <4>1, <4>2
    <3> QED
      BY <1>3, <2>2, <3>1, NextNodeWalk DEF CheckNode, shared
  <2> QED
    BY <1>3, <2>1, <2>2 DEF CheckNode
<1>4. ASSUME NEW t \in Threads, AddNode(t) PROVE WalkInv'
  <2>1. /\ Climbing(avail[t])
        /\ \A k \in 1 .. Len(avail[t]) : avail[t][k] < i[t]
    BY <1>4 DEF WalkInv, AddNode
  <2>2. /\ avail'[t] = Append(avail[t], i[t])
        /\ pc'[t] = "bump"
        /\ i' = i
        /\ \A u \in Threads \ {t} : pc'[u] = pc[u] /\ avail'[u] = avail[u]
    BY <1>0, <1>4 DEF AddNode
  <2>3. /\ Climbing(avail'[t])
        /\ \A k \in 1 .. Len(avail'[t]) : avail'[t][k] <= i'[t]
    BY <1>0, <2>1, <2>2, ClimbingAppend
  <2> QED
    BY <1>4, <2>2, <2>3 DEF WalkInv, AddNode, shared
<1>5. ASSUME NEW t \in Threads, BumpLoad(t) PROVE WalkInv'
  BY <1>5, NextNodeWalk DEF WalkInv, BumpLoad
<1>6. ASSUME NEW t \in Threads, ReadIndex(t) \/ ReadCounter(t) \/ WriteCounter(t) PROVE WalkInv'
  BY <1>0, <1>6 DEF WalkInv, ReadIndex, ReadCounter, WriteCounter, shared
<1>7. ASSUME Fault PROVE WalkInv'
  BY <1>7 DEF WalkInv, Fault, shared, Climbing, Readable
<1>8. ASSUME NEW t \in Threads, Publish(t) PROVE WalkInv'
  <2>1. CASE reg[t] < MAX_FILES
    <3>1. /\ \A id \in 0 .. MAX_FILES - 1 : Climbing(files_nodes'[id])
          /\ pc'[t] = "count"
          /\ \A u \in Threads \ {t} : pc'[u] = pc[u]
      BY <1>0, <1>8, <2>1 DEF WalkInv, Publish, TypeOK
    <3> QED
      BY <1>8, <2>1, <3>1 DEF WalkInv, Publish
  <2> QED
    BY <1>7, <1>8, <2>1 DEF Publish
<1>9. ASSUME NEW t \in Threads, PrintFile(t) PROVE WalkInv'
  <2>1. CASE ~Fault
    BY <1>0, <1>9, <2>1 DEF WalkInv, PrintFile, shared
  <2> QED
    BY <1>7, <2>1
<1>10. ASSUME NEW t \in Threads, ReplyCreate(t) PROVE WalkInv'
  <2>1. CASE ~Fault
    BY <1>10, <2>1, SendWalk DEF WalkInv, ReplyCreate
  <2> QED
    BY <1>7, <2>1
<1>11. ASSUME NEW t \in Threads, ReplyLookup(t) PROVE WalkInv'
  <2>1. CASE ~Fault
    <3>1. Readable(files_nodes[reg[t]]) /\ Climbing(files_nodes[reg[t]])
      BY <1>11, <2>1 DEF WalkInv, ReplyLookup
    <3> QED
      BY <1>11, <2>1, <3>1, SendWalk DEF ReplyLookup
  <2> QED
    BY <1>7, <2>1
<1>12. CASE UNCHANGED vars
  BY <1>12 DEF vars, shared, WalkInv, Climbing, Readable
<1> QED
  BY <1>1, <1>2, <1>3, <1>4, <1>5, <1>6, <1>8, <1>9, <1>10, <1>11, <1>12 DEF Next, Step

LEMMA WalkInvariant == Spec => []WalkInv
<1>1. Init => WalkInv
  BY DEF Init, WalkInv, Climbing
<1> QED
  BY <1>1, WalkStep, MasterTypeCorrect, PTL DEF Spec

(* However many connections the master serves at once, no answer names the *)
(* same node twice or comes out short.                                     *)
THEOREM MasterDistinctReplicas == Spec => []DistinctReplicas
<1>1. WalkInv => DistinctReplicas
  BY DEF WalkInv, DistinctReplicas, Readable, Climbing
<1> QED
  BY <1>1, WalkInvariant, PTL

-----------------------------------------------------------------------------
(* One connection at a time: ids are fresh and answers stay true           *)

(* At most one connection is ever served, and only ids the master gave are *)
(* looked up.                                                              *)
Serial ==
  /\ \A s, t \in Threads : s = t
  /\ StaleIds = {}

(* What makes FreshFileIds and AnswersStayTrue inductive: where the thread *)
(* stands between taking an index and counting it, and that the id it is   *)
(* about to answer with is the last row, which no creation was told yet.   *)
RowInv ==
  /\ file_counter <= MAX_FILES
  /\ \A t \in Threads :
       /\ pc[t] = "publish" => reg[t] = file_counter
       /\ pc[t] \in {"count", "counted"} =>
            file_counter < MAX_FILES /\ files_nodes[file_counter] = avail[t]
       /\ pc[t] = "counted" => reg[t] = file_counter
       /\ pc[t] \in {"print", "reply"} =>
            /\ 1 <= file_counter
            /\ files_nodes[file_counter - 1] = avail[t]
            /\ \A k \in 1 .. Len(replies) :
                 replies[k].op = "CF" => replies[k].id # file_counter - 1
       /\ pc[t] = "lookup" => reg[t] \in 0 .. file_counter - 1
  /\ AnswersStayTrue
  /\ FreshFileIds

(* An answer sent by the only thread, with a row of the table that no      *)
(* creation was told yet if it answers a creation.                         *)
LEMMA SendRow ==
  ASSUME Serial, TypeOK, RowInv, NEW t \in Threads, NEW op, NEW id \in 0 .. file_counter - 1,
         Send(t, op, id, files_nodes[id]),
         op = "CF" => \A k \in 1 .. Len(replies) :
                        replies[k].op = "CF" => replies[k].id # id,
         UNCHANGED <<shared, alive, i, avail, reg>>
  PROVE  RowInv'
<1> DEFINE new == Len(replies) + 1
<1>1. /\ Len(replies') = new
      /\ replies'[new] = [op |-> op, id |-> id, nodes |-> files_nodes[id]]
      /\ \A k \in 1 .. Len(replies) : replies'[k] = replies[k]
      /\ \A k \in 1 .. new : k = new \/ k \in 1 .. Len(replies)
  BY DEF TypeOK, Send
<1> HIDE DEF new
<1>2. pc' = [u \in Threads |-> "idle"]
  BY DEF Serial, Send, Goto, TypeOK
<1>3. AnswersStayTrue'
  BY <1>1 DEF RowInv, AnswersStayTrue, shared
<1>4. FreshFileIds'
  <2> SUFFICES ASSUME NEW j \in 1 .. new, NEW k \in 1 .. new,
                      replies'[j].op = "CF", replies'[k].op = "CF", replies'[j].id = replies'[k].id
               PROVE  j = k
    BY <1>1 DEF FreshFileIds
  <2>1. CASE j = new \/ k = new
    BY <1>1, <2>1
  <2>2. CASE j \in 1 .. Len(replies) /\ k \in 1 .. Len(replies)
    BY <1>1, <2>2 DEF RowInv, FreshFileIds
  <2> QED
    BY <1>1, <2>1, <2>2
<1> QED
  BY <1>2, <1>3, <1>4 DEF RowInv, shared

(* A step that neither answers nor touches the table.                      *)
LEMMA QuietRow ==
  ASSUME Serial, TypeOK, RowInv, NEW t \in Threads,
         UNCHANGED <<files_nodes, file_counter, replies>>,
         pc'[t] \in {"idle", "ping", "check", "add", "bump", "index", "returned"}
  PROVE  RowInv'
<1>1. \A u \in Threads : u = t
  BY DEF Serial
<1> QED
  BY <1>1 DEF RowInv, AnswersStayTrue, FreshFileIds

LEMMA RowStep ==
  ASSUME Serial, TypeOK, RowInv, [Next]_vars
  PROVE  RowInv'
<1>0. /\ pc \in [Threads -> Labels]
      /\ reg \in [Threads -> Int]
      /\ file_counter \in Nat
      /\ MAX_FILES \in Nat
  BY MasterAssumption DEF TypeOK
<1>1. ASSUME NEW t \in Threads, Receive(t) PROVE RowInv'
  <2>1. CASE ReceiveCreate(t) \/ ReceiveUnrecognised(t)
    <3>1. /\ pc'[t] \in {"ping", "returned"}
          /\ UNCHANGED <<files_nodes, file_counter, replies>>
      BY <1>0, <2>1 DEF ReceiveCreate, ReceiveUnrecognised, Goto, shared
    <3> QED
      BY <3>1, QuietRow
  <2>2. CASE ReceiveLookup(t)
    <3>1. PICK id \in KnownIds : reg' = [reg EXCEPT ![t] = id]
      BY <2>2 DEF ReceiveLookup, Serial
    <3>2. id \in 0 .. file_counter - 1
      BY DEF KnownIds, RowInv, AnswersStayTrue
    <3>3. \A u \in Threads : pc'[u] = "lookup" /\ reg'[u] = id
      BY <1>0, <2>2, <3>1 DEF ReceiveLookup, Serial, Goto
    <3> QED
      BY <2>2, <3>2, <3>3 DEF ReceiveLookup, RowInv, AnswersStayTrue, FreshFileIds, shared
  <2> QED
    BY <1>1, <2>1, <2>2 DEF Receive
<1>2. ASSUME NEW t \in Threads, PingNode(t) \/ CheckNode(t) \/ AddNode(t) \/ BumpLoad(t)
      PROVE RowInv'
  <2>1. pc'[t] \in {"ping", "check", "add", "bump", "index"}
    BY <1>0, <1>2 DEF PingNode, CheckNode, AddNode, BumpLoad, NextNode, Goto
  <2>2. UNCHANGED <<files_nodes, file_counter, replies>>
    BY <1>2 DEF PingNode, CheckNode, AddNode, BumpLoad, shared
  <2> QED
    BY <2>1, <2>2, QuietRow
<1>3. ASSUME NEW t \in Threads, ReadIndex(t) PROVE RowInv'
  <2>1. \A u \in Threads : pc'[u] = "publish" /\ reg'[u] = file_counter
    BY <1>0, <1>3 DEF ReadIndex, Serial, Goto
  <2> QED
    BY <1>3, <2>1 DEF ReadIndex, RowInv, AnswersStayTrue, FreshFileIds, shared
<1>4. ASSUME Fault PROVE RowInv'
  BY <1>4 DEF Fault, RowInv, AnswersStayTrue, FreshFileIds, shared
<1>5. ASSUME NEW t \in Threads, Publish(t) PROVE RowInv'
  <2>1. CASE reg[t] < MAX_FILES
    <3>1. reg[t] = file_counter
      BY <1>5 DEF Publish, RowInv
    <3>2. /\ files_nodes'[file_counter] = avail[t]
          /\ \A id \in 0 .. file_counter - 1 : files_nodes'[id] = files_nodes[id]
      BY <1>0, <1>5, <2>1, <3>1 DEF Publish, TypeOK
    <3>3. \A u \in Threads : u = t /\ pc'[u] = "count"
      BY <1>0, <1>5, <2>1 DEF Publish, Serial, Goto
    <3> QED
      BY <1>0, <1>5, <2>1, <3>1, <3>2, <3>3 DEF Publish, RowInv, AnswersStayTrue, FreshFileIds
  <2> QED
    BY <1>4, <1>5, <2>1 DEF Publish
<1>6. ASSUME NEW t \in Threads, ReadCounter(t) PROVE RowInv'
  <2>1. \A u \in Threads : u = t /\ pc'[u] = "counted" /\ reg'[u] = file_counter
    BY <1>0, <1>6 DEF ReadCounter, Serial, Goto
  <2> QED
    BY <1>6, <2>1 DEF ReadCounter, RowInv, AnswersStayTrue, FreshFileIds, shared
<1>7. ASSUME NEW t \in Threads, WriteCounter(t) PROVE RowInv'
  <2>1. reg[t] = file_counter /\ file_counter < MAX_FILES /\ files_nodes[file_counter] = avail[t]
    BY <1>7 DEF WriteCounter, RowInv
  <2>2. file_counter' = file_counter + 1
    BY <1>7, <2>1 DEF WriteCounter
  <2>3. \A u \in Threads : u = t /\ pc'[u] = "print"
    BY <1>0, <1>7 DEF WriteCounter, Serial, Goto
  <2>4. \A k \in 1 .. Len(replies) : replies[k].id \in 0 .. file_counter - 1
    BY DEF RowInv, AnswersStayTrue
  <2>5. AnswersStayTrue' /\ FreshFileIds'
    BY <1>0, <1>7, <2>2 DEF WriteCounter, RowInv, AnswersStayTrue, FreshFileIds
  <2> QED
    BY <1>0, <1>7, <2>1, <2>2, <2>3, <2>4, <2>5 DEF WriteCounter, RowInv
<1>8. ASSUME NEW t \in Threads, PrintFile(t) PROVE RowInv'
  <2>1. CASE ~Fault
    <3>1. pc[t] = "print" /\ \A u \in Threads : u = t /\ pc'[u] \in {"print", "reply"}
      BY <1>0, <1>8, <2>1 DEF PrintFile, Serial, Goto
    <3>2. UNCHANGED <<files_nodes, file_counter, avail, replies>>
      BY <1>8, <2>1 DEF PrintFile, shared
    <3> QED
      BY <3>1, <3>2 DEF RowInv, AnswersStayTrue, FreshFileIds
  <2> QED
    BY <1>4, <2>1
<1>9. ASSUME NEW t \in Threads, ReplyCreate(t) PROVE RowInv'
  <2>1. CASE ~Fault
    <3>1. /\ file_counter - 1 \in 0 .. file_counter - 1
          /\ files_nodes[file_counter - 1] = avail[t]
          /\ \A k \in 1 .. Len(replies) :
               replies[k].op = "CF" => replies[k].id # file_counter - 1
      BY <1>0, <1>9 DEF ReplyCreate, RowInv
    <3> QED
      BY <1>9, <2>1, <3>1, SendRow DEF ReplyCreate
  <2> QED
    BY <1>4, <2>1
<1>10. ASSUME NEW t \in Threads, ReplyLookup(t) PROVE RowInv'
  <2>1. CASE ~Fault
    <3>1. reg[t] \in 0 .. file_counter - 1
      BY <1>10 DEF ReplyLookup, RowInv
    <3> QED
      BY <1>10, <2>1, <3>1, SendRow DEF ReplyLookup
  <2> QED
    BY <1>4, <2>1
<1>11. CASE UNCHANGED vars
  BY <1>11 DEF vars, shared, RowInv, AnswersStayTrue, FreshFileIds
<1> QED
  BY <1>1, <1>2, <1>3, <1>5, <1>6, <1>7, <1>8, <1>9, <1>10, <1>11 DEF Next, Step

LEMMA RowInvariant ==
  ASSUME Serial
  PROVE  Spec => []RowInv
<1>1. Init => RowInv
  BY MasterAssumption DEF Init, RowInv, AnswersStayTrue, FreshFileIds
<1>2. TypeOK /\ RowInv /\ [Next]_vars => RowInv'
  BY RowStep
<1> QED
  BY <1>1, <1>2, MasterTypeCorrect, PTL DEF Spec

(* One connection at a time, no two files are created with the same id ... *)
THEOREM MasterFreshFileIds ==
  ASSUME Serial
  PROVE  Spec => []FreshFileIds
<1>1. RowInv => FreshFileIds
  BY DEF RowInv
<1> QED
  BY <1>1, RowInvariant, PTL

(* ... and whatever was answered about a file stays what the table holds.  *)
THEOREM MasterAnswersStayTrue ==
  ASSUME Serial
  PROVE  Spec => []AnswersStayTrue
<1>1. RowInv => AnswersStayTrue
  BY DEF RowInv
<1> QED
  BY <1>1, RowInvariant, PTL

=============================================================================
