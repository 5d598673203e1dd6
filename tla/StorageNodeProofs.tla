------------------------- MODULE StorageNodeProofs -------------------------
(***************************************************************************)
(* Theorems about StorageNode, for every number of threads, entries,       *)
(* chunks, ids and requests.                                               *)
(***************************************************************************)
EXTENDS StorageNode, TLAPS

-----------------------------------------------------------------------------
(* Type correctness                                                        *)

LEMMA FirstSlot == 0 \in Slots /\ \A s \in Slots : s \in Nat /\ (s < MAX_FILES - 1 => s + 1 \in Slots)
BY StorageAssumption DEF Slots

LEMMA EmptyTableType == EmptyTable \in [Slots -> Entry]
BY DEF EmptyTable, Entry, Contents

LEMMA FaultType == TypeOK /\ Fault => TypeOK'
BY DEF TypeOK, Fault, store

(* A request is taken up.                                                  *)
LEMMA ServeType ==
  ASSUME TypeOK, NEW t \in Threads, NEW r \in Request, Serve(t, r)
  PROVE  TypeOK'
<1>1. pc' \in [Threads -> Labels] /\ pc'[t] = "search" /\ \A u \in Threads \ {t} : pc'[u] = pc[u]
  BY DEF TypeOK, Serve, Goto, Labels
<1>2. i' \in [Threads -> Slots]
  BY FirstSlot DEF TypeOK, Serve
<1>3. /\ req' \in [Threads -> Request \cup {NoRequest}]
      /\ \A u \in Threads : pc'[u] # "idle" => req'[u] \in Request
  BY <1>1 DEF TypeOK, Serve
<1> QED
  BY <1>1, <1>2, <1>3 DEF TypeOK, Serve, store, Inside

(* A request is served.                                                    *)
LEMMA DoneType ==
  ASSUME TypeOK, NEW t \in Threads, pc[t] # "idle",
         NEW data \in Payloads \cup {Blank, Garbled}, NEW pos \in Int, Done(t, data, pos)
  PROVE  /\ pc' \in [Threads -> Labels]
         /\ req' \in [Threads -> Request \cup {NoRequest}]
         /\ \A u \in Threads : pc'[u] # "idle" => req'[u] \in Request
         /\ file_index' \in [Threads -> Nat]
         /\ \A u \in Threads : pc'[u] \in Inside => file_index'[u] \in Slots
         /\ reg' \in [Threads -> Int]
         /\ \A u \in Threads : pc'[u] = "advance" => reg'[u] \in Nat
         /\ log' \in Seq(Served)
<1>1. req[t] \in Request
  BY DEF TypeOK
<1>2. pc' \in [Threads -> Labels] /\ pc'[t] = "idle" /\ \A u \in Threads \ {t} : pc'[u] = pc[u]
  BY DEF TypeOK, Done, Goto, Labels
<1>3. [op |-> req[t].op, file |-> req[t].file, chunk |-> req[t].chunk, data |-> data,
       pos |-> pos, seen |-> req[t].seen] \in Served
  BY <1>1 DEF Request, Served
<1>4. /\ req' \in [Threads -> Request \cup {NoRequest}]
      /\ \A u \in Threads : pc'[u] # "idle" => req'[u] \in Request
  BY <1>2 DEF TypeOK, Done
<1>5. /\ file_index' \in [Threads -> Nat]
      /\ \A u \in Threads : pc'[u] \in Inside => file_index'[u] \in Slots
      /\ reg' \in [Threads -> Int]
      /\ \A u \in Threads : pc'[u] = "advance" => reg'[u] \in Nat
  BY <1>2 DEF TypeOK, Done, Inside
<1> QED
  BY <1>2, <1>3, <1>4, <1>5 DEF TypeOK, Done

(* One field of an entry, or of the chunk being written, is changed.       *)
LEMMA EntryType ==
  ASSUME TypeOK, NEW s \in Slots
  PROVE  /\ \A v \in Int : [files EXCEPT ![s].file_id = v] \in [Slots -> Entry]
         /\ \A v \in Int : [files EXCEPT ![s].num_chunks = v] \in [Slots -> Entry]
         /\ \A k \in Positions, v \in Int : [files EXCEPT ![s].chunks[k].id = v] \in [Slots -> Entry]
         /\ \A k \in Positions, v \in Contents :
              [files EXCEPT ![s].chunks[k].data = v] \in [Slots -> Entry]
<1>1. files \in [Slots -> Entry] /\ files[s] \in Entry
  BY DEF TypeOK
<1>2. ASSUME NEW v \in Int PROVE [files EXCEPT ![s].file_id = v] \in [Slots -> Entry]
  <2>1. [files[s] EXCEPT !.file_id = v] \in Entry
    BY <1>1 DEF Entry
  <2> QED
    BY <1>1, <2>1
<1>3. ASSUME NEW v \in Int PROVE [files EXCEPT ![s].num_chunks = v] \in [Slots -> Entry]
  <2>1. [files[s] EXCEPT !.num_chunks = v] \in Entry
    BY <1>1 DEF Entry
  <2> QED
    BY <1>1, <2>1
<1>4. files[s].chunks \in [Positions -> [id : Int, data : Contents]]
  BY <1>1 DEF Entry
<1>5. ASSUME NEW k \in Positions, NEW v \in Int
      PROVE  [files EXCEPT ![s].chunks[k].id = v] \in [Slots -> Entry]
  <2> DEFINE c == [files[s].chunks EXCEPT ![k].id = v]
  <2>1. c \in [Positions -> [id : Int, data : Contents]]
    BY <1>4
  <2> HIDE DEF c
  <2>2. [files[s] EXCEPT !.chunks = c] \in Entry
    BY <1>1, <2>1 DEF Entry
  <2>3. [files EXCEPT ![s].chunks = c] \in [Slots -> Entry]
    BY <1>1, <2>2
  <2> QED
    BY <2>3 DEF c
<1>6. ASSUME NEW k \in Positions, NEW v \in Contents
      PROVE  [files EXCEPT ![s].chunks[k].data = v] \in [Slots -> Entry]
  <2> DEFINE c == [files[s].chunks EXCEPT ![k].data = v]
  <2>1. c \in [Positions -> [id : Int, data : Contents]]
    BY <1>4
  <2> HIDE DEF c
  <2>2. [files[s] EXCEPT !.chunks = c] \in Entry
    BY <1>1, <2>1 DEF Entry
  <2>3. [files EXCEPT ![s].chunks = c] \in [Slots -> Entry]
    BY <1>1, <2>2
  <2> QED
    BY <2>3 DEF c
<1> QED
  BY <1>2, <1>3, <1>5, <1>6

(* A step of a request that moves its thread on and touches nothing else   *)
(* but what is listed in the proof that cites this.                        *)
LEMMA MoveType ==
  ASSUME TypeOK, NEW t \in Threads, pc[t] # "idle",
         NEW label \in Labels \ {"idle", "advance"}, Goto(t, label),
         files' \in [Slots -> Entry], chunk_counter' \in Int, global_file_index' \in Nat,
         file_index' \in [Threads -> Nat], label \in Inside => file_index'[t] \in Slots,
         \A u \in Threads \ {t} : file_index'[u] = file_index[u],
         UNCHANGED <<alive, req, i, reg, log>>
  PROVE  TypeOK'
<1>1. /\ pc' \in [Threads -> Labels]
      /\ pc'[t] = label
      /\ \A u \in Threads \ {t} : pc'[u] = pc[u]
  BY DEF TypeOK, Goto
<1>2. /\ \A u \in Threads : pc'[u] # "idle" => req'[u] \in Request
      /\ \A u \in Threads : pc'[u] = "advance" => reg'[u] \in Nat
      /\ \A u \in Threads : pc'[u] \in Inside => file_index'[u] \in Slots
  BY <1>1 DEF TypeOK
<1> QED
  BY <1>1, <1>2 DEF TypeOK

(* What a request in service holds.                                        *)
LEMMA RequestType ==
  ASSUME TypeOK, NEW t \in Threads, pc[t] # "idle"
  PROVE  req[t].file \in Int /\ req[t].chunk \in Int /\ req[t].data \in Contents
<1>1. req[t] \in Request
  BY DEF TypeOK
<1>2. req[t].file \in FileIds /\ req[t].chunk \in ChunkIds /\ req[t].data \in Payloads \cup {Blank}
  BY <1>1 DEF Request
<1>3. FileIds \subseteq Int /\ ChunkIds \subseteq Int
  BY StorageAssumption
<1> QED
  BY <1>2, <1>3 DEF Contents

(* A label a thread moves to.                                              *)
LEMMA MoveLabels ==
  /\ \A l \in {"claim", "clear", "index", "next", "count", "alloc", "label", "fill", "echo", "grow"} :
       l \in Labels \ {"idle", "advance"}
  /\ \A l \in {"claim", "clear", "index", "next", "count"} : l \notin Inside
  /\ \A l \in {"alloc", "label", "fill", "echo", "grow"} : l \in Inside
BY DEF Labels, Inside

(* Every step of every thread keeps the types: in particular a search      *)
(* stays inside the table, and so does every write that is not a fault.    *)
LEMMA TypeStep == TypeOK /\ [Next]_vars => TypeOK'
<1> SUFFICES ASSUME TypeOK, [Next]_vars PROVE TypeOK'
  OBVIOUS
<1>0. /\ pc \in [Threads -> Labels]
      /\ files \in [Slots -> Entry]
      /\ global_file_index \in Nat
      /\ chunk_counter \in Int
      /\ file_index \in [Threads -> Nat]
      /\ i \in [Threads -> Slots]
      /\ reg \in [Threads -> Int]
      /\ Slots \subseteq Nat
  BY FirstSlot DEF TypeOK
<1>1. ASSUME NEW t \in Threads, Receive(t) PROVE TypeOK'
  <2>1. Len(log) \in Nat
    BY DEF TypeOK
  <2>2. CASE ReceiveWrite(t)
    <3>1. PICK f \in FileIds, c \in ChunkIds, d \in Payloads :
            Serve(t, [op |-> "W", file |-> f, chunk |-> c, data |-> d, seen |-> Len(log)])
      BY <2>2 DEF ReceiveWrite
    <3>2. [op |-> "W", file |-> f, chunk |-> c, data |-> d, seen |-> Len(log)] \in Request
      BY <2>1 DEF Request
    <3> QED
      BY <3>1, <3>2, ServeType
  <2>3. CASE ReceiveRead(t)
    <3>1. PICK f \in FileIds, c \in ChunkIds :
            Serve(t, [op |-> "R", file |-> f, chunk |-> c, data |-> Blank, seen |-> Len(log)])
      BY <2>3 DEF ReceiveRead
    <3>2. [op |-> "R", file |-> f, chunk |-> c, data |-> Blank, seen |-> Len(log)] \in Request
      BY <2>1 DEF Request
    <3> QED
      BY <3>1, <3>2, ServeType
  <2> QED
    BY <1>1, <2>2, <2>3 DEF Receive
<1>2. ASSUME NEW t \in Threads, FindEntry(t) PROVE TypeOK'
  <2>1. /\ file_index' \in [Threads -> Nat]
        /\ file_index'[t] \in Slots
        /\ \A u \in Threads \ {t} : file_index'[u] = file_index[u]
    BY <1>0, <1>2 DEF FindEntry
  <2>2. PICK label \in {"count", "fetch"} : Goto(t, label)
    BY <1>2 DEF FindEntry
  <2>3. label \in Labels \ {"idle", "advance"}
    BY DEF Labels
  <2>4. pc[t] # "idle" /\ UNCHANGED <<files, global_file_index, chunk_counter, alive, req, i, reg, log>>
    BY <1>2 DEF FindEntry, store
  <2> QED
    BY <1>0, <2>1, <2>2, <2>3, <2>4, MoveType
<1>3. ASSUME NEW t \in Threads, PassEntry(t) PROVE TypeOK'
  <2>1. CASE Fault
    BY <2>1, FaultType
  <2>2. CASE /\ i[t] < MAX_FILES - 1
             /\ i' = [i EXCEPT ![t] = @ + 1]
             /\ UNCHANGED <<store, alive, pc, req, file_index, reg, log>>
    <3>1. i' \in [Threads -> Slots]
      BY <1>0, <2>2, FirstSlot
    <3> QED
      BY <2>2, <3>1 DEF TypeOK, store
  <2>3. CASE Goto(t, "claim") /\ UNCHANGED <<store, alive, req, i, file_index, reg, log>>
    <3>1. pc[t] # "idle"
      BY <1>3 DEF PassEntry
    <3>2. "claim" \in Labels \ {"idle", "advance"} /\ "claim" \notin Inside
      BY DEF Labels, Inside
    <3> QED
      BY <1>0, <2>3, <3>1, <3>2, MoveType DEF store
  <2> QED
    BY <1>3, <2>1, <2>2, <2>3 DEF PassEntry
<1>4. ASSUME NEW t \in Threads, ClaimEntry(t) PROVE TypeOK'
  <2>0. req[t].file \in Int /\ req[t].chunk \in Int /\ req[t].data \in Contents
    BY <1>4, RequestType DEF ClaimEntry
  <2>1. CASE global_file_index \in Slots
    <3>1. files' \in [Slots -> Entry]
      <4>1. files' = [files EXCEPT ![global_file_index].file_id = req[t].file]
        BY <1>4, <2>1 DEF ClaimEntry
      <4> QED
        BY <2>0, <2>1, <4>1, EntryType
    <3>2. pc[t] # "idle" /\ Goto(t, "clear") /\ UNCHANGED <<global_file_index, chunk_counter, alive, req, i, file_index, reg, log>>
      BY <1>4, <2>1 DEF ClaimEntry
    <3> QED
      BY <1>0, <3>1, <3>2, MoveType, MoveLabels
  <2> QED
    BY <1>4, <2>1, FaultType DEF ClaimEntry
<1>5. ASSUME NEW t \in Threads, ClearEntry(t) PROVE TypeOK'
  <2>1. CASE global_file_index \in Slots
    <3>1. files' \in [Slots -> Entry]
      <4>1. files' = [files EXCEPT ![global_file_index].num_chunks = 0]
        BY <1>5, <2>1 DEF ClearEntry
      <4> QED
        BY <2>1, <4>1, EntryType
    <3>2. pc[t] # "idle" /\ Goto(t, "index") /\ UNCHANGED <<global_file_index, chunk_counter, alive, req, i, file_index, reg, log>>
      BY <1>5, <2>1 DEF ClearEntry
    <3> QED
      BY <1>0, <3>1, <3>2, MoveType, MoveLabels
  <2> QED
    BY <1>5, <2>1, FaultType DEF ClearEntry
<1>6. ASSUME NEW t \in Threads, TakeIndex(t) PROVE TypeOK'
  <2>1. /\ file_index' \in [Threads -> Nat]
        /\ \A u \in Threads \ {t} : file_index'[u] = file_index[u]
    BY <1>0, <1>6 DEF TakeIndex
  <2>2. pc[t] # "idle" /\ Goto(t, "next") /\ UNCHANGED <<store, alive, req, i, reg, log>>
    BY <1>6 DEF TakeIndex
  <2> QED
    BY <1>0, <2>1, <2>2, MoveType, MoveLabels DEF store
<1>7. ASSUME NEW t \in Threads, LoadIndex(t) PROVE TypeOK'
  <2>1. /\ pc' \in [Threads -> Labels]
        /\ pc'[t] = "advance"
        /\ \A u \in Threads \ {t} : pc'[u] = pc[u]
    BY <1>0, <1>7 DEF LoadIndex, Goto, Labels
  <2>2. /\ reg' \in [Threads -> Int]
        /\ \A u \in Threads : pc'[u] = "advance" => reg'[u] \in Nat
    BY <1>0, <1>7, <2>1 DEF LoadIndex, TypeOK
  <2>3. pc[t] # "idle"
    BY <1>7 DEF LoadIndex
  <2> QED
    BY <1>7, <2>1, <2>2, <2>3 DEF LoadIndex, TypeOK, store, Inside
<1>8. ASSUME NEW t \in Threads, StoreIndex(t) PROVE TypeOK'
  <2>1. global_file_index' \in Nat
    BY <1>8 DEF StoreIndex, TypeOK
  <2> QED
    BY <1>0, <1>8, <2>1, MoveType DEF StoreIndex, Labels, Inside
<1>9. ASSUME NEW t \in Threads, CountChunks(t) PROVE TypeOK'
  <2>1. CASE file_index[t] \in Slots
    <3>1. chunk_counter' \in Int
      BY <1>0, <1>9, <2>1 DEF CountChunks, Entry
    <3>2. /\ pc[t] # "idle"
          /\ Goto(t, "alloc")
          /\ UNCHANGED <<files, global_file_index, alive, req, i, file_index, reg, log>>
      BY <1>9, <2>1 DEF CountChunks
    <3> QED
      BY <1>0, <2>1, <3>1, <3>2, MoveType, MoveLabels
  <2> QED
    BY <1>9, <2>1, FaultType DEF CountChunks
<1>10. ASSUME NEW t \in Threads, AllocChunk(t) PROVE TypeOK'
  <2>1. CASE InTable(t)
    <3>1. files' \in [Slots -> Entry]
      <4>1. files' = [files EXCEPT ![file_index[t]].chunks[chunk_counter].data = Blank]
        BY <1>10, <2>1 DEF AllocChunk
      <4> QED
        BY <2>1, <4>1, EntryType DEF InTable, Contents
    <3>2. pc[t] # "idle" /\ Goto(t, "label") /\ UNCHANGED <<global_file_index, chunk_counter, alive, req, i, file_index, reg, log>>
      BY <1>10, <2>1 DEF AllocChunk
    <3> QED
      BY <1>0, <2>1, <3>1, <3>2, MoveType, MoveLabels DEF InTable
  <2> QED
    BY <1>10, <2>1, FaultType DEF AllocChunk
<1>11. ASSUME NEW t \in Threads, LabelChunk(t) PROVE TypeOK'
  <2>0. req[t].file \in Int /\ req[t].chunk \in Int /\ req[t].data \in Contents
    BY <1>11, RequestType DEF LabelChunk
  <2>1. CASE InTable(t)
    <3>1. files' \in [Slots -> Entry]
      <4>1. files' = [files EXCEPT ![file_index[t]].chunks[chunk_counter].id = req[t].chunk]
        BY <1>11, <2>1 DEF LabelChunk
      <4> QED
        BY <2>0, <2>1, <4>1, EntryType DEF InTable
    <3>2. pc[t] # "idle" /\ Goto(t, "fill") /\ UNCHANGED <<global_file_index, chunk_counter, alive, req, i, file_index, reg, log>>
      BY <1>11, <2>1 DEF LabelChunk
    <3> QED
      BY <1>0, <2>1, <3>1, <3>2, MoveType, MoveLabels DEF InTable
  <2> QED
    BY <1>11, <2>1, FaultType DEF LabelChunk
<1>12. ASSUME NEW t \in Threads, FillChunk(t) PROVE TypeOK'
  <2>0. req[t].file \in Int /\ req[t].chunk \in Int /\ req[t].data \in Contents
    BY <1>12, RequestType DEF FillChunk
  <2>1. CASE InTable(t) /\ ~Fault
    <3>1. files' \in [Slots -> Entry]
      <4>1. files' = [files EXCEPT ![file_index[t]].chunks[chunk_counter].data = req[t].data]
        BY <1>12, <2>1 DEF FillChunk
      <4> QED
        BY <2>0, <2>1, <4>1, EntryType DEF InTable
    <3>2. pc[t] # "idle" /\ Goto(t, "echo") /\ UNCHANGED <<global_file_index, chunk_counter, alive, req, i, file_index, reg, log>>
      BY <1>12, <2>1 DEF FillChunk
    <3> QED
      BY <1>0, <2>1, <3>1, <3>2, MoveType, MoveLabels DEF InTable
  <2> QED
    BY <1>12, <2>1, FaultType DEF FillChunk
<1>13. ASSUME NEW t \in Threads, EchoChunk(t) PROVE TypeOK'
  <2>1. CASE ~Fault
    <3>1. pc[t] = "echo" /\ Goto(t, "grow") /\ UNCHANGED <<store, alive, req, i, file_index, reg, log>>
      BY <1>13, <2>1 DEF EchoChunk
    <3>2. file_index[t] \in Slots
      BY <3>1 DEF TypeOK, Inside
    <3> QED
      BY <1>0, <3>1, <3>2, MoveType, MoveLabels DEF store
  <2> QED
    BY <2>1, FaultType
<1>14. ASSUME NEW t \in Threads, LoadCount(t) PROVE TypeOK'
  <2>1. /\ pc' \in [Threads -> Labels]
        /\ pc'[t] = "grown"
        /\ \A u \in Threads \ {t} : pc'[u] = pc[u]
    BY <1>0, <1>14 DEF LoadCount, Goto, Labels
  <2>2. pc[t] # "idle" /\ file_index[t] \in Slots
    BY <1>14 DEF LoadCount, TypeOK, Inside
  <2>3. /\ reg' \in [Threads -> Int]
        /\ \A u \in Threads \ {t} : reg'[u] = reg[u]
    <3>1. files[file_index[t]].num_chunks \in Int
      BY <1>0, <2>2 DEF Entry
    <3> QED
      BY <1>0, <1>14, <3>1 DEF LoadCount
  <2> QED
    BY <1>14, <2>1, <2>2, <2>3 DEF LoadCount, TypeOK, store
<1>15. ASSUME NEW t \in Threads, StoreCount(t) PROVE TypeOK'
  <2>1. pc[t] # "idle" /\ file_index[t] \in Slots /\ reg[t] \in Int
    BY <1>15 DEF StoreCount, TypeOK, Inside
  <2>2. req[t].data \in Payloads \cup {Blank, Garbled}
    BY <2>1 DEF TypeOK, Request
  <2>3. files' \in [Slots -> Entry]
    <3>1. files' = [files EXCEPT ![file_index[t]].num_chunks = reg[t] + 1]
      BY <1>15 DEF StoreCount
    <3> QED
      BY <2>1, <3>1, EntryType
  <2>4. Done(t, req[t].data, reg[t]) /\ UNCHANGED <<global_file_index, chunk_counter, alive, i>>
    BY <1>15 DEF StoreCount
  <2> HIDE DEF Done
  <2>5. /\ pc' \in [Threads -> Labels]
        /\ req' \in [Threads -> Request \cup {NoRequest}]
        /\ \A u \in Threads : pc'[u] # "idle" => req'[u] \in Request
        /\ file_index' \in [Threads -> Nat]
        /\ \A u \in Threads : pc'[u] \in Inside => file_index'[u] \in Slots
        /\ reg' \in [Threads -> Int]
        /\ \A u \in Threads : pc'[u] = "advance" => reg'[u] \in Nat
        /\ log' \in Seq(Served)
    BY <2>1, <2>2, <2>4, DoneType
  <2> QED
    BY <2>3, <2>4, <2>5 DEF TypeOK
<1>16. ASSUME NEW t \in Threads, FetchChunk(t) PROVE TypeOK'
  <2>1. CASE Fault
    BY <2>1, FaultType
  <2>2. CASE ~Fault
    <3>1. pc[t] # "idle" /\ file_index[t] \in Slots /\ req[t].chunk \in Positions
      BY <1>16, <2>2 DEF FetchChunk, TypeOK, Inside
    <3> DEFINE d == files[file_index[t]].chunks[req[t].chunk].data
    <3>2. d \in Contents
      BY <1>0, <3>1 DEF Entry
    <3>3. Measured(d) \in Payloads \cup {Blank, Garbled}
      BY StorageAssumption DEF Measured
    <3>4. req[t].chunk \in Int
      BY <3>1 DEF Positions
    <3> HIDE DEF d
    <3>5. Done(t, Measured(d), req[t].chunk) /\ UNCHANGED <<store, alive, i>>
      BY <1>16, <2>2 DEF FetchChunk, d
    <3> QED
      BY <3>1, <3>3, <3>4, <3>5, DoneType DEF TypeOK, store
  <2> QED
    BY <2>1, <2>2
<1>17. CASE UNCHANGED vars
  BY <1>17 DEF vars, store, TypeOK
<1> QED
  BY <1>1, <1>2, <1>3, <1>4, <1>5, <1>6, <1>7, <1>8, <1>9, <1>10, <1>11, <1>12, <1>13,
     <1>14, <1>15, <1>16, <1>17 DEF Next, Step

(* The table, counters, threads and history are always of their types.     *)
THEOREM StorageTypeCorrect == Spec => []TypeOK
<1>1. Init => TypeOK
  <2> SUFFICES ASSUME Init PROVE TypeOK
    OBVIOUS
  <2>1. i \in [Threads -> Slots]
    BY FirstSlot DEF Init
  <2> QED
    BY <2>1, EmptyTableType DEF Init, TypeOK, Labels, Inside
<1> QED
  BY <1>1, TypeStep, PTL DEF Spec

-----------------------------------------------------------------------------
(* One writer: a file has one entry, and writes are kept                   *)

(* At most one connection writes; any number read at the same time.        *)
SingleWriter == \A s, t \in Writers : s = t

Claiming(t) == pc[t] \in {"clear", "index", "next", "advance"}
Filling(t) == pc[t] \in {"alloc", "label", "fill", "echo", "grow", "grown"}
Writing(t) == pc[t] \in {"search", "claim", "count"} \/ Claiming(t) \/ Filling(t)

(* What the thread of a write knows of the table, from step to step.       *)
Placed(t) ==
  /\ pc[t] = "search" => \A s \in Slots : s < i[t] => files[s].file_id # req[t].file
  /\ pc[t] = "claim" => \A s \in Slots : files[s].file_id # req[t].file
  /\ Claiming(t) => global_file_index \in Slots /\ files[global_file_index].file_id = req[t].file
  /\ pc[t] = "clear" => files[global_file_index].num_chunks = -1
  /\ pc[t] \in {"next", "advance"} => file_index[t] = global_file_index
  /\ pc[t] = "advance" => reg[t] = global_file_index
  /\ pc[t] = "count" \/ Filling(t) =>
       file_index[t] \in Slots /\ files[file_index[t]].file_id = req[t].file
  /\ Filling(t) => chunk_counter = files[file_index[t]].num_chunks
  /\ Filling(t) /\ pc[t] # "alloc" => chunk_counter \in Positions
  /\ pc[t] \in {"fill", "echo", "grow", "grown"} => Current(t).id = req[t].chunk
  /\ pc[t] \in {"echo", "grow", "grown"} => Current(t).data = req[t].data
  /\ pc[t] = "grown" => reg[t] = chunk_counter

(* What the table looks like: entries below the index are taken, those     *)
(* above are as memset left them, and the one at the index is being        *)
(* claimed or free.                                                        *)
TableInv ==
  /\ global_file_index <= MAX_FILES
  /\ \A s \in Slots : s > global_file_index => files[s].file_id = -1
  /\ \A s \in Slots :
       s = global_file_index /\ (\A t \in Threads : ~Claiming(t)) => files[s].file_id = -1
  /\ \A s \in Slots : files[s].num_chunks \in -1 .. MAX_CHUNKS
  /\ \A s \in Slots : files[s].file_id = -1 => files[s].num_chunks = -1
  /\ \A s \in Slots :
       files[s].file_id # -1 =>
         files[s].num_chunks # -1 \/ \E t \in Threads : pc[t] = "clear" /\ s = global_file_index
  /\ OneEntryPerFile

RoleInv ==
  /\ \A t \in Threads : pc[t] # "idle" /\ req[t].op = "W" => t \in Writers /\ Writing(t)
  /\ \A t \in Threads : Writing(t) /\ pc[t] # "search" => req[t].op = "W"

PlaceInv ==
  /\ RoleInv
  /\ TableInv
  /\ \A t \in Threads : pc[t] # "idle" /\ req[t].op = "W" => Placed(t)

(* The writer is alone: every other thread is idle or reads.               *)
LEMMA OthersRead ==
  ASSUME SingleWriter, RoleInv, NEW t \in Threads, pc[t] # "idle", req[t].op = "W"
  PROVE  \A u \in Threads \ {t} :
           /\ pc[u] = "idle" \/ req[u].op # "W"
           /\ ~Claiming(u) /\ ~Filling(u) /\ pc[u] \notin {"claim", "count"}
BY DEF SingleWriter, RoleInv, Writing, Claiming, Filling

(* A step that leaves the table and the writer alone.                      *)
LEMMA QuietStep ==
  ASSUME TypeOK, PlaceInv, NEW t \in Threads,
         UNCHANGED store,
         pc[t] = "idle" \/ req[t].op = "R",
         pc'[t] \in {"idle", "search", "fetch"},
         pc'[t] = "idle" \/ req'[t].op = "R",
         \A u \in Threads \ {t} : /\ pc'[u] = pc[u] /\ req'[u] = req[u] /\ i'[u] = i[u]
                                 /\ file_index'[u] = file_index[u] /\ reg'[u] = reg[u]
  PROVE  PlaceInv'
<1>1. /\ ~Claiming(t) /\ ~Claiming(t)' /\ ~Filling(t) /\ ~Filling(t)'
      /\ \A u \in Threads \ {t} : Claiming(u)' = Claiming(u) /\ Filling(u)' = Filling(u)
  BY DEF PlaceInv, RoleInv, Writing, Claiming, Filling
<1>2. RoleInv'
  BY <1>1 DEF PlaceInv, RoleInv, Writing
<1>3. pc[t] # "clear"
  BY <1>1 DEF Claiming
<1>4. TableInv'
  BY <1>1, <1>3 DEF PlaceInv, TableInv, OneEntryPerFile, store, Claiming
<1>5. ASSUME NEW u \in Threads, pc'[u] # "idle", req'[u].op = "W" PROVE Placed(u)'
  <2>1. u # t
    BY <1>5
  <2>2. pc'[u] = pc[u] /\ req'[u] = req[u] /\ Placed(u)
    BY <1>5, <2>1 DEF PlaceInv
  <2> QED
    BY <1>1, <2>1, <2>2 DEF Placed, Current, store
<1> QED
  BY <1>2, <1>4, <1>5 DEF PlaceInv

(* A step of the writer only has to place the writer again.                *)
LEMMA WriterStep ==
  ASSUME SingleWriter, TypeOK, PlaceInv, NEW t \in Threads, pc[t] # "idle", req[t].op = "W",
         UNCHANGED req,
         pc' = [pc EXCEPT ![t] = pc'[t]], Writing(t)',
         TableInv', Placed(t)'
  PROVE  PlaceInv'
<1>1. \A u \in Threads \ {t} : pc'[u] = pc[u]
  BY DEF TypeOK
<1>2. \A u \in Threads \ {t} : pc'[u] = "idle" \/ req'[u].op # "W"
  BY <1>1, OthersRead DEF PlaceInv
<1>3. \A u \in Threads \ {t} : Writing(u)' = Writing(u)
  BY <1>1 DEF Writing, Claiming, Filling
<1>4. RoleInv'
  BY <1>1, <1>2, <1>3 DEF PlaceInv, RoleInv
<1> QED
  BY <1>2, <1>4 DEF PlaceInv

(* A step that leaves the table alone and claims nothing.                  *)
LEMMA SameTable ==
  ASSUME TableInv, UNCHANGED <<files, global_file_index>>, NEW t \in Threads,
         \A u \in Threads \ {t} : pc'[u] = pc[u],
         Claiming(t)' = Claiming(t), pc[t] # "clear", pc'[t] # "clear"
  PROVE  TableInv'
<1>1. \A u \in Threads : Claiming(u)' = Claiming(u)
  BY DEF Claiming
<1>2. \A u \in Threads : pc[u] = "clear" => pc'[u] = "clear"
  OBVIOUS
<1> QED
  BY <1>1, <1>2 DEF TableInv, OneEntryPerFile

(* A chunk of the entry the writer fills is changed, and no entry is       *)
(* being claimed.                                                          *)
LEMMA SameEntries ==
  ASSUME TableInv, \A u \in Threads : ~Claiming(u)', \A u \in Threads : ~Claiming(u),
         global_file_index' = global_file_index,
         \A s \in Slots : /\ files'[s].file_id = files[s].file_id
                          /\ files'[s].num_chunks = files[s].num_chunks
  PROVE  TableInv'
<1>1. \A u \in Threads : pc[u] # "clear"
  BY DEF Claiming
<1> QED
  BY <1>1 DEF TableInv, OneEntryPerFile

(* What an update of one field of the table changes.                       *)
LEMMA EntryUpdate ==
  ASSUME TypeOK, NEW s \in Slots, NEW v
  PROVE  /\ LET g == [files EXCEPT ![s].file_id = v]
            IN  /\ g[s].file_id = v
                /\ g[s].num_chunks = files[s].num_chunks
                /\ g[s].chunks = files[s].chunks
                /\ \A r \in Slots \ {s} : g[r] = files[r]
         /\ LET g == [files EXCEPT ![s].num_chunks = v]
            IN  /\ g[s].file_id = files[s].file_id
                /\ g[s].num_chunks = v
                /\ g[s].chunks = files[s].chunks
                /\ \A r \in Slots \ {s} : g[r] = files[r]
BY DEF TypeOK, Entry

LEMMA ChunkUpdate ==
  ASSUME TypeOK, NEW s \in Slots, NEW k \in Positions, NEW v
  PROVE  /\ LET g == [files EXCEPT ![s].chunks[k].id = v]
            IN  /\ g[s].file_id = files[s].file_id
                /\ g[s].num_chunks = files[s].num_chunks
                /\ g[s].chunks[k].id = v
                /\ g[s].chunks[k].data = files[s].chunks[k].data
                /\ \A c \in Positions \ {k} : g[s].chunks[c] = files[s].chunks[c]
                /\ \A r \in Slots \ {s} : g[r] = files[r]
         /\ LET g == [files EXCEPT ![s].chunks[k].data = v]
            IN  /\ g[s].file_id = files[s].file_id
                /\ g[s].num_chunks = files[s].num_chunks
                /\ g[s].chunks[k].id = files[s].chunks[k].id
                /\ g[s].chunks[k].data = v
                /\ \A c \in Positions \ {k} : g[s].chunks[c] = files[s].chunks[c]
                /\ \A r \in Slots \ {s} : g[r] = files[r]
<1>1. files \in [Slots -> Entry]
  BY DEF TypeOK
<1>2. files[s].chunks \in [Positions -> [id : Int, data : Contents]]
  BY <1>1 DEF Entry
<1>3. files[s] = [file_id |-> files[s].file_id, num_chunks |-> files[s].num_chunks,
                  chunks |-> files[s].chunks]
  BY <1>1 DEF Entry
<1> QED
  BY <1>1, <1>2, <1>3 DEF Entry

LEMMA FaultPlace == PlaceInv /\ Fault => PlaceInv'
BY DEF PlaceInv, RoleInv, TableInv, Placed, OneEntryPerFile, Current, Writing, Claiming,
       Filling, Fault, store

(* A thread takes up a request.                                            *)
LEMMA ServePlace ==
  ASSUME SingleWriter, TypeOK, PlaceInv, NEW t \in Threads, NEW r \in Request,
         r.op = "W" => t \in Writers, Serve(t, r)
  PROVE  PlaceInv'
<1>1. /\ pc[t] = "idle"
      /\ pc'[t] = "search"
      /\ req'[t] = r
      /\ i'[t] = 0
      /\ UNCHANGED store
      /\ \A u \in Threads \ {t} : /\ pc'[u] = pc[u] /\ req'[u] = req[u] /\ i'[u] = i[u]
                              /\ file_index'[u] = file_index[u] /\ reg'[u] = reg[u]
  BY DEF TypeOK, Serve, Goto
<1>2. CASE r.op = "R"
  BY <1>1, <1>2, QuietStep
<1>3. CASE r.op = "W"
  <2>1. TableInv'
    BY <1>1, SameTable DEF PlaceInv, Claiming, store
  <2>2. \A u \in Threads \ {t} : pc'[u] = "idle" \/ req'[u].op # "W"
    BY <1>1, <1>3 DEF SingleWriter, PlaceInv, RoleInv
  <2>3. \A u \in Threads \ {t} : Writing(u)' = Writing(u)
    BY <1>1 DEF Writing, Claiming, Filling
  <2>4. RoleInv'
    BY <1>1, <1>3, <2>2, <2>3 DEF PlaceInv, RoleInv, Writing
  <2>5. \A s \in Slots : ~ (s < i'[t])
    BY <1>1, FirstSlot
  <2>6. Placed(t)'
    BY <1>1, <2>5 DEF Placed, Claiming, Filling
  <2> QED
    BY <2>1, <2>2, <2>4, <2>6 DEF PlaceInv
<1> QED
  BY <1>2, <1>3 DEF Request

LEMMA PlaceStep ==
  ASSUME SingleWriter, TypeOK, PlaceInv, [Next]_vars
  PROVE  PlaceInv'
<1>0. /\ pc \in [Threads -> Labels]
      /\ i \in [Threads -> Slots]
      /\ file_index \in [Threads -> Nat]
      /\ reg \in [Threads -> Int]
      /\ global_file_index \in Nat
      /\ Slots \subseteq Nat
      /\ MAX_FILES \in Nat /\ MAX_CHUNKS \in Nat
      /\ \A u \in Threads : pc[u] # "idle" => req[u].op \in {"R", "W"} /\ req[u].file \in Nat
  <2>1. FileIds \subseteq Nat /\ MAX_FILES \in Nat /\ MAX_CHUNKS \in Nat
    BY StorageAssumption
  <2> QED
    BY <2>1, FirstSlot DEF TypeOK, Request
<1>1. ASSUME NEW t \in Threads, Receive(t) PROVE PlaceInv'
  <2>1. Len(log) \in Nat
    BY DEF TypeOK
  <2>2. CASE ReceiveWrite(t)
    <3>1. PICK f \in FileIds, c \in ChunkIds, d \in Payloads :
            Serve(t, [op |-> "W", file |-> f, chunk |-> c, data |-> d, seen |-> Len(log)])
      BY <2>2 DEF ReceiveWrite
    <3>2. [op |-> "W", file |-> f, chunk |-> c, data |-> d, seen |-> Len(log)] \in Request
      BY <2>1 DEF Request
    <3>3. t \in Writers
      BY <2>2 DEF ReceiveWrite
    <3> QED
      BY <3>1, <3>2, <3>3, ServePlace
  <2>3. CASE ReceiveRead(t)
    <3>1. PICK f \in FileIds, c \in ChunkIds :
            Serve(t, [op |-> "R", file |-> f, chunk |-> c, data |-> Blank, seen |-> Len(log)])
      BY <2>3 DEF ReceiveRead
    <3>2. [op |-> "R", file |-> f, chunk |-> c, data |-> Blank, seen |-> Len(log)] \in Request
      BY <2>1 DEF Request
    <3> QED
      BY <3>1, <3>2, ServePlace
  <2> QED
    BY <1>1, <2>2, <2>3 DEF Receive
<1>2. ASSUME NEW t \in Threads, FindEntry(t) PROVE PlaceInv'
  <2>1. /\ pc[t] = "search"
        /\ files[i[t]].file_id = req[t].file
        /\ file_index' = [file_index EXCEPT ![t] = i[t]]
        /\ pc' = [pc EXCEPT ![t] = IF req[t].op = "W" THEN "count" ELSE "fetch"]
        /\ UNCHANGED <<files, global_file_index, chunk_counter, req, i, reg>>
    BY <1>2 DEF FindEntry, Goto, store
  <2>2. CASE req[t].op = "W"
    <3>1. pc'[t] = "count" /\ \A u \in Threads \ {t} : pc'[u] = pc[u]
      BY <1>0, <2>1, <2>2
    <3>2. TableInv'
      BY <2>1, <3>1, SameTable DEF PlaceInv, Claiming
    <3>3. Placed(t)'
      BY <1>0, <2>1, <3>1 DEF Placed, Claiming, Filling
    <3> QED
      BY <1>0, <2>1, <2>2, <3>1, <3>2, <3>3, WriterStep DEF Writing
  <2>3. CASE req[t].op = "R"
    <3>1. pc'[t] = "fetch"
      BY <1>0, <2>1, <2>3
    <3> QED
      BY <1>0, <2>1, <2>3, <3>1, QuietStep DEF store
  <2> QED
    BY <1>0, <2>1, <2>2, <2>3
<1>3. ASSUME NEW t \in Threads, PassEntry(t) PROVE PlaceInv'
  <2>1. pc[t] = "search" /\ files[i[t]].file_id # req[t].file /\ i[t] \in Nat
    BY <1>0, <1>3 DEF PassEntry
  <2>2. CASE /\ i[t] < MAX_FILES - 1
             /\ i' = [i EXCEPT ![t] = @ + 1]
             /\ UNCHANGED <<store, alive, pc, req, file_index, reg, log>>
    <3>1. CASE req[t].op = "W"
      <4>1. TableInv'
        BY <2>1, <2>2, SameTable DEF PlaceInv, Claiming, store
      <4>2. \A s \in Slots : s < i'[t] => s < i[t] \/ s = i[t]
        <5>1. i'[t] = i[t] + 1
          BY <1>0, <2>2
        <5>2. i[t] \in Nat /\ \A s \in Slots : s \in Nat
          BY <2>1, FirstSlot
        <5> QED
          BY <5>1, <5>2
      <4>3. Placed(t)
        BY <2>1, <3>1 DEF PlaceInv
      <4>4. Placed(t)'
        BY <2>1, <2>2, <4>2, <4>3 DEF Placed, Claiming, Filling, store
      <4> QED
        BY <1>0, <2>1, <2>2, <3>1, <4>1, <4>4, WriterStep DEF Writing
    <3>2. CASE req[t].op = "R"
      BY <1>0, <2>1, <2>2, <3>2, QuietStep
    <3> QED
      BY <1>0, <2>1, <3>1, <3>2
  <2>3. CASE /\ i[t] >= MAX_FILES - 1
             /\ req[t].op = "W"
             /\ Goto(t, "claim")
             /\ UNCHANGED <<store, alive, req, i, file_index, reg, log>>
    <3>1. /\ pc' = [pc EXCEPT ![t] = "claim"]
          /\ pc'[t] = "claim"
          /\ \A u \in Threads \ {t} : pc'[u] = pc[u]
      BY <1>0, <2>3 DEF Goto
    <3>2. TableInv'
      BY <2>1, <2>3, <3>1, SameTable DEF PlaceInv, Claiming, store
    <3>3. \A s \in Slots : s < i[t] \/ s = i[t]
      BY <1>0, <2>3 DEF Slots
    <3>4. Placed(t)
      BY <2>1, <2>3 DEF PlaceInv
    <3>5. Placed(t)'
      BY <2>1, <2>3, <3>1, <3>3, <3>4 DEF Placed, Claiming, Filling, store
    <3> QED
      BY <1>0, <2>1, <2>3, <3>1, <3>2, <3>5, WriterStep DEF Writing
  <2> QED
    BY <1>0, <1>3, <2>1, <2>2, <2>3, FaultPlace DEF PassEntry
<1> DEFINE gi == global_file_index
<1>4. ASSUME NEW t \in Threads, ClaimEntry(t) PROVE PlaceInv'
  <2>1. CASE gi \in Slots
    <3>1. /\ pc[t] = "claim"
          /\ pc' = [pc EXCEPT ![t] = "clear"]
          /\ files' = [files EXCEPT ![gi].file_id = req[t].file]
          /\ UNCHANGED <<global_file_index, chunk_counter, req, i, file_index, reg>>
      BY <1>4, <2>1 DEF ClaimEntry, Goto
    <3>2. pc'[t] = "clear" /\ \A u \in Threads \ {t} : pc'[u] = pc[u]
      BY <1>0, <3>1
    <3>3. /\ files'[gi].file_id = req[t].file
          /\ files'[gi].num_chunks = files[gi].num_chunks
          /\ \A s \in Slots \ {gi} : files'[s] = files[s]
      BY <2>1, <3>1, EntryUpdate
    <3>4. req[t].op = "W" /\ req[t].file # -1
      BY <1>0, <3>1 DEF PlaceInv, RoleInv, Writing
    <3>5. \A s \in Slots : files[s].file_id # req[t].file
      BY <3>1, <3>4 DEF PlaceInv, Placed
    <3>6. \A u \in Threads : ~Claiming(u) /\ pc[u] # "clear"
      BY <3>1, <3>4, OthersRead DEF PlaceInv, Claiming
    <3>7. Claiming(t)'
      BY <3>2 DEF Claiming
    <3>8. OneEntryPerFile'
      BY <2>1, <3>3, <3>5 DEF PlaceInv, TableInv, OneEntryPerFile
    <3>9. TableInv'
      BY <1>0, <2>1, <3>1, <3>2, <3>3, <3>4, <3>6, <3>7, <3>8 DEF PlaceInv, TableInv
    <3>10. files[gi].num_chunks = -1
      BY <2>1, <3>6 DEF PlaceInv, TableInv
    <3>11. Placed(t)'
      BY <2>1, <3>1, <3>2, <3>3, <3>10 DEF Placed, Claiming, Filling
    <3> QED
      BY <3>1, <3>2, <3>4, <3>7, <3>9, <3>11, WriterStep DEF Writing
  <2> QED
    BY <1>4, <2>1, FaultPlace DEF ClaimEntry
<1>5. ASSUME NEW t \in Threads, ClearEntry(t) PROVE PlaceInv'
  <2>1. CASE gi \in Slots
    <3>1. /\ pc[t] = "clear"
          /\ pc' = [pc EXCEPT ![t] = "index"]
          /\ files' = [files EXCEPT ![gi].num_chunks = 0]
          /\ UNCHANGED <<global_file_index, chunk_counter, req, i, file_index, reg>>
      BY <1>5, <2>1 DEF ClearEntry, Goto
    <3>2. pc'[t] = "index" /\ \A u \in Threads \ {t} : pc'[u] = pc[u]
      BY <1>0, <3>1
    <3>3. /\ files'[gi].file_id = files[gi].file_id
          /\ files'[gi].num_chunks = 0
          /\ \A s \in Slots \ {gi} : files'[s] = files[s]
      BY <2>1, <3>1, EntryUpdate
    <3>4. req[t].op = "W" /\ req[t].file # -1
      BY <1>0, <3>1 DEF PlaceInv, RoleInv, Writing, Claiming
    <3>5. files[gi].file_id = req[t].file
      BY <3>1, <3>4 DEF PlaceInv, Placed, Claiming
    <3>6. Claiming(t) /\ Claiming(t)'
      BY <3>1, <3>2 DEF Claiming
    <3>7. TableInv'
      BY <1>0, <2>1, <3>1, <3>2, <3>3, <3>4, <3>5, <3>6 DEF PlaceInv, TableInv, OneEntryPerFile
    <3>8. Placed(t)'
      BY <2>1, <3>1, <3>2, <3>3, <3>5 DEF Placed, Claiming, Filling
    <3> QED
      BY <3>1, <3>2, <3>4, <3>6, <3>7, <3>8, WriterStep DEF Writing
  <2> QED
    BY <1>5, <2>1, FaultPlace DEF ClearEntry
<1>6. ASSUME NEW t \in Threads, TakeIndex(t) \/ LoadIndex(t) PROVE PlaceInv'
  <2>1. /\ pc[t] \in {"index", "next"}
        /\ pc' = [pc EXCEPT ![t] = pc'[t]]
        /\ pc'[t] \in {"next", "advance"}
        /\ \A u \in Threads \ {t} : pc'[u] = pc[u]
        /\ UNCHANGED <<files, global_file_index, req>>
    BY <1>0, <1>6 DEF TakeIndex, LoadIndex, Goto, store
  <2>2. req[t].op = "W"
    BY <2>1 DEF PlaceInv, RoleInv, Writing, Claiming
  <2>3. Claiming(t) /\ Claiming(t)'
    BY <2>1 DEF Claiming
  <2>4. TableInv'
    BY <2>1, <2>3, SameTable DEF PlaceInv
  <2>5. Placed(t)
    BY <2>1, <2>2 DEF PlaceInv
  <2>6. /\ file_index'[t] = gi
        /\ pc'[t] = "advance" => reg'[t] = gi
    BY <1>0, <1>6, <2>5 DEF TakeIndex, LoadIndex, Goto, Placed
  <2>7. Placed(t)'
    BY <2>1, <2>3, <2>5, <2>6 DEF Placed, Claiming, Filling
  <2> QED
    BY <2>1, <2>2, <2>3, <2>4, <2>7, WriterStep DEF Writing
<1>7. ASSUME NEW t \in Threads, StoreIndex(t) PROVE PlaceInv'
  <2>1. /\ pc[t] = "advance"
        /\ pc' = [pc EXCEPT ![t] = "count"]
        /\ global_file_index' = reg[t] + 1
        /\ UNCHANGED <<files, chunk_counter, req, i, file_index, reg>>
    BY <1>7 DEF StoreIndex, Goto
  <2>2. pc'[t] = "count" /\ \A u \in Threads \ {t} : pc'[u] = pc[u]
    BY <1>0, <2>1
  <2>3. req[t].op = "W"
    BY <2>1 DEF PlaceInv, RoleInv, Writing, Claiming
  <2>4. /\ gi \in Slots
        /\ files[gi].file_id = req[t].file
        /\ file_index[t] = gi
        /\ reg[t] = gi
    BY <2>1, <2>3 DEF PlaceInv, Placed, Claiming
  <2>5. \A u \in Threads : pc[u] # "clear"
    BY <2>1, <2>3, OthersRead DEF PlaceInv, Claiming
  <2>6. gi' = gi + 1 /\ gi + 1 <= MAX_FILES
    BY <1>0, <2>1, <2>4 DEF Slots
  <2>7. TableInv'
    <3>1. TableInv
      BY DEF PlaceInv
    <3>2. \A s \in Slots : s >= gi + 1 => files[s].file_id = -1
      <4> SUFFICES ASSUME NEW s \in Slots, s >= gi + 1 PROVE files[s].file_id = -1
        OBVIOUS
      <4>1. s > gi
        BY <1>0
      <4> QED
        BY <3>1, <4>1 DEF TableInv
    <3>3. \A s \in Slots : files[s].file_id # -1 => files[s].num_chunks # -1
      BY <2>5, <3>1 DEF TableInv
    <3>4. files' = files /\ gi' = gi + 1
      BY <2>1, <2>6
    <3>5. gi' <= MAX_FILES
      BY <2>6
    <3>6. \A s \in Slots : s > gi' \/ s = gi' => files'[s].file_id = -1
      <4> SUFFICES ASSUME NEW s \in Slots, s > gi' \/ s = gi' PROVE files'[s].file_id = -1
        OBVIOUS
      <4>1. s >= gi + 1
        BY <1>0, <3>4
      <4>2. files[s].file_id = -1
        BY <3>2, <4>1
      <4> QED
        BY <3>4, <4>2
    <3>7. /\ \A s \in Slots : files'[s].num_chunks \in -1 .. MAX_CHUNKS
          /\ \A s \in Slots : files'[s].file_id = -1 => files'[s].num_chunks = -1
          /\ OneEntryPerFile'
      BY <3>1, <3>4 DEF TableInv, OneEntryPerFile
    <3>8. \A s \in Slots : files'[s].file_id # -1 => files'[s].num_chunks # -1
      BY <3>3, <3>4
    <3> QED
      BY <3>5, <3>6, <3>7, <3>8 DEF TableInv
  <2>8. Placed(t)'
    BY <2>1, <2>2, <2>4 DEF Placed, Claiming, Filling
  <2> QED
    BY <2>1, <2>2, <2>3, <2>7, <2>8, WriterStep DEF Writing
<1>8. ASSUME NEW t \in Threads, CountChunks(t) PROVE PlaceInv'
  <2>1. CASE file_index[t] \in Slots
    <3>1. /\ pc[t] = "count"
          /\ pc' = [pc EXCEPT ![t] = "alloc"]
          /\ chunk_counter' = files[file_index[t]].num_chunks
          /\ UNCHANGED <<files, global_file_index, req, i, file_index, reg>>
      BY <1>8, <2>1 DEF CountChunks, Goto
    <3>2. pc'[t] = "alloc" /\ \A u \in Threads \ {t} : pc'[u] = pc[u]
      BY <1>0, <3>1
    <3>3. req[t].op = "W"
      BY <3>1 DEF PlaceInv, RoleInv, Writing
    <3>4. TableInv'
      BY <3>1, <3>2, SameTable DEF PlaceInv, Claiming
    <3>5. files[file_index[t]].file_id = req[t].file
      BY <3>1, <3>3 DEF PlaceInv, Placed
    <3>6. Placed(t)'
      BY <2>1, <3>1, <3>2, <3>5 DEF Placed, Claiming, Filling
    <3> QED
      BY <3>1, <3>2, <3>3, <3>4, <3>6, WriterStep DEF Writing, Filling
  <2> QED
    BY <1>8, <2>1, FaultPlace DEF CountChunks
<1>9. ASSUME NEW t \in Threads, AllocChunk(t) \/ LabelChunk(t) \/ FillChunk(t) \/ EchoChunk(t)
      PROVE  PlaceInv'
  <2>1. CASE ~Fault
    <3>1. /\ pc[t] \in {"alloc", "label", "fill", "echo"}
          /\ pc' = [pc EXCEPT ![t] = pc'[t]]
          /\ pc'[t] \in {"label", "fill", "echo", "grow"}
          /\ pc'[t] = "label" => pc[t] = "alloc"
          /\ pc'[t] = "fill" => pc[t] = "label"
          /\ pc'[t] = "echo" => pc[t] = "fill"
          /\ pc'[t] = "grow" => pc[t] = "echo"
          /\ \A u \in Threads \ {t} : pc'[u] = pc[u]
          /\ file_index[t] \in Slots /\ chunk_counter \in Positions
          /\ UNCHANGED <<global_file_index, chunk_counter, req, i, file_index, reg>>
      BY <1>0, <1>9, <2>1 DEF AllocChunk, LabelChunk, FillChunk, EchoChunk, Goto, InTable, store
    <3>2. /\ pc'[t] \in {"fill", "echo", "grow"} => Current(t).id = req[t].chunk \/ pc[t] = "label"
          /\ pc'[t] = "grow" => Current(t).data = req[t].data
      BY <1>0, <1>9, <2>1, <3>1
         DEF AllocChunk, LabelChunk, FillChunk, EchoChunk, Goto, PlaceInv, Placed, RoleInv, Writing, Filling
    <3>3. /\ \A s \in Slots : /\ files'[s].file_id = files[s].file_id
                              /\ files'[s].num_chunks = files[s].num_chunks
          /\ pc[t] = "label" => Current(t)'.id = req[t].chunk
          /\ pc[t] \in {"fill", "echo"} => Current(t)'.id = Current(t).id
          /\ pc[t] = "fill" => Current(t)'.data = req[t].data
          /\ pc[t] = "echo" => Current(t)'.data = Current(t).data
      <4>1. CASE AllocChunk(t)
        <5>1. pc[t] = "alloc" /\ files' = [files EXCEPT ![file_index[t]].chunks[chunk_counter].data = Blank]
          BY <2>1, <4>1 DEF AllocChunk
        <5> QED
          BY <3>1, <5>1, ChunkUpdate
      <4>2. CASE LabelChunk(t)
        <5>1. /\ pc[t] = "label"
              /\ files' = [files EXCEPT ![file_index[t]].chunks[chunk_counter].id = req[t].chunk]
          BY <2>1, <4>2 DEF LabelChunk
        <5> QED
          BY <3>1, <5>1, ChunkUpdate DEF Current
      <4>3. CASE FillChunk(t)
        <5>1. /\ pc[t] = "fill"
              /\ files' = [files EXCEPT ![file_index[t]].chunks[chunk_counter].data = req[t].data]
          BY <2>1, <4>3 DEF FillChunk
        <5> QED
          BY <3>1, <5>1, ChunkUpdate DEF Current
      <4>4. CASE EchoChunk(t)
        BY <2>1, <3>1, <4>4 DEF EchoChunk, Current, store
      <4> QED
        BY <1>9, <4>1, <4>2, <4>3, <4>4
    <3>4. req[t].op = "W"
      BY <3>1 DEF PlaceInv, RoleInv, Writing, Filling
    <3>5. \A u \in Threads : ~Claiming(u) /\ ~Claiming(u)'
      BY <3>1, <3>4, OthersRead DEF PlaceInv, Claiming
    <3>6. TableInv'
      BY <3>1, <3>3, <3>5, SameEntries DEF PlaceInv
    <3>7. Placed(t)
      BY <3>1, <3>4 DEF PlaceInv
    <3>8. Placed(t)'
      <4>1. /\ files[file_index[t]].file_id = req[t].file
            /\ chunk_counter = files[file_index[t]].num_chunks
        BY <3>1, <3>7 DEF Placed, Filling
      <4>2. pc'[t] \in {"fill", "echo", "grow"} => Current(t)'.id = req[t].chunk
        BY <3>1, <3>2, <3>3
      <4>3. pc'[t] \in {"echo", "grow"} => Current(t)'.data = req[t].data
        BY <3>1, <3>2, <3>3
      <4> QED
        BY <3>1, <3>3, <4>1, <4>2, <4>3 DEF Placed, Claiming, Filling
    <3> QED
      BY <3>1, <3>4, <3>6, <3>8, WriterStep DEF Writing, Filling
  <2> QED
    BY <2>1, FaultPlace
<1>10. ASSUME NEW t \in Threads, LoadCount(t) PROVE PlaceInv'
  <2>1. /\ pc[t] = "grow"
        /\ pc' = [pc EXCEPT ![t] = "grown"]
        /\ reg' = [reg EXCEPT ![t] = files[file_index[t]].num_chunks]
        /\ UNCHANGED <<files, global_file_index, chunk_counter, req, i, file_index>>
    BY <1>10 DEF LoadCount, Goto, store
  <2>2. pc'[t] = "grown" /\ \A u \in Threads \ {t} : pc'[u] = pc[u]
    BY <1>0, <2>1
  <2>3. req[t].op = "W"
    BY <2>1 DEF PlaceInv, RoleInv, Writing, Filling
  <2>4. TableInv'
    BY <2>1, <2>2, SameTable DEF PlaceInv, Claiming
  <2>5. Placed(t)
    BY <2>1, <2>3 DEF PlaceInv
  <2>6. reg'[t] = chunk_counter
    BY <1>0, <2>1, <2>5 DEF Placed, Filling
  <2>7. Placed(t)'
    BY <2>1, <2>2, <2>5, <2>6 DEF Placed, Claiming, Filling, Current
  <2> QED
    BY <2>1, <2>2, <2>3, <2>4, <2>7, WriterStep DEF Writing, Filling
<1>11. ASSUME NEW t \in Threads, StoreCount(t) PROVE PlaceInv'
  <2>1. /\ pc[t] = "grown"
        /\ pc' = [pc EXCEPT ![t] = "idle"]
        /\ files' = [files EXCEPT ![file_index[t]].num_chunks = reg[t] + 1]
        /\ \A u \in Threads \ {t} : req'[u] = req[u]
        /\ UNCHANGED <<global_file_index, chunk_counter>>
    BY <1>11 DEF StoreCount, Done, Goto, TypeOK
  <2>2. pc'[t] = "idle" /\ \A u \in Threads \ {t} : pc'[u] = pc[u]
    BY <1>0, <2>1
  <2>3. req[t].op = "W"
    BY <2>1 DEF PlaceInv, RoleInv, Writing, Filling
  <2>4. /\ file_index[t] \in Slots
        /\ files[file_index[t]].file_id = req[t].file
        /\ reg[t] \in 0 .. MAX_CHUNKS - 1
    BY <2>1, <2>3 DEF PlaceInv, Placed, Filling, Positions
  <2>5. /\ \A s \in Slots : files'[s].file_id = files[s].file_id
        /\ files'[file_index[t]].num_chunks = reg[t] + 1
        /\ \A s \in Slots \ {file_index[t]} : files'[s] = files[s]
    <3> DEFINE f == file_index[t]
               n == reg[t] + 1
    <3>1. f \in Slots /\ files' = [files EXCEPT ![f].num_chunks = n]
      BY <2>1, <2>4
    <3> HIDE DEF f, n
    <3>2. /\ files'[f].file_id = files[f].file_id
          /\ files'[f].num_chunks = n
          /\ \A s \in Slots \ {f} : files'[s] = files[s]
      BY <3>1, EntryUpdate
    <3> QED
      BY <3>1, <3>2 DEF f, n
  <2>6. req[t].file # -1
    BY <1>0, <2>1
  <2>7. \A u \in Threads \ {t} : /\ pc[u] = "idle" \/ req[u].op # "W"
                             /\ ~Claiming(u) /\ ~Filling(u) /\ pc[u] \notin {"claim", "count"}
    BY <2>1, <2>3, OthersRead DEF PlaceInv
  <2>8. ~Claiming(t) /\ pc[t] # "clear" /\ \A u \in Threads \ {t} : pc[u] # "clear"
    BY <2>1, <2>7 DEF Claiming
  <2>9. TableInv'
    BY <1>0, <2>1, <2>4, <2>5, <2>6, <2>7, <2>8 DEF PlaceInv, TableInv, OneEntryPerFile
  <2>10. RoleInv'
    BY <2>1, <2>2, <2>7 DEF PlaceInv, RoleInv, Writing, Claiming, Filling
  <2> QED
    BY <2>1, <2>2, <2>7, <2>9, <2>10 DEF PlaceInv
<1>12. ASSUME NEW t \in Threads, FetchChunk(t) PROVE PlaceInv'
  <2>1. CASE ~Fault
    <3>1. /\ pc[t] = "fetch"
          /\ pc'[t] = "idle"
          /\ UNCHANGED store
          /\ UNCHANGED i
          /\ \A u \in Threads \ {t} : /\ pc'[u] = pc[u] /\ req'[u] = req[u]
                                  /\ file_index'[u] = file_index[u] /\ reg'[u] = reg[u]
      BY <1>12, <2>1 DEF FetchChunk, Done, Goto, TypeOK
    <3>2. req[t].op = "R"
      BY <1>0, <3>1 DEF PlaceInv, RoleInv, Writing, Claiming, Filling
    <3> QED
      BY <3>1, <3>2, QuietStep
  <2> QED
    BY <2>1, FaultPlace
<1>13. CASE UNCHANGED vars
  BY <1>13 DEF vars, store, PlaceInv, RoleInv, TableInv, Placed, OneEntryPerFile, Current,
               Writing, Claiming, Filling
<1> QED
  BY <1>1, <1>2, <1>3, <1>4, <1>5, <1>6, <1>7, <1>8, <1>9, <1>10, <1>11, <1>12, <1>13
     DEF Next, Step

LEMMA PlaceInvariant ==
  ASSUME SingleWriter
  PROVE  Spec => []PlaceInv
<1>1. Init => PlaceInv
  <2> SUFFICES ASSUME Init PROVE PlaceInv
    OBVIOUS
  <2>1. /\ \A t \in Threads : pc[t] = "idle"
        /\ \A s \in Slots : files[s].file_id = -1 /\ files[s].num_chunks = -1
        /\ global_file_index = 0
    BY DEF Init, EmptyTable
  <2>2. MAX_FILES \in Nat /\ MAX_CHUNKS \in Nat
    BY StorageAssumption
  <2> QED
    BY <2>1, <2>2 DEF PlaceInv, RoleInv, TableInv, OneEntryPerFile, Writing, Claiming, Filling
<1>2. TypeOK /\ PlaceInv /\ [Next]_vars => PlaceInv'
  BY PlaceStep
<1> QED
  BY <1>1, <1>2, StorageTypeCorrect, PTL DEF Spec

(* While one connection writes, a file never gets a second entry, however  *)
(* many read.                                                              *)
THEOREM StorageOneEntryPerFile ==
  ASSUME SingleWriter
  PROVE  Spec => []OneEntryPerFile
<1>1. PlaceInv => OneEntryPerFile
  BY DEF PlaceInv, TableInv
<1> QED
  BY <1>1, PlaceInvariant, PTL

-----------------------------------------------------------------------------
(* Writes are kept                                                         *)

(* A step that keeps every chunk an entry counts.                          *)
Keeps ==
  \A s \in Slots :
    files[s].file_id # -1 =>
      /\ files'[s].file_id = files[s].file_id
      /\ files'[s].num_chunks >= files[s].num_chunks
      /\ \A k \in 0 .. files[s].num_chunks - 1 : files'[s].chunks[k] = files[s].chunks[k]

LEMMA KeepsStep ==
  ASSUME SingleWriter, TypeOK, PlaceInv, [Next]_vars
  PROVE  Keeps
<1>0. /\ \A s \in Slots : files[s].num_chunks \in -1 .. MAX_CHUNKS
      /\ MAX_CHUNKS \in Nat
  BY StorageAssumption DEF PlaceInv, TableInv
<1>1. CASE UNCHANGED files
  BY <1>0, <1>1 DEF Keeps
<1>2. ASSUME NEW t \in Threads, ClaimEntry(t), global_file_index \in Slots PROVE Keeps
  <2>1. files' = [files EXCEPT ![global_file_index].file_id = req[t].file] /\ pc[t] = "claim"
    BY <1>2 DEF ClaimEntry
  <2>2. \A u \in Threads : ~Claiming(u)
    <3>1. req[t].op = "W"
      BY <2>1 DEF PlaceInv, RoleInv, Writing
    <3> QED
      BY <2>1, <3>1, OthersRead DEF PlaceInv, Claiming
  <2>3. files[global_file_index].file_id = -1
    BY <1>2, <2>2 DEF PlaceInv, TableInv
  <2>4. \A s \in Slots \ {global_file_index} : files'[s] = files[s]
    BY <1>2, <2>1, EntryUpdate
  <2> QED
    BY <1>0, <2>3, <2>4 DEF Keeps
<1>3. ASSUME NEW t \in Threads, ClearEntry(t), global_file_index \in Slots PROVE Keeps
  <2> DEFINE g == global_file_index
  <2>1. files' = [files EXCEPT ![g].num_chunks = 0] /\ pc[t] = "clear"
    BY <1>3 DEF ClearEntry
  <2>2. /\ files'[g].file_id = files[g].file_id
        /\ files'[g].num_chunks = 0
        /\ files'[g].chunks = files[g].chunks
        /\ \A s \in Slots \ {g} : files'[s] = files[s]
    BY <1>3, <2>1, EntryUpdate
  <2>3. req[t].op = "W"
    BY <2>1 DEF PlaceInv, RoleInv, Writing, Claiming
  <2>4. files[g].num_chunks = -1
    BY <2>1, <2>3 DEF PlaceInv, Placed
  <2> QED
    BY <1>0, <1>3, <2>2, <2>4 DEF Keeps
<1>4. ASSUME NEW t \in Threads, AllocChunk(t) \/ LabelChunk(t) \/ FillChunk(t), ~Fault PROVE Keeps
  <2> DEFINE f == file_index[t]
  <2>1. /\ f \in Slots
        /\ chunk_counter \in Positions
        /\ pc[t] \in {"alloc", "label", "fill"}
    BY <1>4 DEF AllocChunk, LabelChunk, FillChunk, InTable
  <2>2. req[t].op = "W"
    BY <2>1 DEF PlaceInv, RoleInv, Writing, Filling
  <2>3. chunk_counter = files[f].num_chunks
    BY <2>1, <2>2 DEF PlaceInv, Placed, Filling
  <2> DEFINE k == chunk_counter
  <2>4. PICK v : \/ files' = [files EXCEPT ![f].chunks[k].data = v]
                 \/ files' = [files EXCEPT ![f].chunks[k].id = v]
    BY <1>4 DEF AllocChunk, LabelChunk, FillChunk
  <2>5. f \in Slots /\ k \in Positions
    BY <2>1
  <2> HIDE DEF f, k
  <2>6. /\ files'[f].file_id = files[f].file_id
        /\ files'[f].num_chunks = files[f].num_chunks
        /\ \A c \in Positions \ {k} : files'[f].chunks[c] = files[f].chunks[c]
        /\ \A s \in Slots \ {f} : files'[s] = files[s]
    <3>1. CASE files' = [files EXCEPT ![f].chunks[k].data = v]
      BY <2>5, <3>1, ChunkUpdate
    <3>2. CASE files' = [files EXCEPT ![f].chunks[k].id = v]
      BY <2>5, <3>2, ChunkUpdate
    <3> QED
      BY <2>4, <3>1, <3>2
  <2>7. \A c \in 0 .. files[f].num_chunks - 1 : c \in Positions \ {k}
    BY <1>0, <2>3, <2>5 DEF Positions, f, k
  <2> QED
    BY <1>0, <2>6, <2>7 DEF Keeps
<1>5. ASSUME NEW t \in Threads, StoreCount(t) PROVE Keeps
  <2> DEFINE f == file_index[t]
             n == reg[t] + 1
  <2>1. pc[t] = "grown"
    BY <1>5 DEF StoreCount
  <2>2. req[t].op = "W"
    BY <2>1 DEF PlaceInv, RoleInv, Writing, Filling
  <2>3. f \in Slots /\ reg[t] = files[f].num_chunks /\ files[f].num_chunks \in -1 .. MAX_CHUNKS
    BY <1>0, <2>1, <2>2 DEF PlaceInv, Placed, Filling
  <2>4. n >= files[f].num_chunks
    BY <1>0, <2>3
  <2>5. files' = [files EXCEPT ![f].num_chunks = n]
    BY <1>5 DEF StoreCount
  <2> HIDE DEF f, n
  <2>6. /\ files'[f].file_id = files[f].file_id
        /\ files'[f].num_chunks = n
        /\ files'[f].chunks = files[f].chunks
        /\ \A s \in Slots \ {f} : files'[s] = files[s]
    BY <2>3, <2>5, EntryUpdate
  <2> QED
    BY <1>0, <2>4, <2>6 DEF Keeps
<1>6. ASSUME NEW t \in Threads, Receive(t) PROVE UNCHANGED files
  BY <1>6 DEF Receive, ReceiveWrite, ReceiveRead, Serve, store
<1>7. Fault => UNCHANGED files
  BY DEF Fault, store
<1>8. ASSUME NEW t \in Threads,
             \/ FindEntry(t) \/ PassEntry(t) \/ TakeIndex(t) \/ LoadIndex(t) \/ StoreIndex(t)
             \/ CountChunks(t) \/ EchoChunk(t) \/ LoadCount(t) \/ FetchChunk(t)
      PROVE  UNCHANGED files
  BY <1>7, <1>8 DEF FindEntry, PassEntry, TakeIndex, LoadIndex, StoreIndex, CountChunks,
                    EchoChunk, LoadCount, FetchChunk, store
<1>9. ASSUME NEW t \in Threads, ClaimEntry(t) \/ ClearEntry(t), global_file_index \notin Slots
      PROVE  UNCHANGED files
  BY <1>7, <1>9 DEF ClaimEntry, ClearEntry
<1>10. CASE UNCHANGED vars
  BY <1>1, <1>10 DEF vars, store
<1> QED
  BY <1>1, <1>2, <1>3, <1>4, <1>5, <1>6, <1>7, <1>8, <1>9, <1>10 DEF Next, Step

(* A request that is served is the last of the history.                    *)
LEMMA DoneLog ==
  ASSUME TypeOK, NEW t \in Threads, NEW data, NEW pos, Done(t, data, pos)
  PROVE  /\ Len(log') = Len(log) + 1
         /\ log'[Len(log) + 1] =
              [op |-> req[t].op, file |-> req[t].file, chunk |-> req[t].chunk,
               data |-> data, pos |-> pos, seen |-> req[t].seen]
         /\ \A k \in 1 .. Len(log) : log'[k] = log[k]
BY DEF TypeOK, Done

(* What the history says of the writes that ended, once it got longer.     *)
LEMMA KeptStep ==
  ASSUME SingleWriter, TypeOK, PlaceInv, WritesKept, [Next]_vars
  PROVE  WritesKept'
<1> DEFINE Kept(r) == \E s \in Slots :
              /\ files[s].file_id = r.file
              /\ r.pos \in 0 .. files[s].num_chunks - 1
              /\ files[s].chunks[r.pos] = [id |-> r.chunk, data |-> r.data]
           Stays(r) == \E s \in Slots :
              /\ files'[s].file_id = r.file
              /\ r.pos \in 0 .. files'[s].num_chunks - 1
              /\ files'[s].chunks[r.pos] = [id |-> r.chunk, data |-> r.data]
<1>0. /\ \A k \in 1 .. Len(log) : log[k].file \in Nat
      /\ Len(log) \in Nat
      /\ \A s \in Slots : files[s].num_chunks \in Int
  <2>1. FileIds \subseteq Nat
    BY StorageAssumption
  <2>2. \A k \in 1 .. Len(log) : log[k].file \in FileIds
    <3>1. \A k \in 1 .. Len(log) : log[k] \in Served
      BY DEF TypeOK
    <3> QED
      BY <3>1 DEF Served
  <2>3. \A s \in Slots : files[s].num_chunks \in Int
    BY DEF TypeOK, Entry
  <2>4. Len(log) \in Nat
    BY DEF TypeOK
  <2> QED
    BY <2>1, <2>2, <2>3, <2>4
<1>1. \A s \in Slots : files'[s].num_chunks \in Int
  BY TypeStep DEF TypeOK, Entry
<1>2. Keeps
  BY KeepsStep
<1>3. \A k \in 1 .. Len(log) : log[k].op = "W" => Stays(log[k])
  <2> SUFFICES ASSUME NEW k \in 1 .. Len(log), log[k].op = "W" PROVE Stays(log[k])
    OBVIOUS
  <2>1. PICK s \in Slots : /\ files[s].file_id = log[k].file
                           /\ log[k].pos \in 0 .. files[s].num_chunks - 1
                           /\ files[s].chunks[log[k].pos] = [id |-> log[k].chunk, data |-> log[k].data]
    BY DEF WritesKept
  <2>2. files[s].file_id # -1
    BY <1>0, <2>1
  <2>3. /\ files'[s].file_id = log[k].file
        /\ log[k].pos \in 0 .. files'[s].num_chunks - 1
        /\ files'[s].chunks[log[k].pos] = files[s].chunks[log[k].pos]
    BY <1>0, <1>1, <1>2, <2>1, <2>2 DEF Keeps
  <2> QED
    BY <2>1, <2>3
<1>4. CASE log' = log
  BY <1>3, <1>4 DEF WritesKept
<1> DEFINE new == Len(log) + 1
<1>5. ASSUME NEW t \in Threads, FetchChunk(t), ~Fault PROVE WritesKept'
  <2>1. /\ Len(log') = new
        /\ log'[new].op = req[t].op
        /\ \A k \in 1 .. Len(log) : log'[k] = log[k]
    <3> DEFINE d == Measured(files[file_index[t]].chunks[req[t].chunk].data)
    <3>1. Done(t, d, req[t].chunk)
      BY <1>5 DEF FetchChunk
    <3> HIDE DEF d
    <3>2. /\ Len(log') = new
          /\ log'[new] = [op |-> req[t].op, file |-> req[t].file, chunk |-> req[t].chunk,
                          data |-> d, pos |-> req[t].chunk, seen |-> req[t].seen]
          /\ \A k \in 1 .. Len(log) : log'[k] = log[k]
      BY <3>1, DoneLog
    <3> QED
      BY <3>2
  <2>2. req[t].op # "W"
    BY <1>5 DEF FetchChunk, PlaceInv, RoleInv, Writing, Claiming, Filling
  <2>3. \A k \in 1 .. new : k = new \/ k \in 1 .. Len(log)
    BY <1>0
  <2> SUFFICES ASSUME NEW k \in 1 .. new, log'[k].op = "W"
               PROVE  /\ Stays(log'[k])
                      /\ \A j \in 1 .. k - 1 :
                           log'[j].op = "W" /\ log'[j].file = log'[k].file
                           => log'[j].pos < log'[k].pos
    BY <2>1 DEF WritesKept
  <2>4. k \in 1 .. Len(log)
    BY <2>1, <2>2, <2>3
  <2>5. \A j \in 1 .. k - 1 : j \in 1 .. Len(log)
    BY <1>0, <2>4
  <2> QED
    BY <1>3, <2>1, <2>4, <2>5 DEF WritesKept
<1>6. ASSUME NEW t \in Threads, StoreCount(t) PROVE WritesKept'
  <2> DEFINE f == file_index[t]
             n == reg[t] + 1
  <2>1. pc[t] = "grown"
    BY <1>6 DEF StoreCount
  <2>2. req[t].op = "W"
    BY <2>1 DEF PlaceInv, RoleInv, Writing, Filling
  <2>3. /\ f \in Slots
        /\ files[f].file_id = req[t].file
        /\ reg[t] = chunk_counter
        /\ chunk_counter = files[f].num_chunks
        /\ chunk_counter \in Positions
        /\ Current(t).id = req[t].chunk
        /\ Current(t).data = req[t].data
    BY <2>1, <2>2 DEF PlaceInv, Placed, Filling
  <2>4. /\ Len(log') = new
        /\ log'[new] = [op |-> "W", file |-> req[t].file, chunk |-> req[t].chunk,
                        data |-> req[t].data, pos |-> reg[t], seen |-> req[t].seen]
        /\ \A k \in 1 .. Len(log) : log'[k] = log[k]
    BY <1>6, <2>2, DoneLog DEF StoreCount
  <2>5. /\ files'[f].file_id = files[f].file_id
        /\ files'[f].num_chunks = n
        /\ files'[f].chunks = files[f].chunks
    <3>1. files' = [files EXCEPT ![f].num_chunks = n]
      BY <1>6 DEF StoreCount
    <3> HIDE DEF f, n
    <3> QED
      BY <2>3, <3>1, EntryUpdate
  <2>6. Current(t) = [id |-> req[t].chunk, data |-> req[t].data]
    <3>1. Current(t) \in [id : Int, data : Contents]
      BY <2>3 DEF Current, TypeOK, Entry
    <3> QED
      BY <2>3, <3>1
  <2>7. Stays(log'[new])
    <3>1. reg[t] \in 0 .. n - 1
      BY <2>3 DEF Positions
    <3>2. files'[f].chunks[reg[t]] = [id |-> req[t].chunk, data |-> req[t].data]
      BY <2>3, <2>5, <2>6 DEF Current
    <3> QED
      BY <2>3, <2>4, <2>5, <3>1, <3>2
  <2>8. \A j \in 1 .. Len(log) :
          log[j].op = "W" /\ log[j].file = req[t].file => log[j].pos < reg[t]
    <3> SUFFICES ASSUME NEW j \in 1 .. Len(log), log[j].op = "W", log[j].file = req[t].file
                 PROVE  log[j].pos < reg[t]
      OBVIOUS
    <3>1. PICK s \in Slots : /\ files[s].file_id = log[j].file
                             /\ log[j].pos \in 0 .. files[s].num_chunks - 1
      BY DEF WritesKept
    <3>2. files[s].file_id # -1
      BY <1>0, <3>1
    <3>3. s = f
      BY <2>3, <3>1, <3>2 DEF PlaceInv, TableInv, OneEntryPerFile
    <3> QED
      BY <1>0, <2>3, <3>1, <3>3
  <2>9. \A k \in 1 .. new : k = new \/ k \in 1 .. Len(log)
    BY <1>0
  <2> QED
    <3> SUFFICES ASSUME NEW k \in 1 .. new, log'[k].op = "W"
                 PROVE  /\ Stays(log'[k])
                        /\ \A j \in 1 .. k - 1 :
                             log'[j].op = "W" /\ log'[j].file = log'[k].file
                             => log'[j].pos < log'[k].pos
      BY <2>4 DEF WritesKept
    <3>1. CASE k = new
      <4>1. \A j \in 1 .. k - 1 : j \in 1 .. Len(log)
        BY <1>0, <3>1
      <4> QED
        BY <2>4, <2>7, <2>8, <3>1, <4>1
    <3>2. CASE k \in 1 .. Len(log)
      <4>1. \A j \in 1 .. k - 1 : j \in 1 .. Len(log)
        BY <1>0, <3>2
      <4> QED
        BY <1>3, <2>4, <3>2, <4>1 DEF WritesKept
    <3> QED
      BY <2>9, <3>1, <3>2
<1>7. ASSUME NEW t \in Threads, Receive(t) PROVE log' = log
  BY <1>7 DEF Receive, ReceiveWrite, ReceiveRead, Serve
<1>8. Fault => log' = log
  BY DEF Fault
<1>9. ASSUME NEW t \in Threads,
             \/ FindEntry(t) \/ PassEntry(t) \/ ClaimEntry(t) \/ ClearEntry(t) \/ TakeIndex(t)
             \/ LoadIndex(t) \/ StoreIndex(t) \/ CountChunks(t) \/ AllocChunk(t) \/ LabelChunk(t)
             \/ FillChunk(t) \/ EchoChunk(t) \/ LoadCount(t)
      PROVE  log' = log
  BY <1>8, <1>9 DEF FindEntry, PassEntry, ClaimEntry, ClearEntry, TakeIndex, LoadIndex,
                    StoreIndex, CountChunks, AllocChunk, LabelChunk, FillChunk, EchoChunk, LoadCount
<1>10. CASE UNCHANGED vars
  BY <1>4, <1>10 DEF vars
<1> QED
  BY <1>4, <1>5, <1>6, <1>7, <1>8, <1>9, <1>10 DEF Next, Step

(* While one connection writes, a chunk whose write ended is never lost,   *)
(* overwritten or moved to another file.                                   *)
THEOREM StorageWritesKept ==
  ASSUME SingleWriter
  PROVE  Spec => []WritesKept
<1>1. Init => WritesKept
  BY DEF Init, WritesKept
<1>2. TypeOK /\ PlaceInv /\ WritesKept /\ [Next]_vars => WritesKept'
  BY KeptStep
<1> QED
  BY <1>1, <1>2, StorageTypeCorrect, PlaceInvariant, PTL DEF Spec

-----------------------------------------------------------------------------
(* What the steps leave alone                                              *)

(* A thread's variables are its own.                                       *)
LEMMA OthersStay ==
  ASSUME TypeOK, NEW t \in Threads, Receive(t) \/ Step(t), NEW u \in Threads \ {t}
  PROVE  /\ pc'[u] = pc[u] /\ req'[u] = req[u] /\ i'[u] = i[u]
         /\ file_index'[u] = file_index[u] /\ reg'[u] = reg[u]
<1>1. CASE Receive(t)
  BY <1>1 DEF Receive, ReceiveWrite, ReceiveRead, Serve, Goto, TypeOK
<1>2. CASE Fault
  BY <1>2 DEF Fault
<1>3. CASE StoreCount(t) \/ (FetchChunk(t) /\ ~Fault)
  BY <1>3 DEF StoreCount, FetchChunk, Done, Goto, TypeOK
<1>4. CASE /\ ~Fault
           /\ \/ FindEntry(t) \/ PassEntry(t) \/ ClaimEntry(t) \/ ClearEntry(t) \/ TakeIndex(t)
              \/ LoadIndex(t) \/ StoreIndex(t)
  BY <1>4 DEF FindEntry, PassEntry, ClaimEntry, ClearEntry, TakeIndex, LoadIndex, StoreIndex,
              Goto, TypeOK
<1>5. CASE /\ ~Fault
           /\ \/ CountChunks(t) \/ AllocChunk(t) \/ LabelChunk(t)
              \/ FillChunk(t) \/ EchoChunk(t) \/ LoadCount(t)
  BY <1>5 DEF CountChunks, AllocChunk, LabelChunk, FillChunk, EchoChunk, LoadCount, Goto, TypeOK
<1> QED
  BY <1>1, <1>2, <1>3, <1>4, <1>5 DEF Step

(* A request in service stays what it is until it ends.                    *)
LEMMA RequestStays ==
  ASSUME TypeOK, NEW t \in Threads, Step(t), pc'[t] # "idle"
  PROVE  pc[t] # "idle" /\ req'[t] = req[t]
<1>1. CASE Fault
  BY <1>1 DEF Fault
<1>2. CASE StoreCount(t) \/ (FetchChunk(t) /\ ~Fault)
  BY <1>2 DEF StoreCount, FetchChunk, Done, Goto, TypeOK
<1>3. CASE /\ ~Fault
           /\ \/ FindEntry(t) \/ PassEntry(t) \/ ClaimEntry(t) \/ ClearEntry(t) \/ TakeIndex(t)
              \/ LoadIndex(t) \/ StoreIndex(t) \/ CountChunks(t) \/ AllocChunk(t) \/ LabelChunk(t)
              \/ FillChunk(t) \/ EchoChunk(t) \/ LoadCount(t)
  BY <1>3 DEF FindEntry, PassEntry, ClaimEntry, ClearEntry, TakeIndex, LoadIndex, StoreIndex,
              CountChunks, AllocChunk, LabelChunk, FillChunk, EchoChunk, LoadCount
<1>4. Fault => pc' = pc
  BY DEF Fault
<1>5. pc[t] # "idle"
  BY DEF Step, FindEntry, PassEntry, ClaimEntry, ClearEntry, TakeIndex, LoadIndex, StoreIndex,
         CountChunks, AllocChunk, LabelChunk, FillChunk, EchoChunk, LoadCount, StoreCount, FetchChunk
<1> QED
  BY <1>1, <1>2, <1>3, <1>5 DEF Step

(* What an idle thread takes up.                                           *)
LEMMA ReceiveTakes ==
  ASSUME TypeOK, NEW t \in Threads, Receive(t)
  PROVE  /\ pc[t] = "idle" /\ pc'[t] = "search" /\ i'[t] = 0
         /\ req'[t] \in Request
         /\ req'[t].op = "W" => req'[t].data \in Payloads
         /\ req'[t].seen = Len(log)
         /\ UNCHANGED <<store, alive, log>>
<1>1. Len(log) \in Nat
  BY DEF TypeOK
<1>2. PICK r \in Request : /\ Serve(t, r)
                           /\ r.op = "W" => r.data \in Payloads
                           /\ r.seen = Len(log)
  <2> DEFINE W(f, c, d) == [op |-> "W", file |-> f, chunk |-> c, data |-> d, seen |-> Len(log)]
             R(f, c) == [op |-> "R", file |-> f, chunk |-> c, data |-> Blank, seen |-> Len(log)]
  <2>1. CASE ReceiveWrite(t)
    <3>1. PICK f \in FileIds, c \in ChunkIds, d \in Payloads : Serve(t, W(f, c, d))
      BY <2>1 DEF ReceiveWrite
    <3>2. W(f, c, d) \in Request /\ W(f, c, d).data = d /\ W(f, c, d).seen = Len(log)
      BY <1>1 DEF Request
    <3> QED
      BY <3>1, <3>2
  <2>2. CASE ReceiveRead(t)
    <3>1. PICK f \in FileIds, c \in ChunkIds : Serve(t, R(f, c))
      BY <2>2 DEF ReceiveRead
    <3>2. R(f, c) \in Request /\ R(f, c).op # "W" /\ R(f, c).seen = Len(log)
      BY <1>1 DEF Request
    <3> QED
      BY <3>1, <3>2
  <2> QED
    BY <2>1, <2>2 DEF Receive
<1> QED
  BY <1>2 DEF Serve, Goto, TypeOK

(* While a write is in service, the steps of the other threads leave the   *)
(* table and the counters alone.                                           *)
LEMMA ReadersQuiet ==
  ASSUME SingleWriter, TypeOK, PlaceInv, NEW t \in Threads, Receive(t) \/ Step(t),
         NEW u \in Threads \ {t}, pc[u] # "idle", req[u].op = "W"
  PROVE  UNCHANGED store
<1>1. ~Claiming(t) /\ ~Filling(t) /\ pc[t] \notin {"claim", "count"}
  BY OthersRead DEF PlaceInv
<1>2. CASE Receive(t)
  BY <1>2, ReceiveTakes
<1>3. Fault => UNCHANGED store
  BY DEF Fault
<1>4. CASE FindEntry(t) \/ PassEntry(t) \/ FetchChunk(t)
  BY <1>3, <1>4 DEF FindEntry, PassEntry, FetchChunk
<1>5. CASE Step(t) /\ ~ (FindEntry(t) \/ PassEntry(t) \/ FetchChunk(t))
  BY <1>1, <1>5 DEF Step, Claiming, Filling, ClaimEntry, ClearEntry, TakeIndex, LoadIndex, StoreIndex,
         CountChunks, AllocChunk, LabelChunk, FillChunk, EchoChunk, LoadCount, StoreCount
<1> QED
  BY <1>2, <1>4, <1>5

(* The history gets longer when a thread ends its request.                 *)
LEMMA ServedStep ==
  ASSUME TypeOK, [Next]_vars, log' # log
  PROVE  \E t \in Threads : \E data, pos : pc[t] # "idle" /\ Done(t, data, pos)
<1>1. ASSUME NEW t \in Threads, StoreCount(t)
      PROVE  \E data, pos : pc[t] # "idle" /\ Done(t, data, pos)
  <2>1. pc[t] # "idle" /\ Done(t, req[t].data, reg[t])
    BY <1>1 DEF StoreCount
  <2> QED
    BY <2>1
<1>2. ASSUME NEW t \in Threads, FetchChunk(t), ~Fault
      PROVE  \E data, pos : pc[t] # "idle" /\ Done(t, data, pos)
  <2>1. /\ pc[t] # "idle"
        /\ Done(t, Measured(files[file_index[t]].chunks[req[t].chunk].data), req[t].chunk)
    BY <1>2 DEF FetchChunk
  <2> QED
    BY <2>1
<1>3. Fault => log' = log
  BY DEF Fault
<1>4. ASSUME NEW t \in Threads,
             \/ FindEntry(t) \/ PassEntry(t) \/ ClaimEntry(t) \/ ClearEntry(t) \/ TakeIndex(t)
             \/ LoadIndex(t) \/ StoreIndex(t) \/ CountChunks(t) \/ AllocChunk(t) \/ LabelChunk(t)
             \/ FillChunk(t) \/ EchoChunk(t) \/ LoadCount(t)
      PROVE  log' = log
  BY <1>3, <1>4 DEF FindEntry, PassEntry, ClaimEntry, ClearEntry, TakeIndex, LoadIndex,
                    StoreIndex, CountChunks, AllocChunk, LabelChunk, FillChunk, EchoChunk, LoadCount
<1>5. ASSUME NEW t \in Threads, Receive(t) PROVE log' = log
  BY <1>5, ReceiveTakes
<1> QED
  BY <1>1, <1>2, <1>3, <1>4, <1>5 DEF Next, Step, vars

(* The history only gets longer, by at most one request.                   *)
LEMMA LogGrows ==
  ASSUME TypeOK, [Next]_vars
  PROVE  /\ Len(log) \in Nat
         /\ Len(log') \in {Len(log), Len(log) + 1}
         /\ \A k \in 1 .. Len(log) : log'[k] = log[k]
<1>0. Len(log) \in Nat
  BY DEF TypeOK
<1>1. CASE log' = log
  BY <1>0, <1>1
<1>2. CASE log' # log
  <2>1. PICK t \in Threads : \E data, pos : Done(t, data, pos)
    BY <1>2, ServedStep
  <2> QED
    BY <1>0, <2>1, DoneLog
<1> QED
  BY <1>1, <1>2

-----------------------------------------------------------------------------
(* A chunk that can be read has contents                                   *)

(* A chunk an entry counts, and one a write is working on, is never the    *)
(* wild pointer of the memset.                                             *)
WriteHolds(t) ==
  pc[t] # "idle" /\ req[t].op = "W" =>
    /\ req[t].data \in Payloads
    /\ Filling(t) /\ pc[t] # "alloc" => Current(t).data # Wild

DataInv ==
  /\ \A s \in Slots : \A k \in 0 .. files[s].num_chunks - 1 : files[s].chunks[k].data # Wild
  /\ \A t \in Threads : WriteHolds(t)

(* The chunk a write is working on, after a step of the write.             *)
LEMMA HoldsStep ==
  ASSUME SingleWriter, TypeOK, PlaceInv, NEW t \in Threads, WriteHolds(t), Step(t),
         pc'[t] # "idle", req'[t].op = "W"
  PROVE  WriteHolds(t)'
<1>1. pc[t] # "idle" /\ req'[t] = req[t]
  BY RequestStays
<1>2. req[t].data \in Payloads /\ req[t].data # Wild /\ Blank # Wild
  BY <1>1, StorageAssumption DEF WriteHolds
<1>3. SUFFICES ASSUME Filling(t)', pc'[t] # "alloc" PROVE Current(t)'.data # Wild
  BY <1>1, <1>2 DEF WriteHolds
<1>4. CASE Fault
  <2>1. UNCHANGED <<store, pc, req, file_index>>
    BY <1>4 DEF Fault
  <2> QED
    BY <1>1, <1>3, <2>1 DEF WriteHolds, Filling, Current, store
<1>5. CASE AllocChunk(t) /\ ~Fault
  <2>1. /\ InTable(t)
        /\ files' = [files EXCEPT ![file_index[t]].chunks[chunk_counter].data = Blank]
        /\ UNCHANGED <<chunk_counter, file_index>>
    BY <1>5 DEF AllocChunk
  <2> QED
    BY <1>2, <2>1, ChunkUpdate DEF InTable, Current
<1>6. CASE LabelChunk(t) /\ ~Fault
  <2>1. /\ InTable(t)
        /\ pc[t] = "label"
        /\ files' = [files EXCEPT ![file_index[t]].chunks[chunk_counter].id = req[t].chunk]
        /\ UNCHANGED <<chunk_counter, file_index>>
    BY <1>6 DEF LabelChunk
  <2>2. Current(t).data # Wild
    BY <1>1, <2>1 DEF WriteHolds, Filling
  <2> QED
    BY <2>1, <2>2, ChunkUpdate DEF InTable, Current
<1>7. CASE FillChunk(t) /\ ~Fault
  <2> DEFINE d == req[t].data
  <2>1. /\ InTable(t)
        /\ files' = [files EXCEPT ![file_index[t]].chunks[chunk_counter].data = d]
        /\ UNCHANGED <<chunk_counter, file_index>>
    BY <1>7 DEF FillChunk
  <2>2. d # Wild
    BY <1>2
  <2> HIDE DEF d
  <2> QED
    BY <2>1, <2>2, ChunkUpdate DEF InTable, Current
<1>8. CASE (EchoChunk(t) \/ LoadCount(t)) /\ ~Fault
  <2>1. pc[t] \in {"echo", "grow"} /\ UNCHANGED <<store, file_index>>
    BY <1>8 DEF EchoChunk, LoadCount
  <2> QED
    BY <1>1, <2>1 DEF WriteHolds, Filling, Current, store
<1>9. CASE /\ ~Fault
           /\ \/ FindEntry(t) \/ PassEntry(t) \/ ClaimEntry(t) \/ ClearEntry(t) \/ TakeIndex(t)
              \/ LoadIndex(t) \/ StoreIndex(t) \/ CountChunks(t) \/ StoreCount(t) \/ FetchChunk(t)
  <2>1. pc'[t] \notin {"label", "fill", "echo", "grow", "grown"}
    BY <1>9 DEF FindEntry, PassEntry, ClaimEntry, ClearEntry, TakeIndex, LoadIndex, StoreIndex,
                CountChunks, StoreCount, FetchChunk, Done, Goto, TypeOK
  <2> QED
    BY <1>3, <2>1 DEF Filling
<1> QED
  BY <1>4, <1>5, <1>6, <1>7, <1>8, <1>9 DEF Step

(* An entry counts one chunk more only when the write of that chunk ends.  *)
LEMMA CountStep ==
  ASSUME SingleWriter, TypeOK, PlaceInv, [Next]_vars, NEW s \in Slots
  PROVE  \/ files'[s].num_chunks = files[s].num_chunks
         \/ files'[s].num_chunks = 0
         \/ \E t \in Threads : /\ StoreCount(t)
                               /\ pc[t] = "grown" /\ req[t].op = "W"
                               /\ s = file_index[t]
                               /\ files[s].num_chunks = chunk_counter
                               /\ files'[s].num_chunks = chunk_counter + 1
                               /\ files'[s].chunks = files[s].chunks
<1>1. CASE UNCHANGED files
  BY <1>1
<1>2. ASSUME NEW t \in Threads, ClaimEntry(t), global_file_index \in Slots
      PROVE  files'[s].num_chunks = files[s].num_chunks
  <2>1. files' = [files EXCEPT ![global_file_index].file_id = req[t].file]
    BY <1>2 DEF ClaimEntry
  <2> QED
    BY <1>2, <2>1, EntryUpdate
<1>3. ASSUME NEW t \in Threads, ClearEntry(t), global_file_index \in Slots
      PROVE  files'[s].num_chunks = files[s].num_chunks \/ files'[s].num_chunks = 0
  <2>1. files' = [files EXCEPT ![global_file_index].num_chunks = 0]
    BY <1>3 DEF ClearEntry
  <2> QED
    BY <1>3, <2>1, EntryUpdate
<1>4. ASSUME NEW t \in Threads, AllocChunk(t) \/ LabelChunk(t) \/ FillChunk(t), ~Fault
      PROVE  files'[s].num_chunks = files[s].num_chunks
  <2> DEFINE f == file_index[t]
             k == chunk_counter
  <2>1. f \in Slots /\ k \in Positions
    BY <1>4 DEF AllocChunk, LabelChunk, FillChunk, InTable
  <2>2. PICK v : \/ files' = [files EXCEPT ![f].chunks[k].data = v]
                 \/ files' = [files EXCEPT ![f].chunks[k].id = v]
    BY <1>4 DEF AllocChunk, LabelChunk, FillChunk
  <2> HIDE DEF f, k
  <2>3. /\ files'[f].num_chunks = files[f].num_chunks
        /\ \A r \in Slots \ {f} : files'[r] = files[r]
    <3>1. CASE files' = [files EXCEPT ![f].chunks[k].data = v]
      BY <2>1, <3>1, ChunkUpdate
    <3>2. CASE files' = [files EXCEPT ![f].chunks[k].id = v]
      BY <2>1, <3>2, ChunkUpdate
    <3> QED
      BY <2>2, <3>1, <3>2
  <2> QED
    BY <2>3
<1>5. ASSUME NEW t \in Threads, StoreCount(t)
      PROVE  \/ files'[s].num_chunks = files[s].num_chunks
             \/ /\ pc[t] = "grown" /\ req[t].op = "W"
                /\ s = file_index[t]
                /\ files[s].num_chunks = chunk_counter
                /\ files'[s].num_chunks = chunk_counter + 1
                /\ files'[s].chunks = files[s].chunks
  <2> DEFINE f == file_index[t]
             n == reg[t] + 1
  <2>1. pc[t] = "grown"
    BY <1>5 DEF StoreCount
  <2>2. req[t].op = "W"
    BY <2>1 DEF PlaceInv, RoleInv, Writing, Filling
  <2>3. f \in Slots /\ reg[t] = chunk_counter /\ chunk_counter = files[f].num_chunks
    BY <2>1, <2>2 DEF PlaceInv, Placed, Filling
  <2>4. n = chunk_counter + 1
    BY <2>3
  <2>5. files' = [files EXCEPT ![f].num_chunks = n]
    BY <1>5 DEF StoreCount
  <2> HIDE DEF f, n
  <2>6. /\ files'[f].num_chunks = n
        /\ files'[f].chunks = files[f].chunks
        /\ \A r \in Slots \ {f} : files'[r] = files[r]
    BY <2>3, <2>5, EntryUpdate
  <2> QED
    BY <2>1, <2>2, <2>3, <2>4, <2>6 DEF f
<1>6. ASSUME NEW t \in Threads, Receive(t) PROVE UNCHANGED files
  BY <1>6, ReceiveTakes DEF store
<1>7. Fault => UNCHANGED files
  BY DEF Fault, store
<1>8. ASSUME NEW t \in Threads,
             \/ FindEntry(t) \/ PassEntry(t) \/ TakeIndex(t) \/ LoadIndex(t) \/ StoreIndex(t)
             \/ CountChunks(t) \/ EchoChunk(t) \/ LoadCount(t) \/ FetchChunk(t)
      PROVE  UNCHANGED files
  BY <1>7, <1>8 DEF FindEntry, PassEntry, TakeIndex, LoadIndex, StoreIndex, CountChunks,
                    EchoChunk, LoadCount, FetchChunk, store
<1>9. ASSUME NEW t \in Threads, ClaimEntry(t) \/ ClearEntry(t), global_file_index \notin Slots
      PROVE  UNCHANGED files
  BY <1>7, <1>9 DEF ClaimEntry, ClearEntry
<1>10. CASE UNCHANGED vars
  BY <1>10 DEF vars, store
<1> QED
  BY <1>1, <1>2, <1>3, <1>4, <1>5, <1>6, <1>7, <1>8, <1>9, <1>10 DEF Next, Step

LEMMA DataStep ==
  ASSUME SingleWriter, TypeOK, PlaceInv, DataInv, [Next]_vars
  PROVE  DataInv'
<1>1. ASSUME NEW u \in Threads, pc'[u] # "idle", req'[u].op = "W" PROVE WriteHolds(u)'
  <2>0. WriteHolds(u)
    BY DEF DataInv
  <2>1. CASE UNCHANGED vars
    BY <2>0, <2>1 DEF WriteHolds, Filling, Current, vars, store
  <2>2. ASSUME NEW t \in Threads, t # u, Receive(t) \/ Step(t) PROVE WriteHolds(u)'
    <3>1. pc'[u] = pc[u] /\ req'[u] = req[u] /\ file_index'[u] = file_index[u]
      BY <2>2, OthersStay
    <3>2. UNCHANGED store
      BY <1>1, <2>2, <3>1, ReadersQuiet
    <3> QED
      BY <2>0, <3>1, <3>2 DEF WriteHolds, Filling, Current, store
  <2>3. CASE Receive(u)
    BY <1>1, <2>3, ReceiveTakes DEF WriteHolds, Filling
  <2>4. CASE Step(u)
    BY <1>1, <2>0, <2>4, HoldsStep
  <2> QED
    BY <2>1, <2>2, <2>3, <2>4 DEF Next
<1>2. ASSUME NEW s \in Slots, NEW k \in 0 .. files'[s].num_chunks - 1
      PROVE  files'[s].chunks[k].data # Wild
  <2>0. files[s].num_chunks \in Int /\ chunk_counter \in Int
    BY DEF TypeOK, Entry
  <2>1. k \in 0 .. files[s].num_chunks - 1 => files'[s].chunks[k].data # Wild
    <3> SUFFICES ASSUME k \in 0 .. files[s].num_chunks - 1 PROVE files'[s].chunks[k].data # Wild
      OBVIOUS
    <3>1. files[s].num_chunks # -1
      BY <2>0
    <3>2. files[s].file_id # -1
      BY <3>1 DEF PlaceInv, TableInv
    <3>3. files'[s].chunks[k] = files[s].chunks[k]
      BY <3>2, KeepsStep DEF Keeps
    <3> QED
      BY <3>3 DEF DataInv
  <2>2. CASE files'[s].num_chunks = files[s].num_chunks
    BY <2>1, <2>2
  <2>3. CASE files'[s].num_chunks = 0
    BY <2>3
  <2>4. ASSUME NEW t \in Threads, pc[t] = "grown", req[t].op = "W",
               s = file_index[t],
               files[s].num_chunks = chunk_counter,
               files'[s].num_chunks = chunk_counter + 1,
               files'[s].chunks = files[s].chunks
        PROVE  files'[s].chunks[k].data # Wild
    <3>1. k = chunk_counter \/ k \in 0 .. files[s].num_chunks - 1
      BY <2>0, <2>4
    <3>2. files[s].chunks[chunk_counter].data # Wild
      BY <2>4 DEF DataInv, WriteHolds, Filling, Current
    <3> QED
      BY <2>1, <2>4, <3>1, <3>2
  <2> QED
    BY <2>2, <2>3, <2>4, CountStep
<1> QED
  BY <1>1, <1>2 DEF DataInv, WriteHolds

LEMMA DataInvariant ==
  ASSUME SingleWriter
  PROVE  Spec => []DataInv
<1>1. Init => DataInv
  <2> SUFFICES ASSUME Init PROVE DataInv
    OBVIOUS
  <2>1. /\ \A t \in Threads : pc[t] = "idle"
        /\ \A s \in Slots : files[s].num_chunks = -1
    BY DEF Init, EmptyTable
  <2>2. \A s \in Slots : 0 .. files[s].num_chunks - 1 = {}
    BY <2>1
  <2> QED
    BY <2>1, <2>2 DEF DataInv, WriteHolds
<1>2. TypeOK /\ PlaceInv /\ DataInv /\ [Next]_vars => DataInv'
  BY DataStep
<1> QED
  BY <1>1, <1>2, StorageTypeCorrect, PlaceInvariant, PTL DEF Spec

-----------------------------------------------------------------------------
(* Reads return writes                                                     *)

(* What the thread of a read knows of the table: a file that was written   *)
(* before the read came is not in the entries the search passed, and the   *)
(* entry the chunk is taken from is the entry of the file.                 *)
ReadKnows(t) ==
  /\ pc[t] # "idle" => req[t].seen <= Len(log)
  /\ pc[t] = "search" /\ req[t].op = "R" =>
       \A k \in 1 .. req[t].seen : log[k].op = "W" /\ log[k].file = req[t].file =>
         \A s \in Slots : s < i[t] => files[s].file_id # req[t].file
  /\ pc[t] = "fetch" => files[file_index[t]].file_id = req[t].file

ReadInv ==
  /\ \A t \in Threads : ReadKnows(t)
  /\ \A k \in 1 .. Len(log) : log[k].seen < k

(* A file in the history of writes has an entry, and no other one.         *)
LEMMA WrittenEntry ==
  ASSUME TypeOK, PlaceInv, WritesKept, NEW k \in 1 .. Len(log), log[k].op = "W",
         NEW s \in Slots, files[s].file_id = log[k].file
  PROVE  /\ log[k].pos \in 0 .. files[s].num_chunks - 1
         /\ log[k].pos \in Positions
         /\ files[s].chunks[log[k].pos] = [id |-> log[k].chunk, data |-> log[k].data]
<1>1. PICK r \in Slots : /\ files[r].file_id = log[k].file
                         /\ log[k].pos \in 0 .. files[r].num_chunks - 1
                         /\ files[r].chunks[log[k].pos] = [id |-> log[k].chunk, data |-> log[k].data]
  BY DEF WritesKept
<1>2. log[k].file # -1
  <2>1. log[k] \in Served
    BY DEF TypeOK
  <2>2. log[k].file \in Nat
    BY <2>1, StorageAssumption DEF Served
  <2> QED
    BY <2>2
<1>3. r = s
  BY <1>1, <1>2 DEF PlaceInv, TableInv, OneEntryPerFile
<1>4. files[s].num_chunks \in -1 .. MAX_CHUNKS /\ MAX_CHUNKS \in Nat
  BY StorageAssumption DEF PlaceInv, TableInv
<1> QED
  BY <1>1, <1>3, <1>4 DEF Positions

(* An entry that was taken before the step is the only one of its file     *)
(* after it.                                                               *)
LEMMA EntryStays ==
  ASSUME SingleWriter, TypeOK, PlaceInv, WritesKept, [Next]_vars,
         NEW k \in 1 .. Len(log), log[k].op = "W",
         NEW s \in Slots, files'[s].file_id = log[k].file
  PROVE  files[s].file_id = log[k].file
<1>1. PICK r \in Slots : files[r].file_id = log[k].file
  BY DEF WritesKept
<1>2. log[k].file # -1
  <2>1. log[k] \in Served
    BY DEF TypeOK
  <2>2. log[k].file \in Nat
    BY <2>1, StorageAssumption DEF Served
  <2> QED
    BY <2>2
<1>3. files'[r].file_id = log[k].file
  BY <1>1, <1>2, KeepsStep DEF Keeps
<1>4. PlaceInv'
  BY PlaceStep
<1>5. r = s
  BY <1>2, <1>3, <1>4 DEF PlaceInv, TableInv, OneEntryPerFile
<1> QED
  BY <1>1, <1>5

(* The read of a thread that does not move knows what it knew.             *)
LEMMA KnowsStays ==
  ASSUME SingleWriter, TypeOK, PlaceInv, WritesKept, [Next]_vars,
         NEW u \in Threads, ReadKnows(u), req[u] \in Request \/ pc[u] = "idle",
         pc'[u] = pc[u], req'[u] = req[u], i'[u] = i[u], file_index'[u] = file_index[u]
  PROVE  ReadKnows(u)'
<1>0. /\ Len(log) \in Nat
      /\ Len(log') \in {Len(log), Len(log) + 1}
      /\ \A k \in 1 .. Len(log) : log'[k] = log[k]
  BY LogGrows
<1>1. pc[u] # "idle" => req[u].seen \in Nat /\ req[u].seen <= Len(log) /\ req[u].file \in Nat
  BY StorageAssumption DEF ReadKnows, Request
<1>2. pc'[u] # "idle" => req'[u].seen <= Len(log')
  BY <1>0, <1>1
<1>3. ASSUME pc[u] = "search", req[u].op = "R",
             NEW k \in 1 .. req[u].seen, log'[k].op = "W", log'[k].file = req[u].file,
             NEW s \in Slots, s < i[u]
      PROVE  files'[s].file_id # req[u].file
  <2>1. k \in 1 .. Len(log)
    BY <1>0, <1>1, <1>3
  <2>2. log[k].op = "W" /\ log[k].file = req[u].file
    BY <1>0, <1>3, <2>1
  <2>3. files[s].file_id # log[k].file
    BY <1>3, <2>2 DEF ReadKnows
  <2> QED
    BY <2>1, <2>2, <2>3, EntryStays
<1>4. ASSUME pc[u] = "fetch" PROVE files'[file_index[u]].file_id = req[u].file
  <2>1. /\ files[file_index[u]].file_id = req[u].file
        /\ file_index[u] \in Slots
        /\ req[u].file # -1
    BY <1>1, <1>4 DEF ReadKnows, TypeOK, Inside
  <2> QED
    BY <2>1, KeepsStep DEF Keeps
<1> QED
  BY <1>2, <1>3, <1>4 DEF ReadKnows

(* A step of the thread of a request.                                      *)
LEMMA KnowsStep ==
  ASSUME SingleWriter, TypeOK, PlaceInv, WritesKept, [Next]_vars,
         NEW t \in Threads, ReadKnows(t), Step(t)
  PROVE  ReadKnows(t)'
<1>0. /\ Len(log) \in Nat
      /\ pc \in [Threads -> Labels]
      /\ i \in [Threads -> Slots]
      /\ file_index \in [Threads -> Nat]
      /\ pc[t] # "idle" => req[t] \in Request
  BY DEF TypeOK
<1>1. CASE Fault
  BY <1>0, <1>1, KnowsStays DEF Fault
<1>2. CASE FindEntry(t)
  <2>1. /\ pc[t] = "search"
        /\ files[i[t]].file_id = req[t].file
        /\ file_index' = [file_index EXCEPT ![t] = i[t]]
        /\ pc' = [pc EXCEPT ![t] = IF req[t].op = "W" THEN "count" ELSE "fetch"]
        /\ UNCHANGED <<files, req, log>>
    BY <1>2 DEF FindEntry, Goto, store
  <2>2. pc'[t] \in {"count", "fetch"} /\ file_index'[t] = i[t]
    BY <1>0, <2>1
  <2> QED
    BY <2>1, <2>2 DEF ReadKnows
<1>3. CASE PassEntry(t) /\ ~Fault
  <2>1. pc[t] = "search" /\ files[i[t]].file_id # req[t].file /\ i[t] \in Nat
    BY <1>0, <1>3, FirstSlot DEF PassEntry
  <2>2. CASE i[t] < MAX_FILES - 1
    <3>1. i' = [i EXCEPT ![t] = i[t] + 1] /\ UNCHANGED <<store, pc, req, log>>
      BY <1>3, <2>2 DEF PassEntry
    <3>2. i'[t] = i[t] + 1
      BY <1>0, <3>1
    <3>3. \A s \in Slots : s < i'[t] => s < i[t] \/ s = i[t]
      <4>1. \A s \in Slots : s \in Nat
        BY FirstSlot
      <4> QED
        BY <2>1, <3>2, <4>1
    <3> QED
      BY <2>1, <3>1, <3>3 DEF ReadKnows, store
  <2>3. CASE ~ (i[t] < MAX_FILES - 1)
    <3>1. pc' = [pc EXCEPT ![t] = "claim"] /\ UNCHANGED <<req, log>>
      BY <1>3, <2>3 DEF PassEntry, Goto
    <3>2. pc'[t] = "claim"
      BY <1>0, <3>1
    <3> QED
      BY <2>1, <3>1, <3>2 DEF ReadKnows
  <2> QED
    BY <2>2, <2>3
<1>4. CASE StoreCount(t) \/ (FetchChunk(t) /\ ~Fault)
  <2>1. pc'[t] = "idle"
    BY <1>0, <1>4 DEF StoreCount, FetchChunk, Done, Goto
  <2> QED
    BY <2>1 DEF ReadKnows
<1>5. CASE /\ ~Fault
           /\ \/ ClaimEntry(t) \/ ClearEntry(t) \/ TakeIndex(t)
              \/ LoadIndex(t) \/ StoreIndex(t) \/ CountChunks(t) \/ AllocChunk(t) \/ LabelChunk(t)
              \/ FillChunk(t) \/ EchoChunk(t) \/ LoadCount(t)
  <2>1. pc[t] # "idle" /\ pc'[t] \notin {"search", "fetch"} /\ UNCHANGED <<req, log>>
    BY <1>0, <1>5
       DEF ClaimEntry, ClearEntry, TakeIndex, LoadIndex, StoreIndex, CountChunks, AllocChunk,
           LabelChunk, FillChunk, EchoChunk, LoadCount, Goto
  <2> QED
    BY <2>1 DEF ReadKnows
<1> QED
  BY <1>1, <1>2, <1>3, <1>4, <1>5 DEF Step

LEMMA ReadStep ==
  ASSUME SingleWriter, TypeOK, PlaceInv, WritesKept, ReadInv, [Next]_vars
  PROVE  ReadInv'
<1>0. /\ Len(log) \in Nat
      /\ Len(log') \in {Len(log), Len(log) + 1}
      /\ \A k \in 1 .. Len(log) : log'[k] = log[k]
  BY LogGrows
<1>1. ASSUME NEW u \in Threads PROVE ReadKnows(u)'
  <2>0. ReadKnows(u) /\ (req[u] \in Request \/ pc[u] = "idle")
    BY DEF ReadInv, TypeOK
  <2>1. CASE UNCHANGED vars
    BY <2>0, <2>1, KnowsStays DEF vars
  <2>2. ASSUME NEW t \in Threads, t # u, Receive(t) \/ Step(t) PROVE ReadKnows(u)'
    <3>1. /\ pc'[u] = pc[u] /\ req'[u] = req[u] /\ i'[u] = i[u]
          /\ file_index'[u] = file_index[u]
      BY <2>2, OthersStay
    <3> QED
      BY <2>0, <3>1, KnowsStays
  <2>3. CASE Receive(u)
    <3>1. /\ pc'[u] = "search" /\ i'[u] = 0 /\ req'[u].seen = Len(log) /\ log' = log
      BY <2>3, ReceiveTakes
    <3>2. \A s \in Slots : ~ (s < i'[u])
      BY <3>1, FirstSlot
    <3> QED
      BY <1>0, <3>1, <3>2 DEF ReadKnows
  <2>4. CASE Step(u)
    BY <2>0, <2>4, KnowsStep
  <2> QED
    BY <2>1, <2>2, <2>3, <2>4 DEF Next
<1>2. ASSUME NEW k \in 1 .. Len(log') PROVE log'[k].seen < k
  <2>1. CASE k \in 1 .. Len(log)
    BY <1>0, <2>1 DEF ReadInv
  <2>2. CASE k = Len(log) + 1 /\ Len(log') = Len(log) + 1
    <3>0. log' # log
      BY <1>0, <2>2
    <3>1. PICK t \in Threads : \E data, pos : pc[t] # "idle" /\ Done(t, data, pos)
      BY <3>0, ServedStep
    <3>2. log'[k].seen = req[t].seen
      <4>1. PICK data, pos : Done(t, data, pos)
        BY <3>1
      <4>2. log'[k] = [op |-> req[t].op, file |-> req[t].file, chunk |-> req[t].chunk,
                       data |-> data, pos |-> pos, seen |-> req[t].seen]
        BY <2>2, <4>1, DoneLog
      <4> QED
        BY <4>2
    <3>3. req[t].seen <= Len(log) /\ req[t].seen \in Nat
      BY <3>1 DEF ReadInv, ReadKnows, TypeOK, Request
    <3> QED
      BY <1>0, <2>2, <3>2, <3>3
  <2> QED
    BY <1>0, <2>1, <2>2
<1> QED
  BY <1>1, <1>2 DEF ReadInv

LEMMA ReadInvariant ==
  ASSUME SingleWriter
  PROVE  Spec => []ReadInv
<1>1. Init => ReadInv
  <2> SUFFICES ASSUME Init PROVE ReadInv
    OBVIOUS
  <2>1. (\A t \in Threads : pc[t] = "idle") /\ Len(log) = 0
    BY DEF Init
  <2> QED
    BY <2>1 DEF ReadInv, ReadKnows
<1>2. TypeOK /\ PlaceInv /\ WritesKept /\ ReadInv /\ [Next]_vars => ReadInv'
  BY ReadStep
<1> QED
  BY <1>1, <1>2, StorageTypeCorrect, PlaceInvariant, StorageWritesKept, PTL DEF Spec

(* A request that ends, and what it answers: the chunk it fetched, or the  *)
(* one it wrote.                                                           *)
LEMMA AnswerOf ==
  ASSUME TypeOK, [Next]_vars, Len(log') = Len(log) + 1, log'[Len(log) + 1].op = "R",
         PlaceInv
  PROVE  \E t \in Threads :
           /\ pc[t] = "fetch"
           /\ log'[Len(log) + 1].file = req[t].file
           /\ log'[Len(log) + 1].chunk = req[t].chunk
           /\ log'[Len(log) + 1].data = Measured(files[file_index[t]].chunks[req[t].chunk].data)
           /\ log'[Len(log) + 1].seen = req[t].seen
<1>0. Len(log) \in Nat
  BY DEF TypeOK
<1>1. log' # log
  BY <1>0
<1>2. ASSUME NEW t \in Threads, StoreCount(t) PROVE FALSE
  <2>1. pc[t] = "grown" /\ Done(t, req[t].data, reg[t])
    BY <1>2 DEF StoreCount
  <2>2. log'[Len(log) + 1].op = req[t].op
    <3>1. log'[Len(log) + 1] = [op |-> req[t].op, file |-> req[t].file, chunk |-> req[t].chunk,
                                data |-> req[t].data, pos |-> reg[t], seen |-> req[t].seen]
      BY <2>1, DoneLog
    <3> QED
      BY <3>1
  <2>3. req[t].op = "W"
    BY <2>1 DEF PlaceInv, RoleInv, Writing, Filling
  <2> QED
    BY <2>2, <2>3
<1>3. ASSUME NEW t \in Threads, FetchChunk(t), ~Fault
      PROVE  /\ pc[t] = "fetch"
             /\ log'[Len(log) + 1].file = req[t].file
             /\ log'[Len(log) + 1].chunk = req[t].chunk
             /\ log'[Len(log) + 1].data = Measured(files[file_index[t]].chunks[req[t].chunk].data)
             /\ log'[Len(log) + 1].seen = req[t].seen
  <2> DEFINE d == Measured(files[file_index[t]].chunks[req[t].chunk].data)
  <2>1. pc[t] = "fetch" /\ Done(t, d, req[t].chunk)
    BY <1>3 DEF FetchChunk
  <2> HIDE DEF d
  <2>2. log'[Len(log) + 1] = [op |-> req[t].op, file |-> req[t].file, chunk |-> req[t].chunk,
                              data |-> d, pos |-> req[t].chunk, seen |-> req[t].seen]
    BY <2>1, DoneLog
  <2>3. log'[Len(log) + 1].data = d
    BY <2>2
  <2> QED
    BY <2>1, <2>2, <2>3 DEF d
<1>4. Fault => log' = log
  BY DEF Fault
<1>5. ASSUME NEW t \in Threads,
             \/ FindEntry(t) \/ PassEntry(t) \/ ClaimEntry(t) \/ ClearEntry(t) \/ TakeIndex(t)
             \/ LoadIndex(t) \/ StoreIndex(t) \/ CountChunks(t) \/ AllocChunk(t) \/ LabelChunk(t)
             \/ FillChunk(t) \/ EchoChunk(t) \/ LoadCount(t)
      PROVE  log' = log
  BY <1>4, <1>5 DEF FindEntry, PassEntry, ClaimEntry, ClearEntry, TakeIndex, LoadIndex,
                    StoreIndex, CountChunks, AllocChunk, LabelChunk, FillChunk, EchoChunk, LoadCount
<1>6. ASSUME NEW t \in Threads, Receive(t) PROVE log' = log
  BY <1>6, ReceiveTakes
<1>7. PICK t \in Threads : FetchChunk(t) /\ ~Fault
  BY <1>1, <1>2, <1>4, <1>5, <1>6 DEF Next, Step, vars
<1> QED
  BY <1>3, <1>7

(* The read that ends answers what was written before it came.             *)
LEMMA AnswersStep ==
  ASSUME SingleWriter, TypeOK, PlaceInv, WritesKept, ReadInv, ReadsReturnWrites, [Next]_vars
  PROVE  ReadsReturnWrites'
<1>0. /\ Len(log) \in Nat
      /\ Len(log') \in {Len(log), Len(log) + 1}
      /\ \A k \in 1 .. Len(log) : log'[k] = log[k]
  BY LogGrows
<1>1. SUFFICES ASSUME NEW j \in 1 .. Len(log'), NEW k \in 1 .. Len(log'),
                      log'[j].op = "W", log'[k].op = "R", j <= log'[k].seen,
                      log'[j].file = log'[k].file, log'[j].chunk = log'[k].chunk,
                      log'[j].pos = log'[j].chunk
               PROVE  log'[k].data = Measured(log'[j].data)
  BY DEF ReadsReturnWrites, Measured
<1>2. log'[k].seen < k /\ log'[k].seen \in Nat
  <2>1. ReadInv' /\ TypeOK'
    BY ReadStep, TypeStep
  <2>2. log'[k] \in Served
    BY <2>1 DEF TypeOK
  <2> QED
    BY <2>1, <2>2 DEF ReadInv, Served
<1>3. j \in 1 .. Len(log)
  BY <1>0, <1>1, <1>2
<1>4. CASE k \in 1 .. Len(log)
  BY <1>0, <1>1, <1>3, <1>4 DEF ReadsReturnWrites
<1>5. CASE k = Len(log) + 1 /\ Len(log') = Len(log) + 1
  <2>1. PICK t \in Threads :
           /\ pc[t] = "fetch"
           /\ log'[k].file = req[t].file
           /\ log'[k].chunk = req[t].chunk
           /\ log'[k].data = Measured(files[file_index[t]].chunks[req[t].chunk].data)
    BY <1>1, <1>5, AnswerOf
  <2>2. file_index[t] \in Slots /\ files[file_index[t]].file_id = req[t].file
    BY <2>1 DEF TypeOK, Inside, ReadInv, ReadKnows
  <2>3. log[j] = log'[j]
    BY <1>0, <1>3
  <2>4. files[file_index[t]].chunks[log[j].pos] = [id |-> log[j].chunk, data |-> log[j].data]
    BY <1>1, <1>3, <2>1, <2>2, <2>3, WrittenEntry
  <2>5. files[file_index[t]].chunks[req[t].chunk].data = log[j].data
    BY <1>1, <2>1, <2>3, <2>4
  <2> QED
    BY <2>1, <2>3, <2>5
<1> QED
  BY <1>0, <1>4, <1>5

(* While one connection writes and any number read, a read that starts     *)
(* after a write ended gets what was written (read_chunk, write_chunk).    *)
THEOREM StorageReadsReturnWrites ==
  ASSUME SingleWriter
  PROVE  Spec => []ReadsReturnWrites
<1>1. Init => ReadsReturnWrites
  BY DEF Init, ReadsReturnWrites
<1>2. TypeOK /\ PlaceInv /\ WritesKept /\ ReadInv /\ ReadsReturnWrites /\ [Next]_vars
      => ReadsReturnWrites'
  BY AnswersStep
<1> QED
  BY <1>1, <1>2, StorageTypeCorrect, PlaceInvariant, StorageWritesKept, ReadInvariant, PTL DEF Spec

-----------------------------------------------------------------------------
(* The process dies only on misuse                                         *)

(* What a thread may die of.                                               *)
Misused(t) ==
  \/ /\ pc[t] \in {"search", "fetch"}
     /\ \A k \in 1 .. req[t].seen :
          ~ (log[k].op = "W" /\ log[k].file = req[t].file /\ log[k].pos = req[t].chunk)
  \/ /\ pc[t] = "echo" /\ req[t].chunk > chunk_counter
     /\ req[t].data \notin NoBytes \/ req[t].chunk >= MAX_CHUNKS
  \/ pc[t] = "claim" /\ global_file_index = MAX_FILES
  \/ pc[t] = "alloc" /\ chunk_counter = MAX_CHUNKS

(* How much of the history a request saw.                                  *)
LEMMA SeenType ==
  ASSUME TypeOK, ReadInv, NEW t \in Threads, pc[t] # "idle"
  PROVE  /\ req[t].op \in {"W", "R"}
         /\ req[t].seen \in Nat /\ Len(log) \in Nat
         /\ req[t].seen <= Len(log)
<1>1. req[t] \in Request /\ Len(log) \in Nat
  BY DEF TypeOK
<1>2. req[t].op \in {"W", "R"} /\ req[t].seen \in Nat
  BY <1>1 DEF Request
<1>3. req[t].seen <= Len(log)
  BY DEF ReadInv, ReadKnows
<1> QED
  BY <1>1, <1>2, <1>3

(* The search of a read that finds nothing.                                *)
LEMMA MissesOnlyUnwritten ==
  ASSUME TypeOK, PlaceInv, WritesKept, ReadInv,
         NEW t \in Threads, PassEntry(t), Fault, ~ (i[t] < MAX_FILES - 1), req[t].op # "W"
  PROVE  Misused(t)
<1>0. /\ pc[t] = "search" /\ files[i[t]].file_id # req[t].file
      /\ i[t] \in Slots /\ req[t] \in Request
  BY DEF PassEntry, TypeOK
<1>1. req[t].op = "R" /\ req[t].seen \in Nat /\ req[t].seen <= Len(log) /\ Len(log) \in Nat
  BY <1>0, SeenType
<1>2. ASSUME NEW k \in 1 .. req[t].seen, log[k].op = "W", log[k].file = req[t].file PROVE FALSE
  <2>1. k \in 1 .. Len(log)
    BY <1>1
  <2>2. PICK s \in Slots : files[s].file_id = log[k].file
    BY <1>2, <2>1 DEF WritesKept
  <2>3. s < i[t] \/ s = i[t]
    BY <1>0, StorageAssumption DEF Slots
  <2>4. ~ (s < i[t])
    BY <1>0, <1>1, <1>2, <2>2 DEF ReadInv, ReadKnows
  <2> QED
    BY <1>0, <1>2, <2>2, <2>3, <2>4
<1> QED
  BY <1>0, <1>2 DEF Misused

(* A chunk that is fetched although nothing is there.                      *)
LEMMA FetchesOnlyUnwritten ==
  ASSUME TypeOK, PlaceInv, WritesKept, ReadInv, DataInv,
         NEW t \in Threads, pc[t] = "fetch",
         ~ (/\ req[t].chunk \in Positions
            /\ files[file_index[t]].chunks[req[t].chunk].data # Wild)
  PROVE  Misused(t)
<1>0. file_index[t] \in Slots /\ files[file_index[t]].file_id = req[t].file /\ req[t] \in Request
  BY DEF TypeOK, Inside, ReadInv, ReadKnows
<1>1. req[t].seen \in Nat /\ req[t].seen <= Len(log) /\ Len(log) \in Nat
  BY <1>0, SeenType
<1>2. ASSUME NEW k \in 1 .. req[t].seen, log[k].op = "W", log[k].file = req[t].file,
             log[k].pos = req[t].chunk
      PROVE  FALSE
  <2>1. k \in 1 .. Len(log)
    BY <1>1
  <2>2. /\ log[k].pos \in 0 .. files[file_index[t]].num_chunks - 1
        /\ log[k].pos \in Positions
    BY <1>0, <1>2, <2>1, WrittenEntry
  <2>3. files[file_index[t]].chunks[req[t].chunk].data # Wild
    BY <1>0, <1>2, <2>2 DEF DataInv
  <2> QED
    BY <1>2, <2>2, <2>3
<1> QED
  BY <1>2 DEF Misused

(* The debug output of a write that prints what is not there.              *)
LEMMA EchoesOnlyAhead ==
  ASSUME TypeOK, PlaceInv, DataInv, NEW t \in Threads, pc[t] = "echo",
         ~ (/\ InTable(t)
            /\ Current(t).data # Wild
            /\ Current(t).id \in Positions
            /\ \/ req[t].data \in NoBytes
               \/ files[file_index[t]].chunks[Current(t).id].data # Wild)
  PROVE  Misused(t)
<1>0. req[t].op = "W" /\ req[t] \in Request
  BY DEF PlaceInv, RoleInv, Writing, Filling, TypeOK
<1>1. /\ file_index[t] \in Slots /\ chunk_counter \in Positions
      /\ chunk_counter = files[file_index[t]].num_chunks
      /\ Current(t).id = req[t].chunk
  BY <1>0 DEF PlaceInv, Placed, Filling
<1>2. Current(t).data # Wild
  BY <1>0 DEF DataInv, WriteHolds, Filling
<1>3. req[t].chunk \in Nat
  <2>1. req[t].chunk \in ChunkIds
    BY <1>0 DEF Request
  <2> QED
    BY <2>1, StorageAssumption
<1>4. MAX_CHUNKS \in Nat /\ chunk_counter \in Nat
  BY <1>1, StorageAssumption DEF Positions
<1>5. CASE req[t].chunk > chunk_counter
  <2>1. ~ (req[t].data \in NoBytes /\ req[t].chunk \in Positions)
    BY <1>1, <1>2 DEF InTable
  <2>2. req[t].data \notin NoBytes \/ req[t].chunk >= MAX_CHUNKS
    BY <1>3, <1>4, <2>1 DEF Positions
  <2> QED
    BY <1>5, <2>2 DEF Misused
<1>6. CASE req[t].chunk <= chunk_counter
  <2>1. /\ req[t].chunk \in Positions
        /\ req[t].chunk = chunk_counter \/ req[t].chunk \in 0 .. files[file_index[t]].num_chunks - 1
    BY <1>1, <1>3, <1>4, <1>6 DEF Positions
  <2>2. files[file_index[t]].chunks[req[t].chunk].data # Wild
    BY <1>1, <1>2, <2>1 DEF DataInv, Current
  <2> QED
    BY <1>1, <1>2, <2>1, <2>2 DEF InTable
<1> QED
  BY <1>3, <1>4, <1>5, <1>6

(* A chunk is given memory although the entry is full.                     *)
LEMMA AllocatesOnlyBeyond ==
  ASSUME SingleWriter, TypeOK, PlaceInv, NEW t \in Threads, pc[t] = "alloc", ~InTable(t)
  PROVE  Misused(t)
<1>0. req[t].op = "W" /\ req[t] \in Request
  BY DEF PlaceInv, RoleInv, Writing, Filling, TypeOK
<1>1. /\ file_index[t] \in Slots
      /\ files[file_index[t]].file_id = req[t].file
      /\ chunk_counter = files[file_index[t]].num_chunks
  BY <1>0 DEF PlaceInv, Placed, Filling
<1>2. req[t].file \in Nat
  <2>1. req[t].file \in FileIds
    BY <1>0 DEF Request
  <2> QED
    BY <2>1, StorageAssumption
<1>3. \A u \in Threads : pc[u] # "clear"
  BY <1>0, OthersRead DEF PlaceInv, Claiming
<1>4. chunk_counter # -1 /\ chunk_counter \in -1 .. MAX_CHUNKS
  BY <1>1, <1>2, <1>3 DEF PlaceInv, TableInv
<1>5. chunk_counter = MAX_CHUNKS
  <2>1. MAX_CHUNKS \in Nat
    BY StorageAssumption
  <2> QED
    BY <1>1, <1>4, <2>1 DEF InTable, Positions
<1> QED
  BY <1>5 DEF Misused

LEMMA DeathStep ==
  ASSUME SingleWriter, TypeOK, PlaceInv, WritesKept, ReadInv, DataInv, DiesOnlyOnMisuse,
         [Next]_vars
  PROVE  DiesOnlyOnMisuse'
<1>0. CASE UNCHANGED vars
  BY <1>0 DEF vars, store, DiesOnlyOnMisuse
<1> SUFFICES ASSUME NEW t \in Threads, Receive(t) \/ Step(t), ~alive' PROVE DiesOnlyOnMisuse'
  BY <1>0 DEF Next, DiesOnlyOnMisuse
<1>1. SUFFICES ASSUME Fault PROVE Misused(t)
  <2>1. alive
    BY DEF Receive, Step
  <2>2. Fault
    <3>1. CASE Receive(t)
      BY <2>1, <3>1, ReceiveTakes
    <3>2. CASE Step(t) /\ ~Fault
      BY <2>1, <3>2
         DEF Step, FindEntry, PassEntry, ClaimEntry, ClearEntry, TakeIndex, LoadIndex, StoreIndex,
             CountChunks, AllocChunk, LabelChunk, FillChunk, EchoChunk, LoadCount, StoreCount,
             FetchChunk
    <3> QED
      BY <3>1, <3>2
  <2>3. Misused(t)
    BY <1>1, <2>2
  <2> QED
    BY <2>2, <2>3 DEF Misused, DiesOnlyOnMisuse, Fault, store
<1>2. alive /\ ~alive'
  BY DEF Receive, Step
<1>3. Step(t)
  BY <1>2, ReceiveTakes
<1>4. CASE PassEntry(t)
  <2>1. i[t] \in Slots /\ MAX_FILES \in Nat
    BY StorageAssumption DEF TypeOK
  <2>2. ~ (i[t] < MAX_FILES - 1)
    BY <1>2, <1>4 DEF PassEntry
  <2>3. req[t].op # "W"
    BY <1>2, <1>4, <2>2 DEF PassEntry
  <2> QED
    BY <1>1, <1>4, <2>2, <2>3, MissesOnlyUnwritten
<1>5. CASE ClaimEntry(t)
  <2>1. pc[t] = "claim" /\ global_file_index \notin Slots
    BY <1>2, <1>5 DEF ClaimEntry
  <2>2. global_file_index \in Nat /\ global_file_index <= MAX_FILES /\ MAX_FILES \in Nat
    BY StorageAssumption DEF TypeOK, PlaceInv, TableInv
  <2>3. global_file_index = MAX_FILES
    BY <2>1, <2>2 DEF Slots
  <2> QED
    BY <2>1, <2>3 DEF Misused
<1>6. ASSUME Claiming(t) \/ Filling(t) \/ pc[t] = "count" PROVE Placed(t) /\ req[t].op = "W"
  BY <1>6 DEF PlaceInv, RoleInv, Writing, Claiming, Filling
<1>7. CASE ClearEntry(t)
  <2>1. pc[t] = "clear" /\ global_file_index \notin Slots
    BY <1>2, <1>7 DEF ClearEntry
  <2> QED
    BY <1>6, <2>1 DEF Claiming, Placed
<1>8. CASE CountChunks(t)
  <2>1. pc[t] = "count" /\ file_index[t] \notin Slots
    BY <1>2, <1>8 DEF CountChunks
  <2> QED
    BY <1>6, <2>1 DEF Placed
<1>9. CASE AllocChunk(t)
  <2>1. pc[t] = "alloc" /\ ~InTable(t)
    BY <1>2, <1>9 DEF AllocChunk
  <2> QED
    BY <2>1, AllocatesOnlyBeyond
<1>10. CASE LabelChunk(t)
  <2>1. pc[t] = "label" /\ ~InTable(t)
    BY <1>2, <1>10 DEF LabelChunk
  <2> QED
    BY <1>6, <2>1 DEF Placed, Filling, InTable
<1>11. CASE FillChunk(t)
  <2>1. pc[t] = "fill" /\ ~ (InTable(t) /\ Current(t).data # Wild)
    BY <1>2, <1>11 DEF FillChunk
  <2>2. InTable(t)
    BY <1>6, <2>1 DEF Placed, Filling, InTable
  <2>3. Current(t).data # Wild
    BY <1>6, <2>1 DEF DataInv, WriteHolds, Filling
  <2> QED
    BY <2>1, <2>2, <2>3
<1>12. CASE EchoChunk(t)
  <2>1. /\ pc[t] = "echo"
        /\ ~ (/\ InTable(t)
              /\ Current(t).data # Wild
              /\ Current(t).id \in Positions
              /\ \/ req[t].data \in NoBytes
                 \/ files[file_index[t]].chunks[Current(t).id].data # Wild)
    BY <1>2, <1>12 DEF EchoChunk
  <2> QED
    BY <2>1, EchoesOnlyAhead
<1>13. CASE FetchChunk(t)
  <2>1. /\ pc[t] = "fetch"
        /\ ~ (/\ req[t].chunk \in Positions
              /\ files[file_index[t]].chunks[req[t].chunk].data # Wild)
    BY <1>2, <1>13 DEF FetchChunk
  <2> QED
    BY <2>1, FetchesOnlyUnwritten
<1>14. CASE FindEntry(t) \/ TakeIndex(t) \/ LoadIndex(t) \/ StoreIndex(t) \/ LoadCount(t)
            \/ StoreCount(t)
  BY <1>2, <1>14 DEF FindEntry, TakeIndex, LoadIndex, StoreIndex, LoadCount, StoreCount
<1> QED
  BY <1>3, <1>4, <1>5, <1>7, <1>8, <1>9, <1>10, <1>11, <1>12, <1>13, <1>14 DEF Step

(* While one connection writes, a node dies only of a read of a chunk that *)
(* was not written, a chunk numbered ahead of those that are there, or a   *)
(* full table or entry: never of a reader that meets a write half done.    *)
THEOREM StorageDiesOnlyOnMisuse ==
  ASSUME SingleWriter
  PROVE  Spec => []DiesOnlyOnMisuse
<1>1. Init => DiesOnlyOnMisuse
  BY DEF Init, DiesOnlyOnMisuse
<1>2. /\ TypeOK /\ PlaceInv /\ WritesKept /\ ReadInv /\ DataInv /\ DiesOnlyOnMisuse
      /\ [Next]_vars
      => DiesOnlyOnMisuse'
  BY DeathStep
<1> QED
  BY <1>1, <1>2, StorageTypeCorrect, PlaceInvariant, StorageWritesKept, ReadInvariant,
     DataInvariant, PTL DEF Spec

-----------------------------------------------------------------------------
(* The node implements the chunk store                                     *)

(* The chunk a write gave memory is blank until it is filled, and nothing  *)
(* but the chunk of a write in progress has contents beyond those counted. *)
FreshFirst(t) == pc[t] \in {"label", "fill"} => Current(t).data = Blank

Beyond(s) ==
  \A k \in Positions : k >= files[s].num_chunks =>
    \/ files[s].chunks[k].data = Wild
    \/ k = files[s].num_chunks /\ \E t \in Threads : Arriving(t) /\ file_index[t] = s

FreshInv == (\A t \in Threads : FreshFirst(t)) /\ (\A s \in Slots : Beyond(s))

(* A write that has arrived works on the chunk after those counted.        *)
LEMMA ArrivingPlace ==
  ASSUME PlaceInv, NEW t \in Threads, Arriving(t)
  PROVE  /\ req[t].op = "W" /\ Filling(t) /\ pc[t] # "alloc" /\ pc[t] # "idle"
         /\ file_index[t] \in Slots
         /\ files[file_index[t]].file_id = req[t].file
         /\ chunk_counter = files[file_index[t]].num_chunks
         /\ chunk_counter \in Positions
<1>1. Filling(t) /\ pc[t] # "alloc" /\ pc[t] # "idle"
  BY DEF Arriving, Filling
<1>2. req[t].op = "W"
  BY <1>1 DEF PlaceInv, RoleInv, Writing, Filling
<1>3. Placed(t)
  BY <1>1, <1>2 DEF PlaceInv
<1> QED
  BY <1>1, <1>2, <1>3 DEF Placed

(* A step of the writing thread.                                           *)
LEMMA FreshWrite ==
  ASSUME SingleWriter, TypeOK, PlaceInv, NEW t \in Threads, FreshFirst(t), Step(t)
  PROVE  FreshFirst(t)'
<1>1. CASE Fault
  BY <1>1 DEF Fault, FreshFirst, Current, store
<1>2. CASE AllocChunk(t) /\ ~Fault
  <2>1. /\ InTable(t)
        /\ files' = [files EXCEPT ![file_index[t]].chunks[chunk_counter].data = Blank]
        /\ UNCHANGED <<chunk_counter, file_index>>
    BY <1>2 DEF AllocChunk
  <2> QED
    BY <2>1, ChunkUpdate DEF InTable, Current, FreshFirst
<1>3. CASE LabelChunk(t) /\ ~Fault
  <2>1. /\ InTable(t)
        /\ pc[t] = "label"
        /\ files' = [files EXCEPT ![file_index[t]].chunks[chunk_counter].id = req[t].chunk]
        /\ UNCHANGED <<chunk_counter, file_index>>
    BY <1>3 DEF LabelChunk
  <2>2. Current(t).data = Blank
    BY <2>1 DEF FreshFirst
  <2> QED
    BY <2>1, <2>2, ChunkUpdate DEF InTable, Current, FreshFirst
<1>4. CASE /\ ~Fault
           /\ \/ FindEntry(t) \/ PassEntry(t) \/ ClaimEntry(t) \/ ClearEntry(t) \/ TakeIndex(t)
              \/ LoadIndex(t) \/ StoreIndex(t) \/ CountChunks(t) \/ FillChunk(t) \/ EchoChunk(t)
              \/ LoadCount(t) \/ StoreCount(t) \/ FetchChunk(t)
  <2>1. pc'[t] \notin {"label", "fill"}
    BY <1>4 DEF FindEntry, PassEntry, ClaimEntry, ClearEntry, TakeIndex, LoadIndex, StoreIndex,
                CountChunks, FillChunk, EchoChunk, LoadCount, StoreCount, FetchChunk, Done, Goto, TypeOK
  <2> QED
    BY <2>1 DEF FreshFirst
<1> QED
  BY <1>1, <1>2, <1>3, <1>4 DEF Step

(* A write that has arrived stays until it ends.                           *)
LEMMA ArrivingStays ==
  ASSUME TypeOK, NEW t \in Threads, Step(t), Arriving(t), ~StoreCount(t)
  PROVE  Arriving(t)' /\ file_index'[t] = file_index[t] /\ req'[t] = req[t]
<1>1. CASE Fault
  BY <1>1 DEF Fault, Arriving
<1>2. CASE ~Fault
  BY <1>2 DEF Step, Arriving, TypeOK, Goto, FindEntry, PassEntry, ClaimEntry, ClearEntry, TakeIndex,
              LoadIndex, StoreIndex, CountChunks, AllocChunk, LabelChunk, FillChunk, EchoChunk,
              LoadCount, FetchChunk
<1> QED
  BY <1>1, <1>2

(* What a step does to the chunks beyond those an entry counts.            *)
LEMMA BeyondStep ==
  ASSUME SingleWriter, TypeOK, PlaceInv, FreshInv, NEW t \in Threads, Step(t), NEW s \in Slots
  PROVE  Beyond(s)'
<1>0. files[s].num_chunks \in Int /\ chunk_counter \in Int /\ Positions \subseteq Nat /\ Beyond(s)
  BY StorageAssumption DEF TypeOK, Entry, Positions, FreshInv
<1>1. ASSUME ~StoreCount(t)
      PROVE  (\E u \in Threads : Arriving(u) /\ file_index[u] = s)
             => \E u \in Threads : Arriving(u)' /\ file_index'[u] = s
  <2> SUFFICES ASSUME NEW u \in Threads, Arriving(u), file_index[u] = s
               PROVE  Arriving(u)' /\ file_index'[u] = s
    OBVIOUS
  <2>1. CASE u = t
    BY <1>1, <2>1, ArrivingStays
  <2>2. CASE u # t
    BY <2>2, OthersStay DEF Arriving
  <2> QED
    BY <2>1, <2>2
<1>2. ASSUME ~StoreCount(t), files'[s] = files[s] PROVE Beyond(s)'
  BY <1>0, <1>1, <1>2 DEF Beyond
<1>3. ASSUME ClaimEntry(t), global_file_index \in Slots PROVE Beyond(s)'
  <2>1. files' = [files EXCEPT ![global_file_index].file_id = req[t].file] /\ ~StoreCount(t)
    BY <1>3 DEF ClaimEntry, StoreCount
  <2>2. files'[s].num_chunks = files[s].num_chunks /\ files'[s].chunks = files[s].chunks
    BY <1>3, <2>1, EntryUpdate
  <2> QED
    BY <1>0, <1>1, <2>1, <2>2 DEF Beyond
<1>4. ASSUME ClearEntry(t), global_file_index \in Slots, s = global_file_index PROVE Beyond(s)'
  <2>1. files' = [files EXCEPT ![s].num_chunks = 0] /\ pc[t] = "clear"
    BY <1>4 DEF ClearEntry
  <2>2. files'[s].num_chunks = 0 /\ files'[s].chunks = files[s].chunks
    BY <2>1, EntryUpdate
  <2>3. files[s].num_chunks = -1
    <3>1. req[t].op = "W"
      BY <2>1 DEF PlaceInv, RoleInv, Writing, Claiming
    <3> QED
      BY <1>4, <2>1, <3>1 DEF PlaceInv, Placed
  <2>4. \A k \in Positions : k >= files[s].num_chunks /\ k # files[s].num_chunks
    BY <1>0, <2>3
  <2>5. \A k \in Positions : files[s].chunks[k].data = Wild
    BY <1>0, <2>4 DEF Beyond
  <2> QED
    BY <2>2, <2>5 DEF Beyond
<1>5. ASSUME AllocChunk(t) \/ LabelChunk(t) \/ FillChunk(t), ~Fault, s = file_index[t]
      PROVE  Beyond(s)'
  <2> DEFINE n == chunk_counter
  <2>1. /\ n \in Positions
        /\ pc[t] \in {"alloc", "label", "fill"}
        /\ file_index' = file_index
        /\ pc'[t] \in {"label", "fill", "echo"}
    BY <1>5 DEF AllocChunk, LabelChunk, FillChunk, InTable, Goto, TypeOK
  <2>2. n = files[s].num_chunks
    <3>1. req[t].op = "W"
      BY <2>1 DEF PlaceInv, RoleInv, Writing, Filling
    <3> QED
      BY <1>5, <2>1, <3>1 DEF PlaceInv, Placed, Filling
  <2>3. PICK v : \/ files' = [files EXCEPT ![s].chunks[n].data = v]
                 \/ files' = [files EXCEPT ![s].chunks[n].id = v]
    BY <1>5 DEF AllocChunk, LabelChunk, FillChunk
  <2>4. Arriving(t)' /\ file_index'[t] = s
    BY <1>5, <2>1 DEF Arriving
  <2> HIDE DEF n
  <2>5. /\ files'[s].num_chunks = files[s].num_chunks
        /\ \A k \in Positions \ {n} : files'[s].chunks[k] = files[s].chunks[k]
    <3>1. CASE files' = [files EXCEPT ![s].chunks[n].data = v]
      BY <2>1, <3>1, ChunkUpdate
    <3>2. CASE files' = [files EXCEPT ![s].chunks[n].id = v]
      BY <2>1, <3>2, ChunkUpdate
    <3> QED
      BY <2>3, <3>1, <3>2
  <2>6. ASSUME NEW k \in Positions, k >= files[s].num_chunks, k # n
        PROVE  files'[s].chunks[k].data = Wild
    BY <2>2, <2>5, <2>6, <1>0 DEF Beyond
  <2> QED
    BY <2>2, <2>4, <2>5, <2>6 DEF Beyond
<1>6. ASSUME AllocChunk(t) \/ LabelChunk(t) \/ FillChunk(t), ~Fault, s # file_index[t]
      PROVE  files'[s] = files[s] /\ ~StoreCount(t)
  <2>1. file_index[t] \in Slots /\ chunk_counter \in Positions /\ ~StoreCount(t)
    BY <1>6 DEF AllocChunk, LabelChunk, FillChunk, InTable, StoreCount
  <2> DEFINE f == file_index[t]
             n == chunk_counter
  <2>2. PICK v : \/ files' = [files EXCEPT ![f].chunks[n].data = v]
                 \/ files' = [files EXCEPT ![f].chunks[n].id = v]
    BY <1>6 DEF AllocChunk, LabelChunk, FillChunk
  <2>3. f \in Slots /\ n \in Positions /\ s # f
    BY <1>6, <2>1
  <2> HIDE DEF f, n
  <2>4. CASE files' = [files EXCEPT ![f].chunks[n].data = v]
    BY <2>1, <2>3, <2>4, ChunkUpdate
  <2>5. CASE files' = [files EXCEPT ![f].chunks[n].id = v]
    BY <2>1, <2>3, <2>5, ChunkUpdate
  <2> QED
    BY <2>2, <2>4, <2>5
<1>7. ASSUME StoreCount(t) PROVE Beyond(s)'
  <2> DEFINE f == file_index[t]
             n == reg[t] + 1
  <2>1. Arriving(t) /\ pc[t] = "grown" /\ files' = [files EXCEPT ![f].num_chunks = n]
    BY <1>7 DEF StoreCount, Arriving
  <2>2. f \in Slots /\ chunk_counter = files[f].num_chunks /\ req[t].op = "W"
    BY <2>1, ArrivingPlace
  <2>3. reg[t] = chunk_counter
    BY <2>1, <2>2 DEF PlaceInv, Placed
  <2>4. n = files[f].num_chunks + 1
    BY <2>2, <2>3
  <2> HIDE DEF f, n
  <2>5. /\ files'[f].num_chunks = n
        /\ files'[f].chunks = files[f].chunks
        /\ \A r \in Slots \ {f} : files'[r] = files[r]
    BY <2>1, <2>2, EntryUpdate
  <2>6. CASE s = f
    <3>1. ASSUME NEW k \in Positions, k >= n PROVE files[s].chunks[k].data = Wild
      <4>1. k >= files[s].num_chunks /\ k # files[s].num_chunks
        BY <1>0, <2>4, <2>6, <3>1
      <4> QED
        BY <1>0, <4>1 DEF Beyond
    <3> QED
      BY <2>5, <2>6, <3>1 DEF Beyond
  <2>7. CASE s # f
    <3>1. ASSUME NEW u \in Threads, Arriving(u), file_index[u] = s
          PROVE  Arriving(u)' /\ file_index'[u] = s
      <4>1. u # t
        BY <2>7, <3>1 DEF f
      <4> QED
        BY <3>1, <4>1, OthersStay DEF Arriving
    <3> QED
      BY <1>0, <2>5, <2>7, <3>1 DEF Beyond
  <2> QED
    BY <2>6, <2>7
<1>8. CASE \/ Fault /\ ~StoreCount(t)
           \/ FindEntry(t) \/ PassEntry(t) \/ TakeIndex(t) \/ LoadIndex(t) \/ StoreIndex(t)
           \/ CountChunks(t) \/ EchoChunk(t) \/ LoadCount(t) \/ FetchChunk(t)
  <2>1. Fault => UNCHANGED files
    BY DEF Fault, store
  <2>2. ~StoreCount(t) /\ UNCHANGED files
    BY <1>8, <2>1 DEF FindEntry, PassEntry, TakeIndex, LoadIndex, StoreIndex, CountChunks,
                      EchoChunk, LoadCount, FetchChunk, StoreCount, store
  <2> QED
    BY <1>2, <2>2
<1>9. ASSUME ClearEntry(t), s # global_file_index, ~Fault PROVE files'[s] = files[s] /\ ~StoreCount(t)
  <2>1. /\ global_file_index \in Slots /\ ~StoreCount(t)
        /\ files' = [files EXCEPT ![global_file_index].num_chunks = 0]
    BY <1>9 DEF ClearEntry, StoreCount
  <2> QED
    BY <1>9, <2>1, EntryUpdate
<1>10. (ClaimEntry(t) \/ ClearEntry(t)) /\ ~Fault => global_file_index \in Slots
  BY DEF ClaimEntry, ClearEntry
<1> QED
  BY <1>2, <1>3, <1>4, <1>5, <1>6, <1>7, <1>8, <1>9, <1>10 DEF Step

LEMMA FreshStep ==
  ASSUME SingleWriter, TypeOK, PlaceInv, FreshInv, [Next]_vars
  PROVE  FreshInv'
<1>1. CASE UNCHANGED vars
  BY <1>1 DEF FreshInv, FreshFirst, Beyond, Arriving, Current, vars, store
<1>2. ASSUME NEW t \in Threads, Receive(t) PROVE FreshInv'
  <2>1. pc[t] = "idle" /\ pc'[t] = "search" /\ UNCHANGED store
    BY <1>2, ReceiveTakes
  <2>2. \A u \in Threads \ {t} : pc'[u] = pc[u] /\ file_index'[u] = file_index[u]
    BY <1>2, OthersStay
  <2>3. \A u \in Threads : FreshFirst(u)'
    BY <2>1, <2>2 DEF FreshInv, FreshFirst, Current, store
  <2>4. \A u \in Threads : Arriving(u) => Arriving(u)' /\ file_index'[u] = file_index[u]
    BY <2>1, <2>2 DEF Arriving
  <2>5. \A s \in Slots : Beyond(s)'
    BY <2>1, <2>4 DEF FreshInv, Beyond, store
  <2> QED
    BY <2>3, <2>5 DEF FreshInv
<1>3. ASSUME NEW t \in Threads, Step(t) PROVE FreshInv'
  <2>1. ASSUME NEW u \in Threads PROVE FreshFirst(u)'
    <3>1. CASE u = t
      BY <1>3, <3>1, FreshWrite DEF FreshInv
    <3>2. CASE u # t /\ pc[u] \in {"label", "fill"}
      <4>1. pc[u] # "idle" /\ req[u].op = "W"
        BY <3>2, ArrivingPlace DEF Arriving
      <4>2. UNCHANGED store
        BY <1>3, <3>2, <4>1, ReadersQuiet
      <4> QED
        BY <1>3, <3>2, <4>2, OthersStay DEF FreshInv, FreshFirst, Current, store
    <3>3. CASE u # t /\ pc[u] \notin {"label", "fill"}
      BY <1>3, <3>3, OthersStay DEF FreshFirst
    <3> QED
      BY <3>1, <3>2, <3>3
  <2> QED
    BY <1>3, <2>1, BeyondStep DEF FreshInv
<1> QED
  BY <1>1, <1>2, <1>3 DEF Next

LEMMA FreshInvariant ==
  ASSUME SingleWriter
  PROVE  Spec => []FreshInv
<1>1. Init => FreshInv
  <2> SUFFICES ASSUME Init PROVE FreshInv
    OBVIOUS
  <2>1. /\ \A t \in Threads : pc[t] = "idle"
        /\ \A s \in Slots : \A k \in Positions : files[s].chunks[k].data = Wild
    BY DEF Init, EmptyTable
  <2> QED
    BY <2>1 DEF FreshInv, FreshFirst, Beyond
<1>2. TypeOK /\ PlaceInv /\ FreshInv /\ [Next]_vars => FreshInv'
  BY FreshStep
<1> QED
  BY <1>1, <1>2, StorageTypeCorrect, PlaceInvariant, PTL DEF Spec

(* The chunks an entry counts.                                             *)
Counted(s) == [k \in 1 .. files[s].num_chunks |-> files[s].chunks[k - 1]]

(* While a file has one entry, its chunks are those its entry counts.      *)
FilesHold ==
  \A f \in FileIds :
    /\ \A s \in Slots : files[s].file_id = f => StoredChunks(f) = Counted(s)
    /\ (\A s \in Slots : files[s].file_id # f) => StoredChunks(f) = << >>

LEMMA OneEntryHolds == OneEntryPerFile => FilesHold
<1> SUFFICES ASSUME OneEntryPerFile, NEW f \in FileIds
             PROVE  /\ \A s \in Slots : files[s].file_id = f => StoredChunks(f) = Counted(s)
                    /\ (\A s \in Slots : files[s].file_id # f) => StoredChunks(f) = << >>
  BY DEF FilesHold
<1> DEFINE entries == {r \in Slots : files[r].file_id = f}
<1>1. f # -1
  BY StorageAssumption
<1>2. ASSUME NEW s \in Slots, files[s].file_id = f PROVE StoredChunks(f) = Counted(s)
  <2>1. entries = {s}
    BY <1>1, <1>2 DEF OneEntryPerFile
  <2>2. (CHOOSE r \in entries : TRUE) = s
    BY <2>1
  <2>3. entries # {}
    BY <2>1
  <2> QED
    BY <2>2, <2>3 DEF StoredChunks, Counted
<1>3. ASSUME \A s \in Slots : files[s].file_id # f PROVE StoredChunks(f) = << >>
  <2>1. entries = {}
    BY <1>3
  <2> QED
    BY <2>1 DEF StoredChunks
<1> QED
  BY <1>2, <1>3

LEMMA OneEntryHoldsNext == OneEntryPerFile' => FilesHold'
BY OneEntryHolds, PTL

(* The chunks an entry counts, as a sequence.                              *)
LEMMA CountedSeq ==
  ASSUME TypeOK, PlaceInv, NEW s \in Slots, files[s].num_chunks >= 0
  PROVE  /\ Counted(s) \in Seq([id : Int, data : Contents])
         /\ Len(Counted(s)) = files[s].num_chunks
         /\ \A k \in 0 .. files[s].num_chunks - 1 :
              k + 1 \in 1 .. files[s].num_chunks /\ Counted(s)[k + 1] = files[s].chunks[k]
<1>1. /\ files[s].num_chunks \in Nat /\ files[s].num_chunks <= MAX_CHUNKS /\ MAX_CHUNKS \in Nat
      /\ files[s].chunks \in [Positions -> [id : Int, data : Contents]]
  BY StorageAssumption DEF PlaceInv, TableInv, TypeOK, Entry
<1>2. \A k \in 1 .. files[s].num_chunks : files[s].chunks[k - 1] \in [id : Int, data : Contents]
  <2>1. \A k \in 1 .. files[s].num_chunks : k - 1 \in Positions
    BY <1>1 DEF Positions
  <2> QED
    BY <1>1, <2>1
<1>3. Counted(s) \in Seq([id : Int, data : Contents]) /\ Len(Counted(s)) = files[s].num_chunks
  <2> DEFINE n == files[s].num_chunks
             S == [id : Int, data : Contents]
  <2>1. Counted(s) \in [1 .. n -> S]
    BY <1>2 DEF Counted
  <2>2. n \in Nat
    BY <1>1
  <2> HIDE DEF n, S
  <2>3. Counted(s) \in Seq(S) /\ Len(Counted(s)) = n
    BY <2>1, <2>2
  <2> QED
    BY <2>3 DEF n, S
<1>4. ASSUME NEW k \in 0 .. files[s].num_chunks - 1
      PROVE  k + 1 \in 1 .. files[s].num_chunks /\ Counted(s)[k + 1] = files[s].chunks[k]
  <2>1. k + 1 \in 1 .. files[s].num_chunks /\ (k + 1) - 1 = k
    BY <1>1
  <2> QED
    BY <2>1 DEF Counted
<1> QED
  BY <1>3, <1>4

(* Only the end of a write changes what a file holds.                      *)
LEMMA ChunksStay ==
  ASSUME SingleWriter, TypeOK, PlaceInv, [Next]_vars, \A t \in Threads : ~StoreCount(t)
  PROVE  StoredFiles' = StoredFiles
<1>1. FilesHold /\ FilesHold'
  <2>1. OneEntryPerFile /\ OneEntryPerFile'
    BY PlaceStep DEF PlaceInv, TableInv
  <2> QED
    BY <2>1, OneEntryHolds, OneEntryHoldsNext
<1>2. \A s \in Slots : files[s].num_chunks \in Int /\ files'[s].num_chunks \in Int
  BY TypeStep DEF TypeOK, Entry
<1>3. ASSUME NEW f \in FileIds, NEW s \in Slots, files[s].file_id = f
      PROVE  StoredChunks(f)' = StoredChunks(f)
  <2>1. f # -1
    BY StorageAssumption
  <2>2. /\ files'[s].file_id = f
        /\ files'[s].num_chunks >= files[s].num_chunks
        /\ \A k \in 0 .. files[s].num_chunks - 1 : files'[s].chunks[k] = files[s].chunks[k]
    BY <1>3, <2>1, KeepsStep DEF Keeps
  <2>3. StoredChunks(f) = Counted(s) /\ StoredChunks(f)' = Counted(s)'
    BY <1>1, <1>3, <2>2 DEF FilesHold
  <2>4. files'[s].num_chunks = files[s].num_chunks \/ files'[s].num_chunks = 0
    BY CountStep
  <2>5. 1 .. files'[s].num_chunks = 1 .. files[s].num_chunks
    BY <1>2, <2>2, <2>4
  <2>6. \A k \in 1 .. files[s].num_chunks : files'[s].chunks[k - 1] = files[s].chunks[k - 1]
    <3>1. \A k \in 1 .. files[s].num_chunks : k - 1 \in 0 .. files[s].num_chunks - 1
      BY <1>2
    <3> QED
      BY <2>2, <3>1
  <2>7. Counted(s)' = Counted(s)
    BY <2>5, <2>6 DEF Counted
  <2> QED
    BY <2>3, <2>7
<1>4. ASSUME NEW f \in FileIds, \A s \in Slots : files[s].file_id # f
      PROVE  StoredChunks(f)' = StoredChunks(f)
  <2>1. StoredChunks(f) = << >>
    BY <1>1, <1>4 DEF FilesHold
  <2>2. ASSUME NEW s \in Slots, files'[s].file_id = f PROVE StoredChunks(f)' = << >>
    <3>1. files[s].file_id = -1
      BY <1>4, <2>2, KeepsStep DEF Keeps
    <3>2. files[s].num_chunks = -1
      BY <3>1 DEF PlaceInv, TableInv
    <3>3. files'[s].num_chunks = -1 \/ files'[s].num_chunks = 0
      BY <3>2, CountStep
    <3>4. 1 .. files'[s].num_chunks = {}
      BY <3>3
    <3>5. Counted(s)' = << >>
      BY <3>4 DEF Counted
    <3> QED
      BY <1>1, <2>2, <3>5 DEF FilesHold
  <2>3. (\A s \in Slots : files'[s].file_id # f) => StoredChunks(f)' = << >>
    BY <1>1 DEF FilesHold
  <2> QED
    BY <2>1, <2>2, <2>3
<1>5. \A f \in FileIds : StoredChunks(f)' = StoredChunks(f)
  BY <1>3, <1>4
<1> QED
  BY <1>5 DEF StoredFiles

(* The writer is alone among the writes that have arrived.                 *)
LEMMA OneArrival ==
  ASSUME SingleWriter, PlaceInv, NEW t \in Threads, pc[t] # "idle", req[t].op = "W",
         NEW u \in Threads \ {t}
  PROVE  ~Arriving(u)
<1>1. ~Filling(u)
  BY OthersRead DEF PlaceInv
<1> QED
  BY <1>1 DEF Arriving, Filling

(* The write of thread t, as the chunk store sees it.                      *)
WriteOf(t) == [file |-> req[t].file, id |-> req[t].chunk, data |-> req[t].data]

(* A step that begins and ends no write.                                   *)
LEMMA ArrivalsStay ==
  ASSUME TypeOK, NEW t \in Threads, Receive(t) \/ Step(t),
         ~StoreCount(t), ~ (AllocChunk(t) /\ ~Fault)
  PROVE  ArrivingWrites' = ArrivingWrites
<1>1. Arriving(t)' = Arriving(t) /\ (Arriving(t) => req'[t] = req[t])
  <2>1. CASE Receive(t)
    BY <2>1, ReceiveTakes DEF Arriving
  <2>2. CASE Fault
    BY <2>2 DEF Fault, Arriving
  <2>3. CASE Step(t) /\ Arriving(t)
    BY <2>3, ArrivingStays
  <2>4. CASE Step(t) /\ ~Arriving(t) /\ ~Fault
    <3>1. CASE FindEntry(t) \/ PassEntry(t) \/ ClaimEntry(t) \/ ClearEntry(t) \/ TakeIndex(t)
               \/ LoadIndex(t) \/ StoreIndex(t) \/ CountChunks(t) \/ FetchChunk(t)
      <4>1. pc'[t] \notin {"label", "fill", "echo", "grow", "grown"}
        BY <2>4, <3>1 DEF FindEntry, PassEntry, ClaimEntry, ClearEntry, TakeIndex, LoadIndex,
                          StoreIndex, CountChunks, FetchChunk, Done, Goto, TypeOK, Arriving
      <4> QED
        BY <2>4, <4>1 DEF Arriving
    <3>2. ~ (LabelChunk(t) \/ FillChunk(t) \/ EchoChunk(t) \/ LoadCount(t))
      BY <2>4 DEF LabelChunk, FillChunk, EchoChunk, LoadCount, Arriving
    <3> QED
      BY <2>4, <3>1, <3>2 DEF Step
  <2> QED
    BY <2>1, <2>2, <2>3, <2>4
<1>2. \A u \in Threads \ {t} : Arriving(u)' = Arriving(u) /\ req'[u] = req[u]
  BY OthersStay DEF Arriving
<1>3. {u \in Threads : Arriving(u)'} = {u \in Threads : Arriving(u)}
  BY <1>1, <1>2
<1>4. \A u \in {r \in Threads : Arriving(r)} : WriteOf(u)' = WriteOf(u)
  BY <1>1, <1>2 DEF WriteOf
<1>5. /\ ArrivingWrites = {WriteOf(u) : u \in {r \in Threads : Arriving(r)}}
      /\ ArrivingWrites' = {WriteOf(u)' : u \in {r \in Threads : Arriving(r)'}}
  BY DEF ArrivingWrites, WriteOf
<1> QED
  BY <1>3, <1>4, <1>5

(* A chunk is given memory: a write arrives.                               *)
LEMMA AllocArrives ==
  ASSUME SingleWriter, TypeOK, PlaceInv, DataInv, NEW t \in Threads, AllocChunk(t), ~Fault,
         StoredFiles' = StoredFiles, Step(t)
  PROVE  Store!Arrive
<1>1. pc[t] = "alloc" /\ pc'[t] = "label" /\ req' = req /\ log' = log
  BY DEF AllocChunk, Goto, TypeOK
<1>2. req[t].op = "W"
  BY <1>1 DEF PlaceInv, RoleInv, Writing, Filling
<1>3. \A u \in Threads \ {t} : ~Arriving(u) /\ ~Arriving(u)'
  BY <1>1, <1>2, OneArrival, OthersStay DEF Arriving
<1>4. {u \in Threads : Arriving(u)} = {} /\ {u \in Threads : Arriving(u)'} = {t}
  BY <1>1, <1>3 DEF Arriving
<1>5. ArrivingWrites = {} /\ ArrivingWrites' = {WriteOf(t)}
  <2>1. /\ ArrivingWrites = {WriteOf(u) : u \in {r \in Threads : Arriving(r)}}
        /\ ArrivingWrites' = {WriteOf(u)' : u \in {r \in Threads : Arriving(r)'}}
    BY DEF ArrivingWrites, WriteOf
  <2>2. WriteOf(t)' = WriteOf(t)
    BY <1>1 DEF WriteOf
  <2> QED
    BY <1>4, <2>1, <2>2
<1>6. req[t].file \in FileIds /\ req[t].chunk \in ChunkIds /\ req[t].data \in Payloads
  BY <1>1, <1>2 DEF TypeOK, Request, DataInv, WriteHolds
<1> QED
  BY <1>1, <1>5, <1>6 DEF Store!Arrive, WriteOf

(* A request is answered.                                                  *)
LEMMA DoneAnswers ==
  ASSUME TypeOK, ReadInv, NEW t \in Threads, pc[t] # "idle", NEW d, NEW p, Done(t, d, p)
  PROVE  Store!Answer(req[t].op, req[t].file, req[t].chunk, d, p)
<1>1. req[t].seen \in 0 .. Len(log)
  BY SeenType
<1>2. log' = Append(log, [op |-> req[t].op, file |-> req[t].file, chunk |-> req[t].chunk,
                          data |-> d, pos |-> p, seen |-> req[t].seen])
  BY DEF Done
<1> QED
  BY <1>1, <1>2 DEF Store!Answer

(* Append, element by element.                                             *)
LEMMA AppendAsFunction ==
  ASSUME NEW S, NEW q \in Seq(S), NEW c \in S, NEW n \in Nat, n = Len(q)
  PROVE  Append(q, c) = [k \in 1 .. n + 1 |-> IF k = n + 1 THEN c ELSE q[k]]
<1> DEFINE a == Append(q, c)
<1>1. a \in Seq(S) /\ Len(a) = n + 1
  OBVIOUS
<1>2. \A k \in 1 .. n : a[k] = q[k]
  OBVIOUS
<1>3. a[n + 1] = c
  OBVIOUS
<1> HIDE DEF a
<1>4. DOMAIN a = 1 .. Len(a)
  BY <1>1
<1>5. a \in [1 .. Len(a) -> S]
  BY <1>1, <1>4
<1>6. a = [k \in 1 .. n + 1 |-> a[k]]
  BY <1>1, <1>5
<1>7. \A k \in 1 .. n + 1 : a[k] = IF k = n + 1 THEN c ELSE q[k]
  BY <1>2, <1>3
<1> QED
  BY <1>6, <1>7 DEF a

(* An entry that counts one chunk more appends it to its file.             *)
LEMMA CountAppends ==
  ASSUME TypeOK, PlaceInv, FilesHold, FilesHold',
         NEW f \in FileIds, NEW s \in Slots, NEW n \in Nat, NEW c,
         n \in Positions, files[s].file_id = f, files[s].num_chunks = n, files[s].chunks[n] = c,
         files'[s].file_id = f, files'[s].num_chunks = n + 1,
         files'[s].chunks = files[s].chunks,
         \A r \in Slots \ {s} : files'[r] = files[r]
  PROVE  /\ StoredFiles' = [StoredFiles EXCEPT ![f] = Append(@, c)]
         /\ Len(StoredFiles[f]) = n
<1>1. StoredChunks(f)' = Append(StoredChunks(f), c) /\ Len(StoredChunks(f)) = n
  <2>1. StoredChunks(f) = Counted(s) /\ StoredChunks(f)' = Counted(s)'
    BY DEF FilesHold
  <2>2. Counted(s) \in Seq([id : Int, data : Contents]) /\ Len(Counted(s)) = n
    <3>1. files[s].num_chunks >= 0
      OBVIOUS
    <3> QED
      BY <3>1, CountedSeq
  <2>3. Counted(s)' = [k \in 1 .. n + 1 |-> files[s].chunks[k - 1]]
    BY DEF Counted
  <2>4. \A k \in 1 .. n + 1 : files[s].chunks[k - 1] = IF k = n + 1 THEN c ELSE Counted(s)[k]
    <3>1. \A k \in 1 .. n + 1 : (k = n + 1 /\ k - 1 = n) \/ (k # n + 1 /\ k \in 1 .. n)
      OBVIOUS
    <3>2. \A k \in 1 .. n : Counted(s)[k] = files[s].chunks[k - 1]
      BY DEF Counted
    <3> QED
      BY <3>1, <3>2
  <2> DEFINE q == Counted(s)
             S == [id : Int, data : Contents]
  <2>5. q \in Seq(S) /\ Len(q) = n /\ c \in S
    BY <2>2 DEF TypeOK, Entry
  <2> HIDE DEF q, S
  <2>6. Append(q, c) = [k \in 1 .. n + 1 |-> IF k = n + 1 THEN c ELSE q[k]]
    BY <2>5, AppendAsFunction
  <2>7. Append(Counted(s), c) = [k \in 1 .. n + 1 |-> files[s].chunks[k - 1]]
    BY <2>4, <2>6 DEF q
  <2> QED
    BY <2>1, <2>2, <2>3, <2>7
<1>2. ASSUME NEW g \in FileIds, g # f PROVE StoredChunks(g)' = StoredChunks(g)
  <2>1. ASSUME NEW r \in Slots, files[r].file_id = g PROVE StoredChunks(g)' = StoredChunks(g)
    <3>1. files'[r] = files[r]
      BY <1>2, <2>1
    <3>2. StoredChunks(g) = Counted(r) /\ StoredChunks(g)' = Counted(r)'
      BY <2>1, <3>1 DEF FilesHold
    <3>3. Counted(r)' = Counted(r)
      BY <3>1 DEF Counted
    <3> QED
      BY <3>2, <3>3
  <2>2. CASE \A r \in Slots : files[r].file_id # g
    <3>1. \A r \in Slots : files'[r].file_id # g
      BY <1>2, <2>2
    <3> QED
      BY <2>2, <3>1 DEF FilesHold
  <2> QED
    BY <2>1, <2>2
<1> QED
  BY <1>1, <1>2 DEF StoredFiles

(* The chunk is counted: the write ends.                                   *)
LEMMA CountWrites ==
  ASSUME SingleWriter, TypeOK, PlaceInv, DataInv, ReadInv, [Next]_vars,
         NEW t \in Threads, StoreCount(t), Step(t)
  PROVE  Store!Write
<1>1. pc[t] = "grown" /\ Arriving(t) /\ req[t] \in Request
  BY DEF StoreCount, Arriving, TypeOK
<1>2. PICK f \in FileIds, s \in Slots, n \in Nat :
        /\ f = req[t].file /\ s = file_index[t] /\ n = files[file_index[t]].num_chunks
        /\ n = chunk_counter /\ n \in Positions
        /\ req[t].op = "W" /\ files[s].file_id = f
  <2>1. req[t].file \in FileIds
    BY <1>1 DEF Request
  <2>2. Positions \subseteq Nat
    BY StorageAssumption DEF Positions
  <2> QED
    BY <1>1, <2>1, <2>2, ArrivingPlace
<1>3. reg[t] = n /\ Current(t).id = req[t].chunk /\ Current(t).data = req[t].data
  BY <1>1, <1>2 DEF PlaceInv, Placed
<1>4. PICK c : c = [id |-> req[t].chunk, data |-> req[t].data]
  OBVIOUS
<1>5. files[s].chunks[n] = c
  <2>1. files[s].chunks[n] \in [id : Int, data : Contents]
    BY <1>2 DEF TypeOK, Entry
  <2>2. files[s].chunks[n].id = req[t].chunk /\ files[s].chunks[n].data = req[t].data
    BY <1>2, <1>3 DEF Current
  <2> QED
    BY <1>4, <2>1, <2>2
<1>6. /\ files'[s].file_id = f /\ files'[s].num_chunks = n + 1
      /\ files'[s].chunks = files[s].chunks
      /\ \A r \in Slots \ {s} : files'[r] = files[r]
  <2>1. files' = [files EXCEPT ![s].num_chunks = n + 1]
    BY <1>2, <1>3 DEF StoreCount
  <2> QED
    BY <1>2, <2>1, EntryUpdate
<1>7. FilesHold /\ FilesHold'
  <2>1. OneEntryPerFile /\ OneEntryPerFile'
    BY PlaceStep DEF PlaceInv, TableInv
  <2> QED
    BY <2>1, OneEntryHolds, OneEntryHoldsNext
<1>8. StoredFiles' = [StoredFiles EXCEPT ![f] = Append(@, c)] /\ Len(StoredFiles[f]) = n
  <2>1. files[s].file_id = f /\ files[s].num_chunks = n /\ n \in Positions
    BY <1>2
  <2> QED
    BY <1>5, <1>6, <1>7, <2>1, CountAppends
<1>9. ArrivingWrites = {WriteOf(t)} /\ ArrivingWrites' = {}
  <2>1. \A u \in Threads \ {t} : ~Arriving(u) /\ ~Arriving(u)'
    BY <1>1, <1>2, OneArrival, OthersStay DEF Arriving
  <2>2. pc'[t] = "idle"
    BY DEF StoreCount, Done, Goto, TypeOK
  <2>3. {u \in Threads : Arriving(u)} = {t} /\ {u \in Threads : Arriving(u)'} = {}
    BY <1>1, <2>1, <2>2 DEF Arriving
  <2>4. /\ ArrivingWrites = {WriteOf(u) : u \in {r \in Threads : Arriving(r)}}
        /\ ArrivingWrites' = {WriteOf(u)' : u \in {r \in Threads : Arriving(r)'}}
    BY DEF ArrivingWrites, WriteOf
  <2> QED
    BY <2>3, <2>4
<1>10. Store!Answer("W", f, req[t].chunk, req[t].data, n)
  <2>1. Done(t, req[t].data, n) /\ pc[t] # "idle"
    BY <1>1, <1>3 DEF StoreCount
  <2> QED
    BY <1>2, <2>1, DoneAnswers
<1>11. /\ WriteOf(t).file = f /\ WriteOf(t).id = req[t].chunk /\ WriteOf(t).data = req[t].data
       /\ [id |-> WriteOf(t).id, data |-> WriteOf(t).data] = c
  BY <1>2, <1>4 DEF WriteOf
<1> QED
  BY <1>8, <1>9, <1>10, <1>11 DEF Store!Write

(* A chunk is fetched: one that is stored, or the one that arrives.        *)
LEMMA FetchReads ==
  ASSUME SingleWriter, TypeOK, PlaceInv, FreshInv, ReadInv,
         NEW t \in Threads, FetchChunk(t), ~Fault, Step(t), StoredFiles' = StoredFiles
  PROVE  Store!ReadStored \/ Store!ReadArriving
<1> DEFINE s == file_index[t]
           f == req[t].file
           p == req[t].chunk
           d == files[s].chunks[p].data
<1>1. /\ pc[t] = "fetch" /\ p \in Positions /\ d # Wild
      /\ Done(t, Measured(d), p)
  BY DEF FetchChunk
<1>2. s \in Slots /\ files[s].file_id = f /\ req[t] \in Request
  BY <1>1 DEF TypeOK, Inside, ReadInv, ReadKnows
<1>3. f \in FileIds /\ p \in ChunkIds /\ p \in Nat
  BY <1>2, StorageAssumption DEF Request
<1>4. req[t].op = "R"
  BY <1>1, <1>2 DEF Request, PlaceInv, RoleInv, Writing, Claiming, Filling
<1>5. Store!Answer("R", f, p, Measured(d), p)
  BY <1>1, <1>4, DoneAnswers
<1>6. Measured(d) = Store!AsSent(d)
  BY DEF Measured, Store!AsSent
<1>7. ArrivingWrites' = ArrivingWrites
  BY <1>1, ArrivalsStay DEF StoreCount, AllocChunk
<1>8. StoredFiles[f] = Counted(s)
  BY <1>2, <1>3, OneEntryHolds DEF PlaceInv, TableInv, FilesHold, StoredFiles
<1>9. files[s].num_chunks \in Int
  BY <1>2 DEF TypeOK, Entry
<1> HIDE DEF s, f, p
<1>10. CASE p < files[s].num_chunks
  <2>1. p \in 0 .. files[s].num_chunks - 1 /\ files[s].num_chunks >= 0
    BY <1>3, <1>9, <1>10
  <2>2. p < Len(StoredFiles[f]) /\ StoredFiles[f][p + 1].data = d
    BY <1>2, <1>8, <1>10, <2>1, CountedSeq
  <2>3. Store!Answer("R", f, p, Store!AsSent(StoredFiles[f][p + 1].data), p)
    BY <1>5, <1>6, <2>2
  <2> QED
    BY <1>3, <1>7, <2>2, <2>3 DEF Store!ReadStored
<1>11. CASE p >= files[s].num_chunks
  <2>1. p = files[s].num_chunks /\ \E u \in Threads : Arriving(u) /\ file_index[u] = s
    BY <1>1, <1>2, <1>11 DEF FreshInv, Beyond
  <2>2. PICK u \in Threads : Arriving(u) /\ file_index[u] = s
    BY <2>1
  <2>3. /\ req[u].op = "W" /\ pc[u] # "idle"
        /\ files[s].file_id = req[u].file
        /\ chunk_counter = p
    BY <2>1, <2>2, ArrivingPlace
  <2>4. d = Current(u).data
    BY <2>2, <2>3 DEF Current
  <2>5. d \in {Blank, req[u].data}
    <3>1. CASE pc[u] \in {"label", "fill"}
      BY <2>4, <3>1 DEF FreshInv, FreshFirst
    <3>2. CASE pc[u] \in {"echo", "grow", "grown"}
      BY <2>3, <2>4, <3>2 DEF PlaceInv, Placed
    <3> QED
      BY <2>2, <3>1, <3>2 DEF Arriving
  <2> HIDE DEF d
  <2>6. WriteOf(u) \in ArrivingWrites
    BY <2>2 DEF ArrivingWrites, WriteOf
  <2>7. WriteOf(u).file = f /\ WriteOf(u).data = req[u].data
    BY <1>2, <2>3 DEF WriteOf
  <2>8. Len(StoredFiles[f]) = p
    BY <1>2, <1>3, <1>8, <2>1, CountedSeq
  <2>9. /\ Len(StoredFiles[WriteOf(u).file]) \in ChunkIds
        /\ Store!Answer("R", WriteOf(u).file, Len(StoredFiles[WriteOf(u).file]), Store!AsSent(d),
                        Len(StoredFiles[WriteOf(u).file]))
        /\ d \in {Blank, WriteOf(u).data}
    BY <1>3, <1>5, <1>6, <2>5, <2>7, <2>8
  <2> QED
    BY <1>7, <2>6, <2>9 DEF Store!ReadArriving
<1> QED
  BY <1>3, <1>9, <1>10, <1>11

LEMMA StoreStep ==
  ASSUME SingleWriter, TypeOK, PlaceInv, DataInv, ReadInv, FreshInv, [Next]_vars
  PROVE  [Store!StoreNext]_(Store!storeVars)
<1>1. CASE UNCHANGED vars
  <2>1. UNCHANGED <<StoredFiles, ArrivingWrites, log>>
    BY <1>1 DEF StoredFiles, StoredChunks, ArrivingWrites, Arriving, vars, store
  <2> QED
    BY <2>1 DEF Store!storeVars
<1>2. ASSUME NEW t \in Threads, StoreCount(t), Step(t) PROVE Store!Write
  BY <1>2, CountWrites
<1>3. ASSUME NEW t \in Threads, Receive(t) \/ Step(t), ~StoreCount(t)
      PROVE  StoredFiles' = StoredFiles
  <2>1. \A u \in Threads : ~StoreCount(u)
    <3> SUFFICES ASSUME NEW u \in Threads \ {t}, StoreCount(u) PROVE FALSE
      BY <1>3
    <3>1. pc[u] = "grown" /\ pc'[u] = "idle"
      BY DEF StoreCount, Done, Goto, TypeOK
    <3> QED
      BY <1>3, <3>1, OthersStay
  <2> QED
    BY <2>1, ChunksStay
<1>4. ASSUME NEW t \in Threads, AllocChunk(t), ~Fault, Step(t) PROVE Store!Arrive
  <2>1. ~StoreCount(t)
    BY <1>4 DEF AllocChunk, StoreCount
  <2> QED
    BY <1>3, <1>4, <2>1, AllocArrives
<1>5. ASSUME NEW t \in Threads, FetchChunk(t), ~Fault, Step(t)
      PROVE  Store!ReadStored \/ Store!ReadArriving
  <2>1. ~StoreCount(t)
    BY <1>5 DEF FetchChunk, StoreCount
  <2> QED
    BY <1>3, <1>5, <2>1, FetchReads
<1>6. ASSUME NEW t \in Threads, Receive(t) \/ Step(t),
             ~StoreCount(t), ~ (AllocChunk(t) /\ ~Fault), ~ (FetchChunk(t) /\ ~Fault)
      PROVE  UNCHANGED Store!storeVars
  <2>1. ArrivingWrites' = ArrivingWrites
    BY <1>6, ArrivalsStay
  <2>2. log' = log
    <3>1. CASE Receive(t)
      BY <3>1, ReceiveTakes
    <3>2. CASE Fault
      BY <3>2 DEF Fault
    <3>3. CASE Step(t) /\ ~Fault
      BY <1>6, <3>3 DEF Step, FindEntry, PassEntry, ClaimEntry, ClearEntry, TakeIndex, LoadIndex,
         StoreIndex, CountChunks, LabelChunk, FillChunk, EchoChunk, LoadCount
    <3> QED
      BY <1>6, <3>1, <3>2, <3>3
  <2> QED
    BY <1>3, <1>6, <2>1, <2>2 DEF Store!storeVars
<1>7. ASSUME NEW t \in Threads, Receive(t) \/ Step(t)
      PROVE  Store!StoreNext \/ UNCHANGED Store!storeVars
  <2>1. StoreCount(t) => Step(t)
    BY <1>7, ReceiveTakes DEF StoreCount
  <2>2. AllocChunk(t) \/ FetchChunk(t) => Step(t)
    BY <1>7, ReceiveTakes DEF AllocChunk, FetchChunk
  <2> QED
    BY <1>2, <1>4, <1>5, <1>6, <1>7, <2>1, <2>2 DEF Store!StoreNext
<1> QED
  BY <1>1, <1>7 DEF Next

(* While one connection writes and any number read, the node is the chunk  *)
(* store of its clients: writes append, whole, and a read is answered from *)
(* what is stored or from the one write in progress, whatever statements   *)
(* of write_chunk and read_chunk come between.                             *)
THEOREM StorageImplementsStore ==
  ASSUME SingleWriter
  PROVE  Spec => ImplementsStore
<1>1. Init => Store!StoreInit
  <2> SUFFICES ASSUME Init PROVE Store!StoreInit
    OBVIOUS
  <2>1. /\ \A t \in Threads : pc[t] = "idle"
        /\ \A s \in Slots : files[s].file_id = -1
        /\ log = << >>
    BY DEF Init, EmptyTable
  <2>2. \A f \in FileIds : StoredChunks(f) = << >>
    <3> SUFFICES ASSUME NEW f \in FileIds PROVE StoredChunks(f) = << >>
      OBVIOUS
    <3>1. f # -1
      BY StorageAssumption
    <3>2. {r \in Slots : files[r].file_id = f} = {}
      BY <2>1, <3>1
    <3> QED
      BY <3>2 DEF StoredChunks
  <2>3. ArrivingWrites = {}
    BY <2>1 DEF ArrivingWrites, Arriving
  <2> QED
    BY <2>1, <2>2, <2>3 DEF Store!StoreInit, StoredFiles
<1>2. TypeOK /\ PlaceInv /\ DataInv /\ ReadInv /\ FreshInv /\ [Next]_vars
      => [Store!StoreNext]_(Store!storeVars)
  BY StoreStep
<1> QED
  BY <1>1, <1>2, StorageTypeCorrect, PlaceInvariant, DataInvariant, ReadInvariant, FreshInvariant,
     PTL DEF Spec, ImplementsStore, Store!StoreSpec

=============================================================================
