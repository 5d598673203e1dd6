----------------------------- MODULE RdfsProofs -----------------------------
(* Theorems about Rdfs: for any number of clients, nodes, replicas, files, *)
(* calls and faults.                                                       *)
EXTENDS Rdfs, WellFoundedInduction, TLAPS

(* The part of TypeOK a step must keep for the jobs.                       *)
Linked(j) == IF j.link = "none" THEN j.next = 1
             ELSE j.at \in DOMAIN j.nodes /\ j.next \in DOMAIN j.chunks
JobsOK(jobs) == jobs \in [Clients -> Job] /\ \A c \in Clients : Linked(jobs[c])

-----------------------------------------------------------------------------
(* Operators of the model                                                  *)

LEMMA SomeOrder ==
  \E R : IsWellFoundedOn(R, Nat) /\ \A x, y \in Nat : x < y => <<x, y>> \in R
<1>1. \A x, y \in Nat : x < y => <<x, y>> \in OpToRel(<, Nat)
  BY DEF OpToRel
<1> QED
  BY <1>1, NatLessThanWellFounded

(* Some number of a set is the least.                                      *)
LEMMA LeastNumber ==
  ASSUME NEW S \in SUBSET Nat, S # {}
  PROVE  \E k \in S : \A l \in S : k <= l
<1>1. PICK R : IsWellFoundedOn(R, Nat) /\ \A x, y \in Nat : x < y => <<x, y>> \in R
  BY SomeOrder
<1>2. \E k \in S : \A y \in S : ~ (<<y, k>> \in R)
  <2>1. IsWellFoundedOn(R, Nat)
    BY <1>1
  <2>2. S \subseteq Nat
    OBVIOUS
  <2> QED
    BY <2>1, <2>2, WFMin, Zenon
<1>3. PICK k \in S : \A y \in S : ~ (<<y, k>> \in R)
  BY <1>2
<1>4. \A x, y \in Nat : x < y => <<x, y>> \in R
  BY <1>1
<1>5. ASSUME NEW l \in S PROVE k <= l
  <2>1. k \in Nat /\ l \in Nat
    OBVIOUS
  <2>2. ~ (l < k)
    BY <1>3, <1>4, <2>1, Zenon
  <2> QED
    BY <2>1, <2>2
<1> QED
  BY <1>5

LEMMA ConstantTypes ==
  /\ 0 \in FileIds /\ FileIds \subseteq Nat
  /\ Nodes \subseteq Nat
  /\ MAX_NODES_ASSIGNED \in Nat /\ MAX_NODES_ASSIGNED >= 1
  /\ MaxChunks \in Nat /\ MaxCalls \in Nat /\ MaxFaults \in Nat
BY RdfsAssumption DEF FileIds, Nodes

LEMMA IdleType == Idle \in Job /\ Linked(Idle)
BY ConstantTypes DEF Idle, Job, NodeList, Linked

LEMMA IdsType ==
  ASSUME NEW id \in Nat, NEW n \in Nat
  PROVE  /\ Ids(id, n) \in Seq(Nat) /\ Len(Ids(id, n)) = n
         /\ \A k \in 1 .. n : Ids(id, n)[k] = id + k - 1
<1>1. Ids(id, n) \in [1 .. n -> Nat]
  BY DEF Ids
<1> QED
  BY <1>1 DEF Ids

(* No node is named twice.                                                 *)
Distinct(list) == \A x, y \in DOMAIN list : list[x] = list[y] => x = y

(* The list the master makes is one of different nodes.                    *)
LEMMA FirstNodesType ==
  ASSUME NEW hosts \in SUBSET Nodes, NEW list \in FirstNodes(hosts)
  PROVE  /\ list \in NodeList /\ Len(list) = MAX_NODES_ASSIGNED
         /\ \A x, y \in DOMAIN list : list[x] = list[y] => x = y
<1>1. list \in [1 .. MAX_NODES_ASSIGNED -> hosts]
  BY DEF FirstNodes
<1>2. list \in NodeList /\ Len(list) = MAX_NODES_ASSIGNED
  <2>1. list \in [1 .. MAX_NODES_ASSIGNED -> Nodes] /\ MAX_NODES_ASSIGNED \in Nat
    BY <1>1, ConstantTypes
  <2>2. list \in Seq(Nodes)
    BY <2>1
  <2>3. Len(list) = MAX_NODES_ASSIGNED
    BY <2>1
  <2> QED
    BY <2>2, <2>3 DEF NodeList
<1>3. \A x, y \in DOMAIN list : x < y => list[x] < list[y]
  BY DEF FirstNodes
<1>4. \A x \in DOMAIN list : x \in Nat /\ list[x] \in Nat
  <2>1. ASSUME NEW x \in DOMAIN list PROVE x \in Nat /\ list[x] \in Nodes
    <3>1. MAX_NODES_ASSIGNED \in Nat /\ DOMAIN list = 1 .. MAX_NODES_ASSIGNED
      BY <1>1, ConstantTypes
    <3>2. list[x] \in hosts
      BY <1>1
    <3> QED
      BY <3>1, <3>2
  <2>2. Nodes \subseteq Nat
    BY ConstantTypes
  <2> QED
    BY <2>1, <2>2
<1>5. ASSUME NEW x \in DOMAIN list, NEW y \in DOMAIN list, list[x] = list[y] PROVE x = y
  <2>1. x < y \/ y < x \/ x = y
    BY <1>4
  <2>2. ~ (x < y)
    <3>1. x < y => list[x] < list[y]
      BY <1>3
    <3> QED
      BY <3>1, <1>4, <1>5
  <2>3. ~ (y < x)
    <3>1. y < x => list[y] < list[x]
      BY <1>3
    <3> QED
      BY <3>1, <1>4, <1>5
  <2> QED
    BY <2>1, <2>2, <2>3
<1> QED
  BY <1>2, <1>5

(* An entry of the cache, a row of the master, or no nodes.                *)
LEMMA FileNodesFrom ==
  ASSUME TypeOK, NEW c \in Clients, NEW f \in FileIds
  PROVE  \/ \E k \in DOMAIN cache[c] : cache[c][k].id = f /\ FileNodes(c, f) = cache[c][k].nodes
         \/ Known(f) /\ f + 1 \in DOMAIN rows /\ FileNodes(c, f) = rows[f + 1]
         \/ FileNodes(c, f) = << >> /\ ~Known(f) /\ Cached(c, f) = {}
<1>1. CASE Cached(c, f) # {}
  <2>1. Cached(c, f) \in SUBSET Nat
    BY DEF Cached, TypeOK
  <2>2. \E k \in Cached(c, f) : \A l \in Cached(c, f) : k <= l
    BY <1>1, <2>1, LeastNumber
  <2> DEFINE k == CHOOSE k \in Cached(c, f) : \A l \in Cached(c, f) : k <= l
  <2>3. k \in Cached(c, f)
    BY <2>2
  <2>4. FileNodes(c, f) = cache[c][k].nodes
    BY <1>1 DEF FileNodes
  <2> HIDE DEF k
  <2> QED
    BY <2>3, <2>4 DEF Cached
<1>2. CASE Cached(c, f) = {} /\ Known(f)
  <2>1. f + 1 \in DOMAIN rows
    BY <1>2, ConstantTypes DEF Known, TypeOK
  <2> QED
    BY <1>2, <2>1 DEF FileNodes
<1>3. CASE Cached(c, f) = {} /\ ~Known(f)
  BY <1>3 DEF FileNodes, Zeros
<1> QED
  BY <1>1, <1>2, <1>3

-----------------------------------------------------------------------------
(* Types                                                                   *)

LEMMA JobFields ==
  ASSUME NEW j \in Job
  PROVE  /\ j.file \in FileIds /\ j.nodes \in NodeList /\ j.chunks \in Seq(Nat)
         /\ j.at \in Nat \ {0} /\ j.base \in Nat \ {0} /\ j.next \in Nat \ {0}
         /\ j.link \in {"none", "up", "broken", "reset"}
BY DEF Job

LEMMA JobChange ==
  ASSUME NEW j \in Job, NEW at \in Nat \ {0}, NEW next \in Nat \ {0},
         NEW link \in {"none", "up", "broken", "reset"}
  PROVE  /\ [j EXCEPT !.link = link] \in Job
         /\ [j EXCEPT !.next = next] \in Job
         /\ [j EXCEPT !.next = next, !.link = link] \in Job
         /\ [j EXCEPT !.at = at, !.next = next, !.link = link] \in Job
BY DEF Job

(* What a client with a connection is about to do.                         *)
LEMMA ExchangeType ==
  ASSUME TypeOK, NEW c \in Clients, job[c].link # "none"
  PROVE  /\ job[c] \in Job /\ job[c].file \in FileIds
         /\ job[c].at \in DOMAIN job[c].nodes /\ Target(c) \in Nodes
         /\ job[c].next \in DOMAIN job[c].chunks /\ Item(c) \in Nat
         /\ Entry(c) \in Seq(Nat)
<1>1. /\ job[c] \in Job /\ job[c].at \in DOMAIN job[c].nodes
      /\ job[c].next \in DOMAIN job[c].chunks
  BY DEF TypeOK
<1>2. job[c].file \in FileIds /\ job[c].nodes \in Seq(Nodes) /\ job[c].chunks \in Seq(Nat)
  BY <1>1 DEF Job, NodeList
<1>3. Target(c) \in Nodes /\ Item(c) \in Nat
  BY <1>1, <1>2 DEF Target, Item
<1> QED
  BY <1>1, <1>2, <1>3 DEF Entry, TypeOK

LEMMA BrokenType ==
  ASSUME NEW jobs, JobsOK(jobs), NEW n
  PROVE  JobsOK(Broken(jobs, n))
<1>1. ASSUME NEW c \in Clients
      PROVE  [jobs[c] EXCEPT !.link = "broken"] \in Job /\ jobs[c] \in Job
  <2>1. jobs[c] \in Job
    BY DEF JobsOK
  <2> QED
    BY <2>1 DEF Job
<1>2. Broken(jobs, n) \in [Clients -> Job]
  BY <1>1 DEF Broken
<1>3. ASSUME NEW c \in Clients PROVE Linked(Broken(jobs, n)[c])
  BY <1>1 DEF JobsOK, Broken, Linked, Job
<1> QED
  BY <1>2, <1>3 DEF JobsOK

LEMMA NodeStopsType ==
  ASSUME TypeOK, NEW n \in Nodes, NodeStops(n)
  PROVE  /\ running' \in [Nodes -> BOOLEAN]
         /\ disk' \in [Nodes -> [FileIds -> Seq(Nat)]]
         /\ steady' \in [FileIds -> SUBSET Nodes]
<1>1. Empty \in [FileIds -> Seq(Nat)]
  BY DEF Empty
<1> QED
  BY <1>1 DEF NodeStops, TypeOK

(* A job that goes on keeps its type.                                      *)
LEMMA NextNodeType ==
  ASSUME TypeOK, NEW c \in Clients
  PROVE  NextNode(c) \in Job /\ Linked(NextNode(c))
<1>1. job[c] \in Job /\ job[c].at + 1 \in Nat \ {0}
  BY JobFields DEF TypeOK
<1>2. NextNode(c) \in Job
  <2> DEFINE at == job[c].at + 1
  <2>3. PICK one \in Nat \ {0} : one = 1
    OBVIOUS
  <2>1. NextNode(c) = [job[c] EXCEPT !.at = at, !.next = one, !.link = "none"]
    BY <2>3 DEF NextNode
  <2>2. at \in Nat \ {0} /\ job[c] \in Job
    BY <1>1
  <2> HIDE DEF at
  <2>4. [job[c] EXCEPT !.at = at, !.next = one, !.link = "none"] \in Job
    <3>1. "none" \in {"none", "up", "broken", "reset"}
      OBVIOUS
    <3> QED
      BY <3>1, <2>2, JobChange, Zenon
  <2> QED
    BY <2>1, <2>4
<1> QED
  BY <1>1, <1>2 DEF NextNode, Linked, Job

LEMMA NextChunk ==
  ASSUME TypeOK, NEW c \in Clients, job[c].link # "none",
         job[c].next < Len(job[c].chunks), NEW link \in {"up", "broken", "reset"}
  PROVE  /\ [job[c] EXCEPT !.next = @ + 1] \in Job
         /\ Linked([job[c] EXCEPT !.next = @ + 1])
         /\ [job[c] EXCEPT !.next = @ + 1, !.link = link] \in Job
         /\ Linked([job[c] EXCEPT !.next = @ + 1, !.link = link])
<1>1. job[c] \in Job /\ job[c].chunks \in Seq(Nat) /\ job[c].next + 1 \in Nat \ {0}
      /\ job[c].next \in DOMAIN job[c].chunks /\ job[c].at \in DOMAIN job[c].nodes
  BY JobFields DEF TypeOK
<1>2. job[c].next + 1 \in DOMAIN job[c].chunks
  BY <1>1
<1>3. /\ [job[c] EXCEPT !.next = @ + 1] \in Job
      /\ [job[c] EXCEPT !.next = @ + 1, !.link = link] \in Job
  BY <1>1, JobChange
<1> QED
  BY <1>1, <1>2, <1>3 DEF Linked, Job

LEMMA AfterChunkType ==
  ASSUME TypeOK, NEW c \in Clients, job[c].link # "none"
  PROVE  AfterChunk(c) \in Job /\ Linked(AfterChunk(c))
BY NextChunk, NextNodeType DEF AfterChunk

LEMMA JobUpdate ==
  ASSUME TypeOK, NEW c \in Clients, NEW j \in Job, Linked(j)
  PROVE  JobsOK([job EXCEPT ![c] = j])
BY DEF JobsOK, TypeOK, Linked

LEMMA NextQuestionType ==
  ASSUME TypeOK, NEW c \in Clients, job[c].link # "none",
         NEW link \in {"up", "broken", "reset"}
  PROVE  JobsOK(NextQuestion(c, link))
<1>1. AfterAnswer(c, link) \in Job /\ Linked(AfterAnswer(c, link))
  BY NextChunk, IdleType DEF AfterAnswer
<1> QED
  BY <1>1, JobUpdate DEF NextQuestion

LEMMA DeadType ==
  /\ [Idle EXCEPT !.op = "dead"] \in Job
  /\ Linked([Idle EXCEPT !.op = "dead"])
BY IdleType DEF Job, Linked, Idle

LEMMA WaitsType ==
  /\ [Idle EXCEPT !.op = "waiting"] \in Job
  /\ Linked([Idle EXCEPT !.op = "waiting"])
BY IdleType DEF Job, Linked, Idle

LEMMA DiesType == ASSUME TypeOK, NEW c \in Clients, Dies(c) PROVE JobsOK(job')
BY DeadType, JobUpdate DEF Dies

LEMMA ReturnsType ==
  ASSUME TypeOK, NEW c \in Clients, Returns(c)
  PROVE  JobsOK(job') /\ known' \in [FileIds -> Nat \cup {-1}]
<1>1. JobsOK(job')
  BY IdleType, JobUpdate DEF Returns
<1>2. job[c].file \in FileIds
  BY DEF TypeOK, Job
<1>3. Len(content[job[c].file]) \in Nat
  BY <1>2 DEF TypeOK
<1> QED
  BY <1>1, <1>2, <1>3 DEF Returns, TypeOK

LEMMA BeginType ==
  ASSUME TypeOK, NEW c \in Clients, NEW op \in {"read", "write"}, NEW f \in FileIds,
         NEW nodes \in NodeList, NEW chunks \in Seq(Nat), Begin(c, op, f, nodes, chunks)
  PROVE  JobsOK(job')
<1> DEFINE j == [Idle EXCEPT !.op = op, !.file = f, !.nodes = nodes,
                               !.chunks = chunks, !.base = Len(content[f]) + 1]
<1>1. Len(content[f]) + 1 \in Nat \ {0}
  BY DEF TypeOK
<1>2. j \in Job /\ Linked(j)
  BY <1>1, IdleType DEF Job, Linked, Idle
<1> QED
  BY <1>2, JobUpdate DEF Begin

LEMMA FileNodesType ==
  ASSUME TypeOK, NEW c \in Clients, NEW f \in FileIds
  PROVE  FileNodes(c, f) \in NodeList
<1>1. << >> \in NodeList
  BY DEF NodeList
<1>2. f + 1 \in DOMAIN rows => rows[f + 1] \in NodeList
  BY DEF TypeOK
<1>3. ASSUME NEW k \in DOMAIN cache[c] PROVE cache[c][k].nodes \in NodeList
  <2> DEFINE R == [id : FileIds, nodes : NodeList]
  <2>1. cache[c] \in Seq(R)
    BY DEF TypeOK
  <2>2. cache[c][k] \in R
    <3> HIDE DEF R
    <3> QED
      BY <2>1
  <2> QED
    BY <2>2
<1> QED
  BY <1>1, <1>2, <1>3, FileNodesFrom

LEMMA HandOverType ==
  ASSUME TypeOK, NEW f \in FileIds, NEW chunks \in Seq(Nat), NEW lines \in SUBSET Nat,
         HandOver(f, chunks, lines)
  PROVE  content' \in [FileIds -> Seq(Nat)] /\ blank' \in [FileIds -> SUBSET Nat]
<1>1. content' \in [FileIds -> Seq(Nat)]
  BY DEF HandOver, TypeOK
<1>2. {Len(content[f]) + k : k \in lines} \in SUBSET Nat
  <2>1. Len(content[f]) \in Nat
    BY DEF TypeOK
  <2> QED
    BY <2>1
<1>3. blank' \in [FileIds -> SUBSET Nat]
  BY <1>2 DEF HandOver, TypeOK
<1> QED
  BY <1>1, <1>3

LEMMA GotType ==
  ASSUME TypeOK, NEW c \in Clients, job[c].link # "none", NEW data \in Nat, Got(c, data)
  PROVE  reads' \subseteq [file : FileIds, chunk : Nat, data : Nat]
<1>1. [file |-> job[c].file, chunk |-> Item(c), data |-> data]
        \in [file : FileIds, chunk : Nat, data : Nat]
  BY ExchangeType
<1> QED
  BY <1>1 DEF Got, TypeOK

LEMMA NoAnswerType ==
  ASSUME TypeOK, NEW c \in Clients, job[c].link # "none", NEW jobs, JobsOK(jobs), NoAnswer(c, jobs)
  PROVE  JobsOK(job') /\ reads' \subseteq [file : FileIds, chunk : Nat, data : Nat]
<1>1. CASE job' = jobs /\ Got(c, 0)
  BY <1>1, GotType
<1>2. CASE job' = [jobs EXCEPT ![c] = [Idle EXCEPT !.op = "dead"]] /\ UNCHANGED reads
  BY <1>2, DeadType DEF JobsOK, TypeOK
<1> QED
  BY <1>1, <1>2 DEF NoAnswer

(* TypeOK but for the jobs, which JobsOK covers.                           *)
LEMMA TypeParts == TypeOK <=>
  /\ masterUp \in BOOLEAN
  /\ rows \in Seq(NodeList) /\ Len(rows) <= MaxFiles
  /\ running \in [Nodes -> BOOLEAN]
  /\ disk \in [Nodes -> [FileIds -> Seq(Nat)]]
  /\ cache \in [Clients -> Seq([id : FileIds, nodes : NodeList])]
  /\ JobsOK(job)
  /\ blank \in [FileIds -> SUBSET Nat]
  /\ content \in [FileIds -> Seq(Nat)]
  /\ gave \in [FileIds -> Seq(NodeList)]
  /\ known \in [FileIds -> Nat \cup {-1}]
  /\ steady \in [FileIds -> SUBSET Nodes]
  /\ cut \subseteq FileIds
  /\ reads \subseteq [file : FileIds, chunk : Nat, data : Nat]
  /\ calls \in 0 .. MaxCalls /\ faults \in 0 .. MaxFaults
BY DEF TypeOK, JobsOK, Linked

(* create_file with the id and the nodes the client decodes.               *)
Creates(c, f, nodes, n) ==
  /\ Calls(c, "write")
  /\ \/ /\ masterUp /\ masterUp' /\ f = Len(rows) /\ rows' = Append(rows, nodes)
        /\ Len(nodes) = MAX_NODES_ASSIGNED
     \/ ~masterUp' /\ f = 0 /\ nodes = << >> /\ rows' = rows
  /\ cache' = [cache EXCEPT ![c] = Append(@, [id |-> f, nodes |-> nodes])]
  /\ Begin(c, "write", f, nodes, Ids(0, n))
  /\ HandOver(f, Ids(0, n), {})
  /\ gave' = [gave EXCEPT ![f] = Append(@, nodes)]
  /\ steady' = [steady EXCEPT ![f] = {nodes[k] : k \in {l \in DOMAIN nodes : running[nodes[l]]}}]
  /\ UNCHANGED <<running, disk, known, cut, reads>>

LEMMA CreateParts ==
  ASSUME TypeOK, NEW c \in Clients, CreateFile(c)
  PROVE  \E f \in FileIds, nodes \in NodeList, n \in Nat : Distinct(nodes) /\ Creates(c, f, nodes, n)
<1>1. PICK hosts \in SUBSET Nodes, n \in 0 .. MaxChunks : \E answer \in Created(hosts) :
        LET f == answer.id  nodes == answer.nodes
        IN /\ f \in FileIds
           /\ masterUp' = Enough(hosts)
           /\ rows' = IF Enough(hosts) THEN Append(rows, nodes) ELSE rows
           /\ cache' = [cache EXCEPT ![c] = Append(@, answer)]
           /\ Begin(c, "write", f, nodes, Ids(0, n))
           /\ HandOver(f, Ids(0, n), {})
           /\ gave' = [gave EXCEPT ![f] = Append(@, nodes)]
           /\ steady' = [steady EXCEPT ![f] = {nodes[k] : k \in {l \in DOMAIN nodes : running[nodes[l]]}}]
  BY DEF CreateFile
<1>2. PICK answer \in Created(hosts) :
        /\ answer.id \in FileIds
        /\ masterUp' = Enough(hosts)
        /\ rows' = IF Enough(hosts) THEN Append(rows, answer.nodes) ELSE rows
        /\ cache' = [cache EXCEPT ![c] = Append(@, answer)]
        /\ Begin(c, "write", answer.id, answer.nodes, Ids(0, n))
        /\ HandOver(answer.id, Ids(0, n), {})
        /\ gave' = [gave EXCEPT ![answer.id] = Append(@, answer.nodes)]
        /\ steady' = [steady EXCEPT ![answer.id] =
             {answer.nodes[k] : k \in {l \in DOMAIN answer.nodes : running[answer.nodes[l]]}}]
  BY <1>1
<1>3. \E f \in FileIds, nodes \in NodeList :
        /\ answer = [id |-> f, nodes |-> nodes] /\ Distinct(nodes)
        /\ \/ /\ masterUp /\ masterUp' /\ f = Len(rows) /\ rows' = Append(rows, nodes)
              /\ Len(nodes) = MAX_NODES_ASSIGNED
           \/ ~masterUp' /\ f = 0 /\ nodes = << >> /\ rows' = rows
  <2>1. CASE Enough(hosts)
    <3>1. PICK list \in FirstNodes(hosts) : answer = [id |-> Len(rows), nodes |-> list]
      BY <2>1, <1>2 DEF Created
    <3>2. list \in NodeList /\ Len(list) = MAX_NODES_ASSIGNED /\ Distinct(list)
      BY FirstNodesType DEF Distinct
    <3>3. masterUp /\ masterUp' /\ rows' = Append(rows, list) /\ Len(rows) \in FileIds
      BY <2>1, <1>2, <3>1 DEF Enough
    <3> QED
      BY <3>1, <3>2, <3>3
  <2>2. CASE ~Enough(hosts)
    <3>1. answer = [id |-> 0, nodes |-> << >>]
      BY <2>2 DEF Created, Zeros
    <3>2. << >> \in NodeList /\ Distinct(<< >>)
      BY DEF NodeList, Distinct
    <3>3. ~masterUp' /\ rows' = rows
      BY <2>2, <1>2
    <3> QED
      BY <3>1, <3>2, <3>3, ConstantTypes
  <2> QED
    BY <2>1, <2>2
<1>4. PICK f \in FileIds, nodes \in NodeList :
        /\ answer = [id |-> f, nodes |-> nodes] /\ Distinct(nodes)
        /\ \/ /\ masterUp /\ masterUp' /\ f = Len(rows) /\ rows' = Append(rows, nodes)
              /\ Len(nodes) = MAX_NODES_ASSIGNED
           \/ ~masterUp' /\ f = 0 /\ nodes = << >> /\ rows' = rows
  BY <1>3
<1>5. n \in Nat /\ Calls(c, "write") /\ UNCHANGED <<running, disk, known, cut, reads>>
  BY ConstantTypes DEF CreateFile
<1>6. Creates(c, f, nodes, n)
  BY <1>2, <1>4, <1>5 DEF Creates
<1> QED
  BY <1>4, <1>5, <1>6

LEMMA CreateType == ASSUME TypeOK, NEW c \in Clients, CreateFile(c) PROVE TypeOK'
<1>1. PICK f \in FileIds, nodes \in NodeList, n \in Nat : Creates(c, f, nodes, n)
  BY CreateParts
<1> DEFINE answer == [id |-> f, nodes |-> nodes]
<1>3. answer \in [id : FileIds, nodes : NodeList]
  OBVIOUS
<1>4. UNCHANGED <<running, disk, known, cut, reads, faults>> /\ calls' \in 0 .. MaxCalls
  BY <1>1, ConstantTypes DEF Creates, Calls, TypeOK
<1>5. masterUp' \in BOOLEAN
  BY <1>1 DEF CreateFile, Enough, TypeOK
<1>6. rows' \in Seq(NodeList) /\ Len(rows') <= MaxFiles
  <2>1. CASE f = Len(rows) /\ rows' = Append(rows, nodes)
    <3>1. rows \in Seq(NodeList) /\ Len(rows) \in Nat /\ Len(rows) <= MaxFiles - 1 /\ MaxFiles \in Nat
      BY <2>1, RdfsAssumption DEF FileIds, TypeOK
    <3> QED
      BY <2>1, <3>1
  <2>2. CASE rows' = rows
    BY <2>2 DEF TypeOK
  <2> QED
    BY <1>1, <2>1, <2>2 DEF Creates
<1>7. Ids(0, n) \in Seq(Nat)
  BY IdsType
<1>8. JobsOK(job') /\ content' \in [FileIds -> Seq(Nat)] /\ blank' \in [FileIds -> SUBSET Nat]
  BY <1>1, <1>7, BeginType, HandOverType DEF Creates
<1>9. cache' \in [Clients -> Seq([id : FileIds, nodes : NodeList])]
  <2> DEFINE R == [id : FileIds, nodes : NodeList]
  <2>1. cache \in [Clients -> Seq(R)] /\ answer \in R
    BY <1>3 DEF TypeOK
  <2>2. cache' = [cache EXCEPT ![c] = Append(@, answer)]
    BY <1>1 DEF Creates
  <2> HIDE DEF R, answer
  <2>3. cache' \in [Clients -> Seq(R)]
    BY <2>1, <2>2
  <2> QED
    BY <2>3 DEF R
<1>10. gave' \in [FileIds -> Seq(NodeList)]
  BY <1>1 DEF Creates, TypeOK
<1>11. steady' \in [FileIds -> SUBSET Nodes]
  <2>1. {nodes[k] : k \in {l \in DOMAIN nodes : running[nodes[l]]}} \in SUBSET Nodes
    BY DEF NodeList
  <2> QED
    BY <1>1, <2>1 DEF Creates, TypeOK
<1> QED
  BY <1>4, <1>5, <1>6, <1>8, <1>9, <1>10, <1>11 DEF TypeOK, JobsOK, Linked

LEMMA OpenFailsType == ASSUME TypeOK, NEW c \in Clients, OpenFails(c) PROVE TypeOK'
<1>1. UNCHANGED <<servers, cache, job, blank, content, steady, cut, reads, faults>>
      /\ calls' \in 0 .. MaxCalls
  BY ConstantTypes DEF OpenFails, Calls, TypeOK
<1>2. known' \in [FileIds -> Nat \cup {-1}]
  BY DEF OpenFails, TypeOK
<1>3. gave' \in [FileIds -> Seq(NodeList)]
  <2>1. Zeros.nodes \in NodeList
    BY DEF Zeros, NodeList
  <2> QED
    BY <2>1, ConstantTypes DEF OpenFails, TypeOK
<1> QED
  BY <1>1, <1>2, <1>3 DEF TypeOK, servers

LEMMA AppendParts ==
  ASSUME TypeOK, NEW c \in Clients, AppendFile(c)
  PROVE  \E f \in FileIds, id \in Nat, n \in Nat, lines \in SUBSET Nat :
           /\ known[f] \in Nat /\ id \in {known[f], 1} /\ n >= 1
           /\ IF MatchesUnused(c, f)
              THEN Dies(c) /\ UNCHANGED <<masterUp, blank, content>>
              ELSE /\ Begin(c, "write", f, FileNodes(c, f), Ids(id, n))
                   /\ HandOver(f, Ids(id, n), lines)
                   /\ LookUp(c, f)
<1>1. PICK f \in FileIds, n \in 1 .. MaxChunks :
        \E id \in {known[f], 1}, lines \in SUBSET (EmptyLines \cap 1 .. n) :
        /\ known[f] >= 0
        /\ IF MatchesUnused(c, f)
           THEN Dies(c) /\ UNCHANGED <<masterUp, blank, content>>
           ELSE /\ Begin(c, "write", f, FileNodes(c, f), Ids(id, n))
                /\ HandOver(f, Ids(id, n), lines)
                /\ LookUp(c, f)
  BY DEF AppendFile
<1>2. n \in Nat /\ n >= 1 /\ known[f] \in Nat
  BY <1>1, ConstantTypes DEF TypeOK
<1>3. SUBSET (EmptyLines \cap 1 .. n) \subseteq SUBSET Nat
  BY <1>2
<1> QED
  BY <1>1, <1>2, <1>3

LEMMA AppendType == ASSUME TypeOK, NEW c \in Clients, AppendFile(c) PROVE TypeOK'
<1>1. PICK f \in FileIds, id \in Nat, n \in Nat, lines \in SUBSET Nat :
        IF MatchesUnused(c, f)
        THEN Dies(c) /\ UNCHANGED <<masterUp, blank, content>>
        ELSE /\ Begin(c, "write", f, FileNodes(c, f), Ids(id, n))
             /\ HandOver(f, Ids(id, n), lines)
             /\ LookUp(c, f)
  BY AppendParts
<1>2. UNCHANGED <<rows, running, disk, cache, gave, known, steady, cut, reads, faults>>
      /\ calls' \in 0 .. MaxCalls
  BY ConstantTypes DEF AppendFile, Calls, TypeOK
<1>3. Ids(id, n) \in Seq(Nat)
  BY IdsType
<1>4. /\ JobsOK(job') /\ masterUp' \in BOOLEAN
      /\ content' \in [FileIds -> Seq(Nat)] /\ blank' \in [FileIds -> SUBSET Nat]
  <2>1. CASE MatchesUnused(c, f)
    BY <1>1, <2>1, DiesType DEF TypeOK
  <2>2. CASE ~MatchesUnused(c, f)
    BY <1>1, <1>3, <2>2, FileNodesType, BeginType, HandOverType DEF LookUp, TypeOK
  <2> QED
    BY <2>1, <2>2
<1> QED
  BY <1>2, <1>4 DEF TypeOK, JobsOK, Linked

LEMMA ReadParts ==
  ASSUME TypeOK, NEW c \in Clients, ReadChunk(c)
  PROVE  \E f \in FileIds, k \in Nat, n \in Nat :
           /\ n >= 1 /\ k + n <= known[f]
           /\ IF MatchesUnused(c, f)
              THEN Dies(c) /\ UNCHANGED masterUp
              ELSE Begin(c, "read", f, FileNodes(c, f), Ids(k, n)) /\ LookUp(c, f)
<1>1. PICK f \in FileIds : \E k \in 0 .. known[f] - 1 : \E n \in 1 .. known[f] - k :
        IF MatchesUnused(c, f)
        THEN Dies(c) /\ UNCHANGED masterUp
        ELSE Begin(c, "read", f, FileNodes(c, f), Ids(k, n)) /\ LookUp(c, f)
  BY DEF ReadChunk
<1>2. PICK k \in 0 .. known[f] - 1 : \E n \in 1 .. known[f] - k :
        IF MatchesUnused(c, f)
        THEN Dies(c) /\ UNCHANGED masterUp
        ELSE Begin(c, "read", f, FileNodes(c, f), Ids(k, n)) /\ LookUp(c, f)
  BY <1>1
<1>3. PICK n \in 1 .. known[f] - k :
        IF MatchesUnused(c, f)
        THEN Dies(c) /\ UNCHANGED masterUp
        ELSE Begin(c, "read", f, FileNodes(c, f), Ids(k, n)) /\ LookUp(c, f)
  BY <1>2
<1>4. k \in Nat /\ n \in Nat /\ n >= 1 /\ k + n <= known[f]
  <2>1. known[f] \in Int
    BY DEF TypeOK
  <2> QED
    BY <2>1
<1> QED
  BY <1>3, <1>4

LEMMA ReadType == ASSUME TypeOK, NEW c \in Clients, ReadChunk(c) PROVE TypeOK'
<1>1. PICK f \in FileIds, k \in Nat, n \in Nat :
        IF MatchesUnused(c, f)
        THEN Dies(c) /\ UNCHANGED masterUp
        ELSE Begin(c, "read", f, FileNodes(c, f), Ids(k, n)) /\ LookUp(c, f)
  BY ReadParts
<1>2. UNCHANGED <<rows, running, disk, cache, history, faults>> /\ calls' \in 0 .. MaxCalls
  BY ConstantTypes DEF ReadChunk, Calls, TypeOK
<1>3. Ids(k, n) \in Seq(Nat)
  BY IdsType
<1>4. JobsOK(job') /\ masterUp' \in BOOLEAN
  <2>1. CASE MatchesUnused(c, f)
    BY <1>1, <2>1, DiesType DEF TypeOK
  <2>2. CASE ~MatchesUnused(c, f)
    BY <1>1, <1>3, <2>2, FileNodesType, BeginType DEF LookUp, TypeOK
  <2> QED
    BY <2>1, <2>2
<1> QED
  BY <1>2, <1>4 DEF TypeOK, JobsOK, Linked, history

LEMMA UnheardType == ASSUME TypeOK, NEW c \in Clients, Unheard(c) PROVE TypeOK'
<1>1. JobsOK(job')
  BY WaitsType, JobUpdate DEF Unheard
<1>2. calls' \in 0 .. MaxCalls
  BY ConstantTypes DEF Unheard, Calls, TypeOK
<1> QED
  BY <1>1, <1>2 DEF Unheard, Calls, TypeOK, JobsOK, Linked, servers, history

LEMMA StepType == ASSUME TypeOK, NEW c \in Clients, Step(c) PROVE TypeOK'
<1>0. JobsOK(job)
  BY TypeParts
<1>1. CASE Connect(c)
  <2>1. JobsOK(job')
    <3>1. CASE UsesLink(c)
      <4>1. job[c] \in Job /\ job[c].at \in DOMAIN job[c].nodes
        BY <1>1, JobFields DEF Connect, Trying, TypeOK, NodeList
      <4>2. [job[c] EXCEPT !.link = "up"] \in Job
        BY <4>1 DEF Job
      <4> QED
        <5>1. job[c].chunks \in Seq(Nat) /\ job[c].chunks # << >> /\ job[c].next = 1
          BY <1>1, <3>1, <4>1, JobFields DEF Connect, Trying, UsesLink, TypeOK
        <5>2. 1 \in DOMAIN job[c].chunks
          BY <5>1
        <5>3. Linked([job[c] EXCEPT !.link = "up"])
          BY <4>1, <5>1, <5>2 DEF Linked, Job
        <5> QED
          BY <1>1, <3>1, <4>2, <5>3, JobUpdate DEF Connect
    <3>2. CASE ~UsesLink(c)
      BY <1>1, <3>2, NextNodeType, JobUpdate DEF Connect
    <3> QED
      BY <3>1, <3>2
  <2> QED
    BY <1>1, <2>1 DEF Connect, TypeOK, JobsOK, Linked, servers, history
<1>2. CASE PassNode(c)
  <2>1. JobsOK(job')
    BY <1>2, NextNodeType, JobUpdate DEF PassNode
  <2> QED
    BY <1>2, <2>1 DEF PassNode, TypeOK, JobsOK, Linked, servers, history
<1>3. CASE EndCall(c)
  <2>1. JobsOK(job') /\ known' \in [FileIds -> Nat \cup {-1}]
    BY <1>3, ReturnsType DEF EndCall
  <2>2. cut' \subseteq FileIds
    BY <1>3, JobFields DEF EndCall, TypeOK
  <2> QED
    BY <1>3, <2>1, <2>2 DEF EndCall, TypeOK, JobsOK, Linked, servers
<1>4. CASE SendChunk(c)
  <2>0. job[c].link # "none"
    BY <1>4 DEF SendChunk
  <2>1. CASE EchoSafe(Entry(c), Item(c), IsBlank(c))
    <3>1. JobsOK(job')
      BY <1>4, <2>0, <2>1, AfterChunkType, JobUpdate DEF SendChunk
    <3>2. disk' \in [Nodes -> [FileIds -> Seq(Nat)]]
      <4>1. Number(c) \in Nat
        <5>1. job[c].next >= 1 /\ job[c].next \in Nat /\ job[c].base \in Nat
          BY <2>0, ExchangeType, JobFields
        <5> QED
          BY <5>1 DEF Number
      <4>2. write_chunk(Entry(c), Number(c)) \in Seq(Nat)
        BY <2>0, <4>1, ExchangeType DEF write_chunk
      <4>3. disk' = [disk EXCEPT ![Target(c)][job[c].file] =
                       write_chunk(Entry(c), Number(c))]
        BY <1>4, <2>1 DEF SendChunk, Entry
      <4> QED
        BY <2>0, <4>2, <4>3, ExchangeType DEF TypeOK
    <3> QED
      BY <1>4, <2>1, <3>1, <3>2 DEF SendChunk, TypeOK, JobsOK, Linked
  <2>2. CASE ~EchoSafe(Entry(c), Item(c), IsBlank(c))
    <3>1. JobsOK([job EXCEPT ![c] = AfterChunk(c)])
      BY <2>0, AfterChunkType, JobUpdate
    <3>2. JobsOK(job')
      BY <1>4, <2>2, <3>1, BrokenType DEF SendChunk
    <3>3. NodeStops(Target(c)) /\ Target(c) \in Nodes
      BY <1>4, <2>0, <2>2, ExchangeType DEF SendChunk
    <3> QED
      BY <1>4, <3>2, <3>3, NodeStopsType DEF SendChunk, TypeOK, JobsOK, Linked
  <2> QED
    BY <2>1, <2>2
<1>5. CASE SendFails(c)
  <2>0. job[c].link \in {"broken", "reset"} /\ job[c].file \in FileIds
    BY <1>5, JobFields DEF SendFails, TypeOK
  <2>1. JobsOK(job') /\ known' \in [FileIds -> Nat \cup {-1}] /\ cut' \subseteq FileIds
    <3>1. CASE /\ job' = [job EXCEPT ![c] = IF job[c].next < Len(job[c].chunks)
                                            THEN [AfterChunk(c) EXCEPT !.link = "reset"]
                                            ELSE AfterChunk(c)]
               /\ UNCHANGED <<known, cut>>
      <4>1. AfterChunk(c) \in Job /\ Linked(AfterChunk(c))
        BY <2>0, AfterChunkType
      <4>2. CASE job[c].next < Len(job[c].chunks)
        <5>1. AfterChunk(c) = [job[c] EXCEPT !.next = @ + 1]
          BY <4>2 DEF AfterChunk
        <5>2. /\ [AfterChunk(c) EXCEPT !.link = "reset"] \in Job
              /\ Linked([AfterChunk(c) EXCEPT !.link = "reset"])
          <6>1. [AfterChunk(c) EXCEPT !.link = "reset"] \in Job
            BY <4>1 DEF Job
          <6>2. AfterChunk(c).link # "none"
            BY <5>1, <2>0, <4>1 DEF TypeOK, Job
          <6> QED
            BY <4>1, <6>1, <6>2 DEF Linked, Job
        <5> QED
          BY <3>1, <4>2, <5>2, JobUpdate DEF TypeOK
      <4>3. CASE ~(job[c].next < Len(job[c].chunks))
        BY <3>1, <4>1, <4>3, JobUpdate DEF TypeOK
      <4> QED
        BY <4>2, <4>3
    <3>2. CASE Returns(c) /\ cut' = cut \cup {job[c].file}
      BY <3>2, <2>0, ReturnsType DEF TypeOK
    <3>3. CASE Dies(c) /\ cut' = cut \cup {job[c].file} /\ UNCHANGED known
      BY <3>3, <2>0, DiesType DEF TypeOK
    <3> QED
      BY <1>5, <3>1, <3>2, <3>3 DEF SendFails
  <2> QED
    BY <1>5, <2>1 DEF SendFails, TypeOK, JobsOK, Linked, servers
<1>6. CASE AskChunk(c)
  <2>0. job[c].link # "none"
    BY <1>6 DEF AskChunk
  <2>1. JobsOK(job')
    BY <1>6, <2>0, NextQuestionType DEF AskChunk
  <2>2. read_chunk(Entry(c), Item(c)) \in Nat
    <3>1. Entry(c) \in Seq(Nat) /\ Item(c) \in Nat /\ Item(c) < Len(Entry(c))
      BY <1>6, <2>0, ExchangeType DEF AskChunk
    <3> QED
      BY <3>1 DEF read_chunk
  <2>3. reads' \subseteq [file : FileIds, chunk : Nat, data : Nat]
    BY <1>6, <2>0, <2>2, GotType DEF AskChunk
  <2> QED
    BY <1>6, <2>1, <2>3 DEF AskChunk, TypeOK, JobsOK, Linked, servers
<1>7. CASE AskMissing(c)
  <2>0. job[c].link # "none"
    BY <1>7 DEF AskMissing
  <2>1. CASE NodeStops(Target(c)) /\ NoAnswer(c, Broken(NextQuestion(c, "up"), Target(c)))
    <3>1. JobsOK(Broken(NextQuestion(c, "up"), Target(c)))
      BY <2>0, NextQuestionType, BrokenType
    <3>2. JobsOK(job') /\ reads' \subseteq [file : FileIds, chunk : Nat, data : Nat]
      BY <2>0, <2>1, <3>1, NoAnswerType
    <3>3. NodeStops(Target(c)) /\ Target(c) \in Nodes
      BY <2>0, <2>1, ExchangeType
    <3> QED
      BY <1>7, <3>2, <3>3, NodeStopsType DEF AskMissing, TypeOK, JobsOK, Linked
  <2>2. CASE /\ Entry(c) = << >> /\ Got(c, 0) /\ job' = NextQuestion(c, "up")
             /\ UNCHANGED <<running, disk, steady>>
    BY <1>7, <2>0, <2>2, NextQuestionType, GotType DEF AskMissing, TypeOK, JobsOK, Linked
  <2> QED
    BY <1>7, <2>1, <2>2 DEF AskMissing
<1>8. CASE AskFails(c)
  <2>0. job[c].link # "none"
    BY <1>8 DEF AskFails
  <2>1. JobsOK(job') /\ reads' \subseteq [file : FileIds, chunk : Nat, data : Nat]
    <3>1. CASE NoAnswer(c, NextQuestion(c, "reset"))
      BY <2>0, <3>1, NextQuestionType, NoAnswerType
    <3>2. CASE job' = [job EXCEPT ![c] = Idle] /\ UNCHANGED reads
      BY <3>2, IdleType, JobUpdate DEF TypeOK
    <3>3. CASE Dies(c) /\ UNCHANGED reads
      BY <3>3, DiesType DEF TypeOK
    <3> QED
      BY <1>8, <3>1, <3>2, <3>3 DEF AskFails
  <2> QED
    BY <1>8, <2>1 DEF AskFails, TypeOK, JobsOK, Linked, servers
<1> QED
  BY <1>1, <1>2, <1>3, <1>4, <1>5, <1>6, <1>7, <1>8 DEF Step

LEMMA FaultType ==
  ASSUME TypeOK,
         (\E n \in Nodes : Crash(n) \/ Restart(n)) \/ MasterCrash \/ MasterRestart
  PROVE  TypeOK'
<1>1. ASSUME NEW n \in Nodes, Crash(n) PROVE TypeOK'
  <2>1. JobsOK(job')
    BY <1>1, BrokenType, TypeParts DEF Crash
  <2>2. faults' \in 0 .. MaxFaults
    BY <1>1, ConstantTypes DEF Crash, TypeOK
  <2> QED
    BY <1>1, <2>1, <2>2, NodeStopsType DEF Crash, TypeOK, JobsOK, Linked
<1>2. ASSUME NEW n \in Nodes, Restart(n) PROVE TypeOK'
  BY <1>2 DEF Restart, TypeOK, history
<1>3. ASSUME MasterCrash PROVE TypeOK'
  <2>1. faults' \in 0 .. MaxFaults
    BY <1>3, ConstantTypes DEF MasterCrash, TypeOK
  <2> QED
    BY <1>3, <2>1 DEF MasterCrash, TypeOK, history
<1>4. ASSUME MasterRestart PROVE TypeOK'
  <2>1. rows' \in Seq(NodeList) /\ Len(rows') <= MaxFiles
    BY <1>4, RdfsAssumption DEF MasterRestart
  <2> QED
    BY <1>4, <2>1 DEF MasterRestart, TypeOK, history
<1> QED
  BY <1>1, <1>2, <1>3, <1>4

LEMMA TypeStep == TypeOK /\ [Next]_vars => TypeOK'
<1> SUFFICES ASSUME TypeOK, [Next]_vars PROVE TypeOK'
  OBVIOUS
<1>1. CASE UNCHANGED vars
  BY <1>1 DEF vars, servers, history, TypeOK
<1>2. CASE Next
  BY <1>2, CreateType, OpenFailsType, AppendType, ReadType, UnheardType, StepType, FaultType DEF Next
<1> QED
  BY <1>1, <1>2

(* The tables of servers and clients and every job are always of their     *)
(* types: a client with a connection has a node and a chunk to exchange.   *)
THEOREM RdfsTypeCorrect == Spec => []TypeOK
<1>1. Init => TypeOK
  <2> SUFFICES ASSUME Init PROVE TypeOK
    OBVIOUS
  <2>1. Empty \in [FileIds -> Seq(Nat)] /\ [f \in FileIds |-> << >>] \in [FileIds -> Seq(NodeList)]
    BY DEF Empty
  <2>2. JobsOK(job)
    BY IdleType DEF Init, JobsOK
  <2>3. rows \in Seq(NodeList) /\ Len(rows) <= MaxFiles
    BY RdfsAssumption DEF Init
  <2>4. cache \in [Clients -> Seq([id : FileIds, nodes : NodeList])]
    BY DEF Init
  <2>5. /\ gave \in [FileIds -> Seq(NodeList)] /\ content \in [FileIds -> Seq(Nat)]
        /\ blank \in [FileIds -> SUBSET Nat]
    BY <2>1 DEF Init, Empty
  <2>6. disk \in [Nodes -> [FileIds -> Seq(Nat)]]
    BY <2>1 DEF Init
  <2>7. calls \in 0 .. MaxCalls /\ faults \in 0 .. MaxFaults
    BY ConstantTypes DEF Init
  <2> QED
    BY <2>2, <2>3, <2>4, <2>5, <2>6, <2>7 DEF Init, TypeOK, JobsOK, Linked
<1> QED
  BY <1>1, TypeStep, PTL DEF Spec

-----------------------------------------------------------------------------
(* Nodes hold chunks at their places                                       *)

OneWriter == \A c, d \in Clients : job[c].op = "write" /\ job[d].op = "write" => c = d

(* No list names a node twice, so no node is sent a chunk twice.           *)
ListsDistinct ==
  /\ \A k \in DOMAIN rows : Distinct(rows[k])
  /\ \A c \in Clients : Distinct(job[c].nodes)
  /\ \A c \in Clients : \A k \in DOMAIN cache[c] : Distinct(cache[c][k].nodes)

(* What a writer sends are the last chunks handed over for its file, and   *)
(* no replica has more than has been sent to it in this call and before.   *)
WriterPlace(j) ==
  /\ Len(content[j.file]) = j.base - 1 + Len(j.chunks)
  /\ \A k \in DOMAIN j.chunks : content[j.file][j.base - 1 + k] = j.chunks[k]
  /\ \A k \in DOMAIN j.nodes :
       k > j.at \/ (k = j.at /\ j.link = "none") => Len(disk[j.nodes[k]][j.file]) < j.base
  /\ j.link = "up" => Len(disk[j.nodes[j.at]][j.file]) < j.base + j.next - 1

(* ChunksInPlace, with a bound on how much a replica holds.                *)
Prefix(n, f) ==
  /\ Len(disk[n][f]) <= Len(content[f])
  /\ InOrder(f) => \A p \in DOMAIN disk[n][f] : disk[n][f][p] \in {p} \cup blank[f]

(* What makes ChunksInPlace inductive: the chunk a writer sends next has   *)
(* its place behind all the replica has; right behind it, or it is empty,  *)
(* or the echo kills the replica.                                          *)
PrefixInv ==
  /\ OneWriter /\ ListsDistinct
  /\ \A n \in Nodes, f \in FileIds : Prefix(n, f)
  /\ \A c \in Clients : job[c].op = "write" => WriterPlace(job[c])

(* Job k goes on with the write of job j, and nothing is stored.           *)
GoesOn(j, k) ==
  /\ j.op = "write" /\ k.file = j.file /\ k.nodes = j.nodes
  /\ k.chunks = j.chunks /\ k.base = j.base
  /\ \/ k.at = j.at /\ k.next = j.next /\ k.link = j.link
     \/ k.at = j.at /\ k.link \in {"broken", "reset"}
     \/ k.at = j.at + 1 /\ k.link = "none"
     \/ k.at = j.at /\ k.link = "up" /\ j.link = "none"

JobsGoOn(jobs) ==
  \A c \in Clients : /\ Distinct(jobs[c].nodes)
                     /\ jobs[c].op = "write" => GoesOn(job[c], jobs[c])

(* A step that hands nothing over and stores nothing.                      *)
Quiet ==
  /\ blank' = blank /\ content' = content /\ cache' = cache /\ rows' \in {rows, << >>}
  /\ \A n \in Nodes, f \in FileIds : disk'[n][f] \in {disk[n][f], << >>}
  /\ JobsGoOn(job')

LEMMA QuietPrefix ==
  ASSUME TypeOK, TypeOK', PrefixInv, Quiet
  PROVE  PrefixInv'
<1>1. OneWriter'
  BY DEF PrefixInv, OneWriter, Quiet, JobsGoOn, GoesOn
<1>2. ListsDistinct'
  BY DEF PrefixInv, ListsDistinct, Quiet, JobsGoOn
<1>3. \A n \in Nodes, f \in FileIds :
        /\ disk[n][f] \in Seq(Nat) /\ Len(disk[n][f]) \in Nat
        /\ Len(disk'[n][f]) \in Nat /\ Len(disk'[n][f]) <= Len(disk[n][f])
        /\ \A p \in DOMAIN disk'[n][f] : p \in DOMAIN disk[n][f] /\ disk'[n][f][p] = disk[n][f][p]
  BY DEF Quiet, TypeOK
<1>4. ASSUME NEW n \in Nodes, NEW f \in FileIds PROVE Prefix(n, f)'
  <2>1. Prefix(n, f) /\ content' = content /\ blank' = blank /\ Len(content[f]) \in Nat
    BY DEF PrefixInv, Quiet, TypeOK
  <2> QED
    BY <1>3, <2>1 DEF Prefix, InOrder
<1>5. ASSUME NEW c \in Clients, job'[c].op = "write" PROVE WriterPlace(job[c])' 
  <2> DEFINE j == job[c]
             k == job'[c]
  <2>1. WriterPlace(j) /\ GoesOn(j, k) /\ content' = content
    BY <1>5 DEF PrefixInv, Quiet, JobsGoOn, GoesOn
  <2>2. /\ j \in Job /\ k \in Job
        /\ k.link # "none" => k.at \in DOMAIN k.nodes
    BY DEF TypeOK
  <2>3. /\ j.file \in FileIds /\ j.nodes \in Seq(Nodes)
        /\ j.at \in Nat /\ j.base \in Nat /\ j.next \in Nat /\ j.next >= 1 /\ k.next \in Nat /\ k.next >= 1
    BY <2>2, JobFields DEF NodeList
  <2>4. \A l \in DOMAIN j.nodes : j.nodes[l] \in Nodes /\ l \in Nat
    BY <2>3
  <2> HIDE DEF j, k
  <2>5. ASSUME NEW l \in DOMAIN k.nodes, l > k.at \/ (l = k.at /\ k.link = "none")
        PROVE  Len(disk'[k.nodes[l]][k.file]) < k.base
    <3>1. l \in DOMAIN j.nodes /\ (l > j.at \/ (l = j.at /\ j.link = "none"))
      BY <2>1, <2>3, <2>4, <2>5 DEF GoesOn
    <3>2. Len(disk[j.nodes[l]][j.file]) < j.base
      BY <2>1, <3>1 DEF WriterPlace
    <3> QED
      BY <1>3, <2>1, <2>3, <2>4, <3>1, <3>2 DEF GoesOn
  <2>6. ASSUME k.link = "up"
        PROVE  Len(disk'[k.nodes[k.at]][k.file]) < k.base + k.next - 1
    <3>1. j.at \in DOMAIN j.nodes /\ k.at = j.at
      BY <2>1, <2>2, <2>6 DEF GoesOn
    <3>2. PICK n \in Nodes : n = j.nodes[j.at]
      BY <2>4, <3>1
    <3>3. PICK len \in Nat : len = Len(disk[n][j.file])
      BY <1>3, <2>3
    <3>4. len < j.base + k.next - 1
      <4>1. CASE j.link = "up" /\ k.next = j.next
        BY <2>1, <3>2, <3>3, <4>1 DEF WriterPlace
      <4>2. CASE j.link = "none"
        <5>1. len < j.base
          BY <2>1, <3>1, <3>2, <3>3, <4>2 DEF WriterPlace
        <5> QED
          BY <2>3, <5>1
      <4> QED
        BY <2>1, <2>6, <4>1, <4>2 DEF GoesOn
    <3>5. Len(disk'[n][j.file]) \in Nat /\ Len(disk'[n][j.file]) <= len
      BY <1>3, <2>3, <3>3
    <3>6. k.nodes[k.at] = n /\ k.file = j.file /\ k.base = j.base
      BY <2>1, <3>1, <3>2 DEF GoesOn
    <3> QED
      BY <2>3, <3>4, <3>5, <3>6
  <2>7. /\ Len(content'[k.file]) = k.base - 1 + Len(k.chunks)
        /\ \A l \in DOMAIN k.chunks : content'[k.file][k.base - 1 + l] = k.chunks[l]
    BY <2>1 DEF WriterPlace, GoesOn
  <2> QED
    BY <2>5, <2>6, <2>7 DEF WriterPlace, k
<1> QED
  BY <1>1, <1>2, <1>4, <1>5 DEF PrefixInv

LEMMA BrokenFields ==
  ASSUME NEW jobs, JobsOK(jobs), NEW n, NEW c \in Clients
  PROVE  LET j == jobs[c]  k == Broken(jobs, n)[c]
         IN /\ k.op = j.op /\ k.file = j.file /\ k.nodes = j.nodes
            /\ k.chunks = j.chunks /\ k.base = j.base /\ k.at = j.at /\ k.next = j.next
            /\ IF j.link = "up" /\ j.nodes[j.at] = n THEN k.link = "broken" ELSE k.link = j.link
BY DEF Broken, JobsOK, Job

LEMMA BrokenGoOn ==
  ASSUME NEW jobs, JobsOK(jobs), JobsGoOn(jobs), NEW n
  PROVE  JobsGoOn(Broken(jobs, n))
BY BrokenFields DEF JobsGoOn, GoesOn

LEMMA OneGoesOn ==
  ASSUME TypeOK, PrefixInv, NEW c \in Clients, NEW j, Distinct(j.nodes),
         j.op = "write" => GoesOn(job[c], j)
  PROVE  JobsGoOn([job EXCEPT ![c] = j])
<1>1. \A d \in Clients : Distinct(job[d].nodes)
  BY DEF PrefixInv, ListsDistinct
<1> QED
  BY <1>1 DEF JobsGoOn, GoesOn, TypeOK

LEMMA NoneGoOn == Distinct(<< >>)
BY DEF Distinct

LEMMA DiesGoOn ==
  ASSUME TypeOK, PrefixInv, NEW c \in Clients
  PROVE  /\ JobsGoOn([job EXCEPT ![c] = [Idle EXCEPT !.op = "dead"]])
         /\ JobsGoOn([job EXCEPT ![c] = Idle])
         /\ JobsGoOn(job)
<1>1. Idle.op # "write" /\ Idle.nodes = << >>
  BY DEF Idle
<1>2. [Idle EXCEPT !.op = "dead"].op = "dead" /\ [Idle EXCEPT !.op = "dead"].nodes = << >>
  BY DEF Idle
<1>3. JobsGoOn(job)
  BY DEF PrefixInv, ListsDistinct, JobsGoOn, GoesOn
<1> QED
  BY <1>1, <1>2, <1>3, NoneGoOn, OneGoesOn

LEMMA StopsQuiet ==
  ASSUME TypeOK, NEW n \in Nodes, NodeStops(n)
  PROVE  \A m \in Nodes, f \in FileIds : disk'[m][f] \in {disk[m][f], << >>}
BY DEF NodeStops, Empty, TypeOK

LEMMA NextNodeGoesOn ==
  ASSUME TypeOK, PrefixInv, NEW c \in Clients
  PROVE  JobsGoOn([job EXCEPT ![c] = NextNode(c)])
<1>1. job[c] \in Job /\ Distinct(job[c].nodes)
  BY DEF TypeOK, PrefixInv, ListsDistinct
<1>2. /\ NextNode(c).op = job[c].op /\ NextNode(c).file = job[c].file
      /\ NextNode(c).nodes = job[c].nodes /\ NextNode(c).chunks = job[c].chunks
      /\ NextNode(c).base = job[c].base /\ NextNode(c).at = job[c].at + 1
      /\ NextNode(c).link = "none"
  BY <1>1 DEF NextNode, Job
<1> QED
  BY <1>1, <1>2, OneGoesOn DEF GoesOn

(* The jobs after a reader has had an answer, or has not.                  *)
LEMMA AnswerGoesOn ==
  ASSUME TypeOK, PrefixInv, NEW c \in Clients, job[c].op = "read", NEW link
  PROVE  JobsGoOn(NextQuestion(c, link))
<1>1. job[c] \in Job /\ Distinct(job[c].nodes)
  BY DEF TypeOK, PrefixInv, ListsDistinct
<1>2. Distinct(AfterAnswer(c, link).nodes) /\ AfterAnswer(c, link).op # "write"
  BY <1>1, NoneGoOn DEF AfterAnswer, Job, Idle
<1> QED
  BY <1>2, OneGoesOn DEF NextQuestion

LEMMA NoAnswerGoesOn ==
  ASSUME TypeOK, NEW c \in Clients, NEW jobs, JobsOK(jobs), JobsGoOn(jobs), NoAnswer(c, jobs)
  PROVE  JobsGoOn(job')
<1>1. [Idle EXCEPT !.op = "dead"].op = "dead" /\ [Idle EXCEPT !.op = "dead"].nodes = << >>
  BY DEF Idle
<1> QED
  BY <1>1, NoneGoOn DEF NoAnswer, JobsGoOn, JobsOK

LEMMA ReturnsGoOn ==
  ASSUME TypeOK, PrefixInv, NEW c \in Clients, Returns(c) \/ Dies(c)
  PROVE  JobsGoOn(job')
BY DiesGoOn DEF Returns, Dies

LEMMA StepQuiet ==
  ASSUME TypeOK, PrefixInv, NEW c \in Clients, Step(c)
  PROVE  Quiet \/ (SendChunk(c) /\ EchoSafe(Entry(c), Item(c), IsBlank(c)))
<1>1. CASE Connect(c)
  <2>1. JobsGoOn([job EXCEPT ![c] = [@ EXCEPT !.link = "up"]])
    <3>1. job[c] \in Job /\ Distinct(job[c].nodes)
      BY DEF TypeOK, PrefixInv, ListsDistinct
    <3>2. [job EXCEPT ![c] = [@ EXCEPT !.link = "up"]] = [job EXCEPT ![c] = [job[c] EXCEPT !.link = "up"]]
      BY DEF TypeOK
    <3>3. job[c].op = "write" => GoesOn(job[c], [job[c] EXCEPT !.link = "up"])
      BY <1>1, <3>1 DEF GoesOn, Job, Connect, Trying
    <3>4. Distinct([job[c] EXCEPT !.link = "up"].nodes) /\ [job[c] EXCEPT !.link = "up"].op = job[c].op
      BY <3>1 DEF Job
    <3> QED
      BY <3>2, <3>3, <3>4, OneGoesOn
  <2>2. JobsGoOn(job')
    BY <1>1, <2>1, NextNodeGoesOn DEF Connect
  <2> QED
    BY <1>1, <2>2 DEF Connect, Quiet, servers, history
<1>2. CASE PassNode(c)
  BY <1>2, NextNodeGoesOn DEF PassNode, Quiet, servers, history
<1>3. CASE EndCall(c)
  BY <1>3, ReturnsGoOn DEF EndCall, Quiet, servers
<1>4. CASE SendChunk(c) /\ ~EchoSafe(Entry(c), Item(c), IsBlank(c))
  <2> DEFINE jobs == [job EXCEPT ![c] = AfterChunk(c)]
  <2>1. /\ job[c] \in Job /\ job[c].link = "up" /\ Target(c) \in Nodes
        /\ NodeStops(Target(c)) /\ job' = Broken(jobs, Target(c))
        /\ cache' = cache /\ blank' = blank /\ content' = content /\ rows' = rows
    BY <1>4, ExchangeType DEF SendChunk
  <2>2. JobsOK(jobs)
    BY <2>1, AfterChunkType, JobUpdate
  <2>3. JobsGoOn(job')
    <3>1. CASE job[c].next < Len(job[c].chunks)
      <4> DEFINE k == [job[c] EXCEPT !.next = @ + 1]
      <4>1. /\ k.op = job[c].op /\ k.file = job[c].file /\ k.nodes = job[c].nodes
            /\ k.chunks = job[c].chunks /\ k.base = job[c].base /\ k.at = job[c].at
            /\ k.link = "up"
        BY <2>1 DEF Job
      <4>2. jobs[c] = k /\ \A d \in Clients : d # c => jobs[d] = job[d]
        BY <3>1 DEF AfterChunk, TypeOK
      <4>3. job[c].nodes[job[c].at] = Target(c)
        BY DEF Target
      <4> HIDE DEF k, jobs
      <4>4. \A d \in Clients : Distinct(job[d].nodes)
        BY DEF PrefixInv, ListsDistinct
      <4>5. /\ job'[c].op = job[c].op /\ job'[c].file = job[c].file /\ job'[c].nodes = job[c].nodes
            /\ job'[c].chunks = job[c].chunks /\ job'[c].base = job[c].base /\ job'[c].at = job[c].at
            /\ job'[c].link = "broken"
        BY <2>1, <2>2, <4>1, <4>2, <4>3, BrokenFields
      <4>6. ASSUME NEW d \in Clients, d # c
            PROVE  /\ Distinct(job'[d].nodes)
                   /\ job'[d].op = "write" => GoesOn(job[d], job'[d])
        BY <2>1, <2>2, <4>2, <4>4, <4>6, BrokenFields DEF GoesOn
      <4>7. /\ Distinct(job'[c].nodes)
            /\ job'[c].op = "write" => GoesOn(job[c], job'[c])
        BY <4>4, <4>5 DEF GoesOn
      <4> QED
        BY <4>6, <4>7 DEF JobsGoOn
    <3>2. CASE ~ (job[c].next < Len(job[c].chunks))
      <4>1. JobsGoOn(jobs)
        BY <3>2, NextNodeGoesOn DEF AfterChunk
      <4> HIDE DEF jobs
      <4> QED
        BY <2>1, <2>2, <4>1, BrokenGoOn
    <3> QED
      BY <3>1, <3>2
  <2> QED
    BY <2>1, <2>3, StopsQuiet DEF Quiet
<1>5. CASE SendFails(c)
  <2>1. CASE job[c].link = "broken" /\ job' = [job EXCEPT ![c] = AfterChunk(c)]
             /\ ~ (job[c].next < Len(job[c].chunks))
    <3>1. JobsGoOn(job')
      BY <2>1, NextNodeGoesOn DEF AfterChunk
    <3> QED
      BY <1>5, <3>1 DEF SendFails, Quiet, servers
  <2>2. CASE job[c].link = "broken" /\ job[c].next < Len(job[c].chunks)
             /\ job' = [job EXCEPT ![c] = [AfterChunk(c) EXCEPT !.link = "reset"]]
    <3> DEFINE k == [AfterChunk(c) EXCEPT !.link = "reset"]
    <3>1. job[c] \in Job /\ Distinct(job[c].nodes)
      BY DEF TypeOK, PrefixInv, ListsDistinct
    <3>2. /\ k.op = job[c].op /\ k.file = job[c].file /\ k.nodes = job[c].nodes
          /\ k.chunks = job[c].chunks /\ k.base = job[c].base /\ k.at = job[c].at
          /\ k.link = "reset"
      BY <2>2, <3>1 DEF AfterChunk, Job
    <3> HIDE DEF k
    <3>3. JobsGoOn([job EXCEPT ![c] = k])
      BY <3>1, <3>2, OneGoesOn DEF GoesOn
    <3>4. job' = [job EXCEPT ![c] = k]
      BY <2>2 DEF k
    <3> QED
      BY <1>5, <3>3, <3>4 DEF SendFails, Quiet, servers
  <2>3. CASE Returns(c) \/ Dies(c)
    BY <1>5, <2>3, ReturnsGoOn DEF SendFails, Quiet, servers
  <2> QED
    BY <1>5, <2>1, <2>2, <2>3 DEF SendFails
<1>6. CASE AskChunk(c)
  BY <1>6, AnswerGoesOn DEF AskChunk, Quiet, servers
<1>7. CASE AskMissing(c)
  <2> DEFINE jobs == NextQuestion(c, "up")
  <2>1. Target(c) \in Nodes /\ JobsOK(jobs) /\ JobsGoOn(jobs)
    BY <1>7, ExchangeType, NextQuestionType, AnswerGoesOn DEF AskMissing
  <2>2. JobsOK(Broken(jobs, Target(c))) /\ JobsGoOn(Broken(jobs, Target(c)))
    BY <2>1, BrokenType, BrokenGoOn
  <2>3. CASE NodeStops(Target(c)) /\ NoAnswer(c, Broken(jobs, Target(c)))
    <3>1. JobsGoOn(job')
      BY <2>2, <2>3, NoAnswerGoesOn
    <3> QED
      BY <1>7, <2>1, <2>3, <3>1, StopsQuiet DEF AskMissing, Quiet
  <2>4. CASE job' = jobs /\ disk' = disk
    BY <1>7, <2>1, <2>4 DEF AskMissing, Quiet
  <2> QED
    BY <1>7, <2>3, <2>4 DEF AskMissing
<1>8. CASE AskFails(c)
  <2>1. JobsOK(NextQuestion(c, "reset")) /\ JobsGoOn(NextQuestion(c, "reset"))
    BY <1>8, NextQuestionType, AnswerGoesOn DEF AskFails
  <2>2. JobsGoOn(job')
    BY <1>8, <2>1, NoAnswerGoesOn, DiesGoOn DEF AskFails, Dies
  <2> QED
    BY <1>8, <2>2 DEF AskFails, Quiet, servers
<1> QED
  BY <1>1, <1>2, <1>3, <1>4, <1>5, <1>6, <1>7, <1>8 DEF Step, SendChunk

LEMMA FaultQuiet ==
  ASSUME TypeOK, PrefixInv,
         (\E n \in Nodes : Crash(n) \/ Restart(n)) \/ MasterCrash \/ MasterRestart
  PROVE  Quiet
<1>1. JobsOK(job) /\ JobsGoOn(job)
  BY TypeParts DEF PrefixInv, ListsDistinct, JobsGoOn, GoesOn
<1>2. ASSUME NEW n \in Nodes, Crash(n) PROVE Quiet
  <2>1. JobsGoOn(job')
    BY <1>1, <1>2, BrokenGoOn DEF Crash
  <2> QED
    BY <1>2, <2>1, StopsQuiet DEF Crash, Quiet
<1>3. ASSUME NEW n \in Nodes, Restart(n) PROVE Quiet
  BY <1>1, <1>3 DEF Restart, Quiet, history
<1>4. CASE MasterCrash \/ MasterRestart
  BY <1>1, <1>4 DEF MasterCrash, MasterRestart, Quiet, history
<1> QED
  BY <1>2, <1>3, <1>4

LEMMA FileNodesDistinct ==
  ASSUME TypeOK, PrefixInv, NEW c \in Clients, NEW f \in FileIds
  PROVE  Distinct(FileNodes(c, f))
BY FileNodesFrom, NoneGoOn DEF PrefixInv, ListsDistinct

LEMMA OtherCallsQuiet ==
  ASSUME TypeOK, PrefixInv, NEW c \in Clients, OpenFails(c) \/ ReadChunk(c) \/ Unheard(c)
  PROVE  Quiet
<1>1. CASE OpenFails(c)
  BY <1>1, DiesGoOn DEF OpenFails, Quiet, servers
<1>2. CASE ReadChunk(c)
  <2>1. PICK f \in FileIds : \E k \in 0 .. known[f] - 1 : \E n \in 1 .. known[f] - k :
          Dies(c) \/ Begin(c, "read", f, FileNodes(c, f), Ids(k, n))
    BY <1>2 DEF ReadChunk
  <2>2. CASE Dies(c)
    BY <1>2, <2>2, ReturnsGoOn DEF ReadChunk, Quiet, history
  <2>3. ASSUME NEW chunks, Begin(c, "read", f, FileNodes(c, f), chunks) PROVE Quiet
    <3> DEFINE j == [Idle EXCEPT !.op = "read", !.file = f, !.nodes = FileNodes(c, f),
                                   !.chunks = chunks, !.base = Len(content[f]) + 1]
    <3>1. j.op = "read" /\ j.nodes = FileNodes(c, f)
      BY DEF Idle
    <3>2. job' = [job EXCEPT ![c] = j]
      BY <2>3 DEF Begin
    <3> HIDE DEF j
    <3>3. JobsGoOn(job')
      BY <3>1, <3>2, FileNodesDistinct, OneGoesOn
    <3> QED
      BY <1>2, <3>3 DEF ReadChunk, Quiet, history
  <2> QED
    BY <2>1, <2>2, <2>3
<1>3. CASE Unheard(c)
  <2>1. [Idle EXCEPT !.op = "waiting"].op = "waiting" /\ [Idle EXCEPT !.op = "waiting"].nodes = << >>
    BY DEF Idle
  <2>2. JobsGoOn(job')
    BY <1>3, <2>1, NoneGoOn, OneGoesOn DEF Unheard
  <2> QED
    BY <1>3, <2>2 DEF Unheard, Quiet, servers, history
<1> QED
  BY <1>1, <1>2, <1>3

(* Handing chunks over at the end keeps the places of the others.          *)
LEMMA HandedOver ==
  ASSUME TypeOK, NEW f \in FileIds, NEW chunks \in Seq(Nat), NEW lines, HandOver(f, chunks, lines)
  PROVE  /\ Len(content'[f]) = Len(content[f]) + Len(chunks)
         /\ \A k \in DOMAIN chunks : content'[f][Len(content[f]) + k] = chunks[k]
         /\ \A g \in FileIds : /\ Len(content[g]) <= Len(content'[g])
                              /\ \A p \in DOMAIN content[g] : p \in DOMAIN content'[g] /\ content'[g][p] = content[g][p]
                              /\ g # f => content'[g] = content[g]
<1>1. content[f] \in Seq(Nat) /\ content'[f] = content[f] \o chunks
  BY DEF HandOver, TypeOK
<1>2. /\ Len(content'[f]) = Len(content[f]) + Len(chunks)
      /\ \A k \in DOMAIN chunks : content'[f][Len(content[f]) + k] = chunks[k]
      /\ Len(content[f]) <= Len(content'[f])
      /\ \A p \in DOMAIN content[f] : p \in DOMAIN content'[f] /\ content'[f][p] = content[f][p]
  BY <1>1
<1>3. \A g \in FileIds : g # f => content'[g] = content[g] /\ Len(content[g]) \in Nat
  BY DEF HandOver, TypeOK
<1> QED
  BY <1>2, <1>3

(* No file loses or changes a chunk when another is handed over.           *)
LEMMA HandedOverKeeps ==
  ASSUME TypeOK, NEW f \in FileIds, NEW chunks \in Seq(Nat), NEW lines \in SUBSET Nat,
         HandOver(f, chunks, lines), NEW g \in FileIds
  PROVE  /\ Len(content[g]) <= Len(content'[g]) /\ blank[g] \subseteq blank'[g]
         /\ \A p \in DOMAIN content[g] : p \in DOMAIN content'[g] /\ content'[g][p] = content[g][p]
<1>1. content[f] \in Seq(Nat) /\ content'[f] = content[f] \o chunks /\ content[g] \in Seq(Nat)
  BY DEF HandOver, TypeOK
<1>4. blank[g] \subseteq blank'[g]
  BY DEF HandOver, TypeOK
<1>2. CASE g = f
  <2>1. /\ Len(content[f]) <= Len(content[f] \o chunks)
        /\ \A p \in DOMAIN content[f] :
             p \in DOMAIN (content[f] \o chunks) /\ (content[f] \o chunks)[p] = content[f][p]
    BY <1>1
  <2> QED
    BY <1>1, <1>2, <1>4, <2>1
<1>3. CASE g # f
  <2>1. content'[g] = content[g]
    BY <1>3 DEF HandOver, TypeOK
  <2> QED
    BY <1>1, <1>4, <2>1
<1> QED
  BY <1>2, <1>3

LEMMA WriteBegins ==
  ASSUME TypeOK, PrefixInv, NEW c \in Clients, NEW f \in FileIds,
         NEW nodes \in NodeList, Distinct(nodes), NEW chunks \in Seq(Nat),
         NEW lines \in SUBSET Nat, HandOver(f, chunks, lines),
         Calls(c, "write"), Begin(c, "write", f, nodes, chunks),
         disk' = disk,
         \A k \in DOMAIN rows' : Distinct(rows'[k]),
         \A d \in Clients : \A k \in DOMAIN cache'[d] : Distinct(cache'[d][k].nodes)
  PROVE  PrefixInv'
<1> DEFINE j == [Idle EXCEPT !.op = "write", !.file = f, !.nodes = nodes,
                               !.chunks = chunks, !.base = Len(content[f]) + 1]
<1>1. /\ j.op = "write" /\ j.file = f /\ j.nodes = nodes /\ j.chunks = chunks
      /\ j.base = Len(content[f]) + 1 /\ j.link = "none" /\ j.at = 1 /\ j.next = 1
  BY DEF Idle
<1>2. job' = [job EXCEPT ![c] = j]
  BY DEF Begin
<1> HIDE DEF j
<1>3. job'[c] = j /\ \A d \in Clients : d # c => job'[d] = job[d] /\ job'[d].op # "write"
  BY <1>2 DEF Calls, TypeOK
<1>4. OneWriter' /\ ListsDistinct'
  BY <1>1, <1>3 DEF PrefixInv, OneWriter, ListsDistinct
<1>5. ASSUME NEW n \in Nodes, NEW g \in FileIds PROVE Prefix(n, g)' /\ Len(disk'[n][g]) \in Nat /\ Len(disk'[n][g]) <= Len(content[g])
  <2>1. Prefix(n, g) /\ Len(disk[n][g]) \in Nat /\ Len(content[g]) \in Nat /\ Len(content'[g]) \in Nat
    <3>1. content' \in [FileIds -> Seq(Nat)]
      BY HandOverType DEF TypeOK
    <3>2. Prefix(n, g)
      BY DEF PrefixInv
    <3>3. disk[n][g] \in Seq(Nat) /\ content[g] \in Seq(Nat) /\ content'[g] \in Seq(Nat)
      BY <3>1 DEF TypeOK
    <3> QED
      BY <3>2, <3>3
  <2>2. InOrder(g)' => InOrder(g)
    <3>1. \A p \in DOMAIN content[g] : p \in DOMAIN content'[g] /\ content'[g][p] = content[g][p]
      BY HandedOverKeeps
    <3> QED
      BY <3>1 DEF InOrder
  <2>3. Len(content[g]) <= Len(content'[g]) /\ blank[g] \subseteq blank'[g]
    BY HandedOverKeeps
  <2> QED
    BY <2>1, <2>2, <2>3 DEF Prefix
<1>6. WriterPlace(job[c])'
  <2>1. \A k \in DOMAIN nodes : nodes[k] \in Nodes
    BY DEF NodeList
  <2>2. Len(content[f]) \in Nat
    BY DEF TypeOK
  <2>3. Len(content'[f]) = j.base - 1 + Len(chunks)
    BY <1>1, <2>2, HandedOver
  <2>4. \A k \in DOMAIN chunks : content'[f][j.base - 1 + k] = chunks[k]
    <3>1. j.base - 1 = Len(content[f])
      BY <1>1, <2>2
    <3> QED
      BY <3>1, HandedOver
  <2>5. \A k \in DOMAIN nodes : Len(disk'[nodes[k]][f]) < j.base
    BY <1>1, <1>5, <2>1, <2>2
  <2> QED
    BY <1>1, <1>3, <2>3, <2>4, <2>5 DEF WriterPlace
<1> QED
  BY <1>3, <1>4, <1>5, <1>6 DEF PrefixInv

LEMMA CreatePrefix ==
  ASSUME TypeOK, PrefixInv, NEW c \in Clients, CreateFile(c)
  PROVE  PrefixInv'
<1>1. PICK f \in FileIds, nodes \in NodeList, n \in Nat : Distinct(nodes) /\ Creates(c, f, nodes, n)
  BY CreateParts
<1>2. Ids(0, n) \in Seq(Nat)
  BY IdsType
<1>3. \A k \in DOMAIN rows' : Distinct(rows'[k])
  <2>1. \A k \in DOMAIN rows : Distinct(rows[k])
    BY DEF PrefixInv, ListsDistinct
  <2>2. rows \in Seq(NodeList)
    BY DEF TypeOK
  <2>3. CASE rows' = Append(rows, nodes)
    BY <1>1, <2>1, <2>2, <2>3
  <2> QED
    BY <1>1, <2>1, <2>3 DEF Creates
<1>4. ASSUME NEW d \in Clients, NEW k \in DOMAIN cache'[d] PROVE Distinct(cache'[d][k].nodes)
  <2> DEFINE R == [id : FileIds, nodes : NodeList]
             new == [id |-> f, nodes |-> nodes]
  <2>1. \A l \in DOMAIN cache[d] : Distinct(cache[d][l].nodes)
    BY DEF PrefixInv, ListsDistinct
  <2>2. cache[d] \in Seq(R) /\ new \in R /\ new.nodes = nodes
    BY DEF TypeOK
  <2>3. cache'[d] = IF d = c THEN Append(cache[d], new) ELSE cache[d]
    BY <1>1 DEF Creates, TypeOK
  <2> HIDE DEF R, new
  <2> QED
    BY <1>1, <1>4, <2>1, <2>2, <2>3
<1> QED
  BY <1>1, <1>2, <1>3, <1>4, WriteBegins DEF Creates

LEMMA AppendPrefix ==
  ASSUME TypeOK, TypeOK', PrefixInv, NEW c \in Clients, AppendFile(c)
  PROVE  PrefixInv'
<1>1. PICK f \in FileIds, id \in Nat, n \in Nat, lines \in SUBSET Nat :
        IF MatchesUnused(c, f)
        THEN Dies(c) /\ UNCHANGED <<masterUp, blank, content>>
        ELSE /\ Begin(c, "write", f, FileNodes(c, f), Ids(id, n))
             /\ HandOver(f, Ids(id, n), lines)
             /\ LookUp(c, f)
  BY AppendParts
<1>2. CASE Dies(c) /\ content' = content /\ blank' = blank
  <2>1. Quiet
    BY <1>2, ReturnsGoOn DEF AppendFile, Quiet
  <2> QED
    BY <2>1, QuietPrefix
<1>3. CASE Begin(c, "write", f, FileNodes(c, f), Ids(id, n)) /\ HandOver(f, Ids(id, n), lines)
  <2>1. Ids(id, n) \in Seq(Nat) /\ FileNodes(c, f) \in NodeList /\ Distinct(FileNodes(c, f))
    BY IdsType, FileNodesType, FileNodesDistinct
  <2>2. /\ Calls(c, "write") /\ disk' = disk
        /\ \A k \in DOMAIN rows' : Distinct(rows'[k])
        /\ \A d \in Clients : \A k \in DOMAIN cache'[d] : Distinct(cache'[d][k].nodes)
    BY DEF AppendFile, PrefixInv, ListsDistinct
  <2> QED
    BY <1>3, <2>1, <2>2, WriteBegins
<1> QED
  BY <1>1, <1>2, <1>3

LEMMA AfterChunkFields ==
  ASSUME TypeOK, NEW c \in Clients
  PROVE  LET j == job[c]  k == AfterChunk(c)
         IN /\ k.op = j.op /\ k.file = j.file /\ k.nodes = j.nodes
            /\ k.chunks = j.chunks /\ k.base = j.base
            /\ IF j.next < Len(j.chunks)
               THEN k.at = j.at /\ k.next = j.next + 1 /\ k.link = j.link
               ELSE k.at = j.at + 1 /\ k.next = 1 /\ k.link = "none"
<1>1. job[c] \in Job
  BY DEF TypeOK
<1> QED
  BY <1>1 DEF AfterChunk, NextNode, Job

(* A chunk is stored: the replica's entry is longer by one.                *)
LEMMA StoreEffect ==
  ASSUME TypeOK, NEW c \in Clients, SendChunk(c), EchoSafe(Entry(c), Item(c), IsBlank(c))
  PROVE  LET j == job[c]  n == Target(c)
         IN /\ disk'[n][j.file] = Append(disk[n][j.file], Number(c))
            /\ \A m \in Nodes, f \in FileIds : m # n \/ f # j.file => disk'[m][f] = disk[m][f]
            /\ job'[c] = AfterChunk(c) /\ \A d \in Clients : d # c => job'[d] = job[d]
<1>1. Target(c) \in Nodes /\ job[c].file \in FileIds
  BY ExchangeType DEF SendChunk
<1>2. disk' = [disk EXCEPT ![Target(c)][job[c].file] = Append(@, Number(c))]
  BY DEF SendChunk, write_chunk
<1> QED
  BY <1>1, <1>2 DEF SendChunk, TypeOK

(* The place of the next chunk of a call.                                  *)
LEMMA PlaceOfNext ==
  ASSUME NEW base \in Nat \ {0}, NEW next \in Nat \ {0}, NEW n \in Nat, next <= n
  PROVE  /\ base + next - 1 \in Nat
         /\ base + next - 1 = base - 1 + next
         /\ base + next - 1 <= base - 1 + n
OBVIOUS

LEMMA StorePrefix ==
  ASSUME TypeOK, PrefixInv, NEW c \in Clients, SendChunk(c), EchoSafe(Entry(c), Item(c), IsBlank(c))
  PROVE  PrefixInv'
<1> DEFINE j == job[c]
           k == AfterChunk(c)
           f == job[c].file
           t == Target(c)
           old == disk[t][f]
           chunk == Number(c)
<1>1. /\ j.op = "write" /\ j.link = "up" /\ WriterPlace(j)
      /\ UNCHANGED <<blank, content, rows, cache>>
  BY DEF SendChunk, PrefixInv
<1>2. /\ j \in Job /\ f \in FileIds /\ t \in Nodes /\ j.at \in DOMAIN j.nodes
      /\ j.next \in DOMAIN j.chunks /\ Item(c) \in Nat /\ old \in Seq(Nat)
  BY <1>1, ExchangeType DEF Entry
<1>3. /\ j.nodes \in Seq(Nodes) /\ j.chunks \in Seq(Nat)
      /\ j.at \in Nat \ {0} /\ j.base \in Nat \ {0} /\ j.next \in Nat \ {0}
  BY <1>2, JobFields DEF NodeList
<1>4. /\ disk'[t][f] = Append(old, chunk)
      /\ \A m \in Nodes, g \in FileIds : m # t \/ g # f => disk'[m][g] = disk[m][g]
      /\ job'[c] = k /\ \A d \in Clients : d # c => job'[d] = job[d]
  BY StoreEffect
<1>5. /\ k.op = j.op /\ k.file = j.file /\ k.nodes = j.nodes
      /\ k.chunks = j.chunks /\ k.base = j.base
      /\ IF j.next < Len(j.chunks)
         THEN k.at = j.at /\ k.next = j.next + 1 /\ k.link = j.link
         ELSE k.at = j.at + 1 /\ k.next = 1 /\ k.link = "none"
  BY AfterChunkFields
<1>6. /\ Len(old) \in Nat /\ Len(old) < chunk /\ chunk \in Nat
      /\ Len(content[f]) = j.base - 1 + Len(j.chunks) /\ chunk <= Len(content[f])
      /\ content[f] \in Seq(Nat) /\ content[f][chunk] = Item(c)
      /\ chunk \in blank[f] \/ Item(c) <= Len(old)
  <2>0. /\ chunk \in Nat /\ chunk = j.base - 1 + j.next
        /\ chunk <= j.base - 1 + Len(j.chunks)
    <3>1. j.next <= Len(j.chunks) /\ Len(j.chunks) \in Nat
      BY <1>2, <1>3
    <3> QED
      BY <1>3, <3>1, PlaceOfNext DEF Number
  <2>1. Len(old) \in Nat /\ chunk \in Nat /\ content[f] \in Seq(Nat)
    <3>1. content[f] \in Seq(Nat)
      BY <1>2 DEF TypeOK
    <3> QED
      BY <1>2, <2>0, <3>1
  <2>2. Len(old) < chunk /\ Len(content[f]) = j.base - 1 + Len(j.chunks)
    BY <1>1 DEF WriterPlace, Target, Number
  <2>3. content[f][j.base - 1 + j.next] = Item(c)
    BY <1>1, <1>2 DEF WriterPlace, Item
  <2>4. chunk = j.base - 1 + j.next /\ chunk <= Len(content[f])
    BY <2>0, <2>2
  <2>5. chunk \in blank[f] \/ Item(c) <= Len(old)
    BY DEF EchoSafe, Entry, IsBlank
  <2> QED
    BY <2>1, <2>2, <2>3, <2>4, <2>5
<1> HIDE DEF j, k, f, t, old, chunk
<1>7. OneWriter' /\ ListsDistinct'
  <2>1. ListsDistinct /\ OneWriter
    BY DEF PrefixInv
  <2>2. \A d \in Clients : job'[d].nodes = job[d].nodes /\ job'[d].op = job[d].op
    BY <1>4, <1>5 DEF j
  <2> QED
    BY <1>1, <2>1, <2>2 DEF OneWriter, ListsDistinct
<1>8. ASSUME NEW n \in Nodes, NEW g \in FileIds PROVE Prefix(n, g)'
  <2>1. Prefix(n, g)
    BY DEF PrefixInv
  <2>2. CASE n # t \/ g # f
    BY <1>1, <1>4, <2>1, <2>2 DEF Prefix, InOrder
  <2>3. CASE n = t /\ g = f
    <3>1. Len(disk'[n][g]) <= Len(content'[g])
      BY <1>1, <1>2, <1>4, <1>6, <2>3
    <3>2. ASSUME InOrder(f), NEW p \in DOMAIN Append(old, chunk)
          PROVE  Append(old, chunk)[p] \in {p} \cup blank[f]
      <4>1. CASE p \in DOMAIN old
        <5>1. old[p] \in {p} \cup blank[f]
          BY <2>1, <2>3, <3>2, <4>1 DEF Prefix, old
        <5> QED
          BY <1>2, <1>6, <4>1, <5>1
      <4>3. CASE p = Len(old) + 1 /\ chunk \in blank[f]
        BY <1>2, <1>6, <4>3
      <4>2. CASE p = Len(old) + 1 /\ Item(c) <= Len(old)
        <5>1. chunk \in DOMAIN content[f]
          BY <1>6, <1>3
        <5>2. Item(c) = chunk - 1
          BY <1>6, <3>2, <5>1 DEF InOrder
        <5>3. chunk = Len(old) + 1
          BY <1>2, <1>6, <4>2, <5>2
        <5> QED
          BY <1>2, <1>6, <4>2, <5>3
      <4> QED
        BY <1>2, <1>6, <3>2, <4>1, <4>2, <4>3
    <3> QED
      BY <1>1, <1>4, <2>3, <3>1, <3>2 DEF Prefix, InOrder
  <2> QED
    BY <2>2, <2>3
<1>9. ASSUME NEW d \in Clients, job'[d].op = "write" PROVE WriterPlace(job[d])'
  <2>1. d = c /\ job'[d] = k
    BY <1>1, <1>4, <1>9 DEF PrefixInv, OneWriter, j
  <2>2. j.file = f /\ j.nodes[j.at] = t /\ disk[t][f] = old
    BY DEF j, f, t, old, Target
  <2>3. /\ Len(content'[k.file]) = k.base - 1 + Len(k.chunks)
        /\ \A l \in DOMAIN k.chunks : content'[k.file][k.base - 1 + l] = k.chunks[l]
    BY <1>1, <1>5 DEF WriterPlace
  <2>4. ASSUME NEW l \in DOMAIN k.nodes, l > k.at \/ (l = k.at /\ k.link = "none")
        PROVE  Len(disk'[k.nodes[l]][k.file]) < k.base
    <3>1. l \in DOMAIN j.nodes /\ l \in Nat /\ l > j.at /\ j.nodes[l] \in Nodes
      BY <1>1, <1>3, <1>5, <2>4
    <3>2. j.nodes[l] # t
      <4>1. Distinct(j.nodes)
        BY DEF PrefixInv, ListsDistinct, j
      <4>2. l # j.at
        BY <1>3, <3>1
      <4> QED
        BY <1>2, <2>2, <3>1, <4>1, <4>2 DEF Distinct
    <3>3. Len(disk[j.nodes[l]][f]) < j.base
      BY <1>1, <2>2, <3>1 DEF WriterPlace
    <3> QED
      BY <1>2, <1>4, <1>5, <2>2, <3>1, <3>2, <3>3
  <2>5. ASSUME k.link = "up"
        PROVE  Len(disk'[k.nodes[k.at]][k.file]) < k.base + k.next - 1
    <3>1. k.at = j.at /\ k.next = j.next + 1
      BY <1>5, <2>5
    <3>2. Len(disk'[t][f]) = Len(old) + 1
      BY <1>2, <1>4, <1>6
    <3>3. k.base + k.next - 1 = chunk + 1
      BY <1>3, <1>5, <3>1 DEF chunk, j, Number
    <3> QED
      BY <1>5, <1>6, <2>2, <3>1, <3>2, <3>3
  <2> QED
    BY <2>1, <2>3, <2>4, <2>5 DEF WriterPlace
<1> QED
  BY <1>7, <1>8, <1>9 DEF PrefixInv

LEMMA PrefixStep == TypeOK /\ TypeOK' /\ PrefixInv /\ [Next]_vars => PrefixInv'
<1> SUFFICES ASSUME TypeOK, TypeOK', PrefixInv, [Next]_vars PROVE PrefixInv'
  OBVIOUS
<1>1. CASE UNCHANGED vars
  <2>1. Quiet
    BY <1>1, DiesGoOn DEF PrefixInv, ListsDistinct, JobsGoOn, GoesOn, vars, servers, history, Quiet
  <2> QED
    BY <2>1, QuietPrefix
<1>2. ASSUME NEW c \in Clients, CreateFile(c) PROVE PrefixInv'
  BY <1>2, CreatePrefix
<1>3. ASSUME NEW c \in Clients, AppendFile(c) PROVE PrefixInv'
  BY <1>3, AppendPrefix
<1>4. ASSUME NEW c \in Clients, OpenFails(c) \/ ReadChunk(c) \/ Unheard(c) PROVE PrefixInv'
  BY <1>4, OtherCallsQuiet, QuietPrefix
<1>5. ASSUME NEW c \in Clients, Step(c) PROVE PrefixInv'
  BY <1>5, StepQuiet, QuietPrefix, StorePrefix
<1>6. CASE (\E n \in Nodes : Crash(n) \/ Restart(n)) \/ MasterCrash \/ MasterRestart
  BY <1>6, FaultQuiet, QuietPrefix
<1> QED
  BY <1>1, <1>2, <1>3, <1>4, <1>5, <1>6 DEF Next

LEMMA PrefixInit == Init => PrefixInv
<1> SUFFICES ASSUME Init PROVE PrefixInv
  OBVIOUS
<1>1. Idle.op = "idle" /\ Idle.nodes = << >>
  BY DEF Idle
<1>2. \A c \in Clients : job[c] = Idle /\ cache[c] = << >>
  BY DEF Init
<1>3. \A n \in Nodes, f \in FileIds : disk[n][f] = << >> /\ content[f] = << >>
  BY DEF Init, Empty
<1>4. OneWriter /\ ListsDistinct
  BY <1>1, <1>2, NoneGoOn DEF Init, OneWriter, ListsDistinct
<1>5. \A n \in Nodes, f \in FileIds : Prefix(n, f)
  BY <1>3 DEF Prefix
<1> QED
  BY <1>1, <1>2, <1>4, <1>5 DEF PrefixInv

LEMMA PrefixAlways == Spec => []PrefixInv
<1>1. TypeOK /\ TypeOK' /\ PrefixInv /\ [Next]_vars => PrefixInv'
  BY PrefixStep
<1> QED
  BY <1>1, PrefixInit, RdfsTypeCorrect, PTL DEF Spec

(* Whatever crashes and restarts, a node's table holds every chunk with a  *)
(* byte in it at its place in the file: those of a writer that missed some *)
(* end in the debug output of write_chunk, which kills the node.           *)
THEOREM RdfsChunksInPlace == Spec => []ChunksInPlace
<1>1. PrefixInv => ChunksInPlace
  BY DEF PrefixInv, Prefix, ChunksInPlace
<1> QED
  BY <1>1, PrefixAlways, PTL

(* What was handed over keeps its place.                                   *)
LEMMA ContentGrows ==
  ASSUME TypeOK, [Next]_vars, NEW f \in FileIds
  PROVE  /\ \A p \in DOMAIN content[f] : p \in DOMAIN content'[f] /\ content'[f][p] = content[f][p]
         /\ blank[f] \subseteq blank'[f]
<1> DEFINE Grows == /\ \A p \in DOMAIN content[f] :
                         p \in DOMAIN content'[f] /\ content'[f][p] = content[f][p]
                    /\ blank[f] \subseteq blank'[f]
<1>1. CASE content' = content /\ blank' = blank
  BY <1>1
<1>2. ASSUME NEW c \in Clients, CreateFile(c) PROVE Grows
  <2>1. PICK g \in FileIds, nodes \in NodeList, n \in Nat : Creates(c, g, nodes, n)
    BY <1>2, CreateParts
  <2>2. HandOver(g, Ids(0, n), {}) /\ Ids(0, n) \in Seq(Nat)
    BY <2>1, IdsType DEF Creates
  <2> QED
    BY <2>2, HandedOverKeeps
<1>3. ASSUME NEW c \in Clients, AppendFile(c) PROVE Grows
  <2>1. PICK g \in FileIds, id \in Nat, n \in Nat, lines \in SUBSET Nat :
          (content' = content /\ blank' = blank) \/ HandOver(g, Ids(id, n), lines)
    BY <1>3, AppendParts
  <2>2. Ids(id, n) \in Seq(Nat)
    BY IdsType
  <2>3. CASE HandOver(g, Ids(id, n), lines)
    BY <2>2, <2>3, HandedOverKeeps
  <2> QED
    BY <2>1, <2>3, <1>1
<1>4. CASE UNCHANGED vars
  BY <1>4, <1>1 DEF vars, history
<1>5. ASSUME NEW c \in Clients, OpenFails(c) \/ ReadChunk(c) \/ Unheard(c) \/ Step(c)
      PROVE  content' = content /\ blank' = blank
  BY <1>5 DEF OpenFails, ReadChunk, Unheard, Step, Connect, PassNode, EndCall, SendChunk, SendFails,
              AskChunk, AskMissing, AskFails, history
<1>6. ASSUME (\E n \in Nodes : Crash(n) \/ Restart(n)) \/ MasterCrash \/ MasterRestart
      PROVE  content' = content /\ blank' = blank
  BY <1>6 DEF Crash, Restart, MasterCrash, MasterRestart, history
<1> QED
  BY <1>1, <1>2, <1>3, <1>4, <1>5, <1>6 DEF Next

(* A chunk is read by an answer of a node's table, or is no chunk at all.  *)
LEMMA ReadsGrow ==
  ASSUME [Next]_vars
  PROVE  reads' = reads \/ \E c \in Clients : job[c].link # "none" /\
           (Got(c, 0) \/ (Item(c) < Len(Entry(c)) /\ Got(c, read_chunk(Entry(c), Item(c)))))
<1>1. ASSUME NEW c \in Clients, AskChunk(c) \/ AskMissing(c) \/ AskFails(c)
      PROVE  reads' = reads \/ (job[c].link # "none" /\
               (Got(c, 0) \/ (Item(c) < Len(Entry(c)) /\ Got(c, read_chunk(Entry(c), Item(c))))))
  BY <1>1 DEF AskChunk, AskMissing, AskFails, NoAnswer
<1>2. ASSUME NEW c \in Clients,
             \/ CreateFile(c) \/ OpenFails(c) \/ AppendFile(c) \/ ReadChunk(c) \/ Unheard(c)
             \/ Connect(c) \/ PassNode(c) \/ EndCall(c) \/ SendChunk(c) \/ SendFails(c)
      PROVE  reads' = reads
  BY <1>2 DEF CreateFile, OpenFails, AppendFile, ReadChunk, Unheard, Connect, PassNode, EndCall,
              SendChunk, SendFails, history
<1>3. ASSUME (\E n \in Nodes : Crash(n) \/ Restart(n)) \/ MasterCrash \/ MasterRestart
      PROVE  reads' = reads
  BY <1>3 DEF Crash, Restart, MasterCrash, MasterRestart, history
<1>4. CASE UNCHANGED vars
  BY <1>4 DEF vars, history
<1> QED
  BY <1>1, <1>2, <1>3, <1>4 DEF Next, Step

LEMMA ReadsStep == TypeOK /\ PrefixInv /\ ReadsAreRight /\ [Next]_vars => ReadsAreRight'
<1> SUFFICES ASSUME TypeOK, PrefixInv, ReadsAreRight, [Next]_vars,
                    NEW r \in reads', InOrder(r.file)'
             PROVE  r.data \in {0, r.chunk + 1} \cup blank'[r.file]
  BY DEF ReadsAreRight
<1>1. ASSUME NEW f \in FileIds, InOrder(f)' PROVE InOrder(f) /\ blank[f] \subseteq blank'[f]
  BY <1>1, ContentGrows DEF InOrder
<1>2. CASE r \in reads
  <2>1. r.file \in FileIds
    BY <1>2 DEF TypeOK
  <2> QED
    BY <1>1, <1>2, <2>1 DEF ReadsAreRight
<1>3. ASSUME NEW c \in Clients, job[c].link # "none", r \notin reads,
             \/ Got(c, 0)
             \/ Item(c) < Len(Entry(c)) /\ Got(c, read_chunk(Entry(c), Item(c)))
      PROVE  r.data \in {0, r.chunk + 1} \cup blank'[r.file]
  <2>1. /\ job[c].file \in FileIds /\ Target(c) \in Nodes /\ Item(c) \in Nat
        /\ Entry(c) \in Seq(Nat)
    BY <1>3, ExchangeType
  <2>2. CASE Got(c, 0)
    BY <1>3, <2>2 DEF Got
  <2>3. CASE Item(c) < Len(Entry(c)) /\ Got(c, read_chunk(Entry(c), Item(c)))
    <3>1. r.file = job[c].file /\ r.chunk = Item(c) /\ r.data = Entry(c)[Item(c) + 1]
      BY <1>3, <2>3 DEF Got, read_chunk
    <3>2. /\ InOrder(job[c].file) /\ Prefix(Target(c), job[c].file)
          /\ blank[r.file] \subseteq blank'[r.file]
      BY <1>1, <2>1, <3>1 DEF PrefixInv
    <3>3. Item(c) + 1 \in DOMAIN Entry(c)
      BY <2>1, <2>3
    <3> QED
      BY <3>1, <3>2, <3>3 DEF Prefix, Entry
  <2> QED
    BY <1>3, <2>2, <2>3
<1> QED
  BY <1>2, <1>3, ReadsGrow

(* A chunk with a byte in it that a reader takes from a node's table is    *)
(* the one at the place it asked for, whichever replica let it in and      *)
(* whatever had stopped.                                                   *)
THEOREM RdfsReadsAreRight == Spec => []ReadsAreRight
<1>1. Init => ReadsAreRight
  BY DEF Init, ReadsAreRight
<1> QED
  BY <1>1, ReadsStep, PrefixAlways, RdfsTypeCorrect, PTL DEF Spec
=============================================================================
