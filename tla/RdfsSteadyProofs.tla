-------------------------- MODULE RdfsSteadyProofs --------------------------
(* More theorems about Rdfs: what a replica that never stopped holds, and  *)
(* what a run without faults promises.                                     *)
EXTENDS RdfsProofs

-----------------------------------------------------------------------------
(* Replicas that never stopped                                             *)

Among(x, list) == \E k \in DOMAIN list : list[k] = x

(* A call is on a file a create_file was answered with.                    *)
JobsGiven(jobs) ==
  \A c \in Clients : jobs[c].op \in {"write", "read"} => gave[jobs[c].file] # << >>

(* Where lists of nodes come from, and what is known of a file.            *)
Given ==
  /\ \A c \in Clients : \A k \in DOMAIN cache[c] : Among(cache[c][k].nodes, gave[cache[c][k].id])
  /\ \A f \in FileIds : f + 1 \in DOMAIN rows => Among(rows[f + 1], gave[f])
  /\ \A f \in FileIds : content[f] # << >> \/ known[f] >= 0 => gave[f] # << >>
  /\ \A f \in FileIds : known[f] <= Len(content[f])
  /\ \A f \in FileIds : \A n \in steady[f] :
       running[n] /\ \E k \in DOMAIN gave[f] : Among(n, gave[f][k])
  /\ JobsGiven(job)

(* A replica whose link to a writer broke is not steady.                   *)
BrokenNotSteady ==
  \A c \in Clients : job[c].op = "write" /\ job[c].link \in {"broken", "reset"} =>
    Target(c) \notin steady[job[c].file]

(* The steady replicas of a writer's file hold all up to its call; those   *)
(* it is done with all of this call too, the one it is sending to all but  *)
(* what is still to be sent.                                               *)
WriterKeeps(j) ==
  /\ known[j.file] < j.base
  /\ j.nodes \in {gave[j.file][1], << >>}
  /\ \A n \in steady[j.file] : Len(disk[n][j.file]) >= j.base - 1
  /\ \A k \in DOMAIN j.nodes : j.nodes[k] \in steady[j.file] =>
       /\ k < j.at => Len(disk[j.nodes[k]][j.file]) >= Len(content[j.file])
       /\ k = j.at /\ j.link = "up" => Len(disk[j.nodes[k]][j.file]) >= j.base + j.next - 2

Kept(f) ==
  /\ \A n \in steady[f] : \A p \in DOMAIN disk[n][f] : disk[n][f][p] = p
  /\ (\A c \in Clients : job[c].op = "write" => job[c].file # f) =>
       \A n \in steady[f] : Len(disk[n][f]) >= Len(content[f])
  /\ \A c \in Clients : job[c].op = "write" /\ job[c].file = f => WriterKeeps(job[c])

AllKept == \A f \in FileIds : Sole(f) /\ f \notin cut => Kept(f)

(* What makes SteadyReplicas inductive, beside PrefixInv.                  *)
SteadyInv == Given /\ BrokenNotSteady /\ AllKept

(* Job k goes on with the write of job j, storing nothing: a replica is    *)
(* left only when it is not steady, or nothing is to be sent.              *)
Onward(j, k) ==
  /\ k.file = j.file /\ k.nodes = j.nodes /\ k.chunks = j.chunks /\ k.base = j.base
  /\ \/ k.at = j.at /\ k.next = j.next /\ k.link = j.link
     \/ k.at = j.at /\ k.next = 1 /\ k.link = "up" /\ j.link = "none"
     \/ k.at = j.at + 1 /\ k.link = "none" /\ j.chunks = << >>
     \/ /\ j.at \in DOMAIN j.nodes => j.nodes[j.at] \notin steady'[j.file]
        /\ k.at = j.at \/ (k.at = j.at + 1 /\ k.link = "none")

JobsOnward(jobs) ==
  \A c \in Clients : jobs[c].op = "write" => job[c].op = "write" /\ Onward(job[c], jobs[c])

(* A writer goes on, or its file is one of those cut.                      *)
JobsStay(jobs) ==
  \A c \in Clients : job[c].op = "write" =>
    job[c].file \in cut' \/ (jobs[c].op = "write" /\ jobs[c].file = job[c].file)

(* A step that hands nothing over, ends no write well and stores nothing.  *)
Plain ==
  /\ content' = content /\ gave' = gave /\ cut \subseteq cut'
  /\ \A f \in FileIds : f \notin cut' => known'[f] = known[f]
  /\ \A f \in FileIds : steady'[f] \subseteq steady[f]
  /\ \A f \in FileIds : \A n \in steady'[f] : disk'[n][f] = disk[n][f]
  /\ JobsOnward(job') /\ JobsStay(job')

LEMMA OnwardKeeps ==
  ASSUME TypeOK, PrefixInv, Plain, NEW c \in Clients, job'[c].op = "write",
         job[c].file \notin cut', WriterKeeps(job[c])
  PROVE  WriterKeeps(job[c])'
<1> DEFINE j == job[c]
           k == job'[c]
           f == job[c].file
<1>1. j.op = "write" /\ Onward(j, k) /\ WriterPlace(j)
  BY DEF Plain, JobsOnward, PrefixInv
<1>2. j \in Job /\ f \in FileIds /\ j.at \in Nat /\ j.base \in Nat /\ j.next \in Nat
  BY JobFields DEF TypeOK
<1>3. /\ content' = content /\ gave' = gave /\ known'[f] = known[f]
      /\ steady'[f] \subseteq steady[f] /\ \A n \in steady'[f] : disk'[n][f] = disk[n][f]
  BY <1>2 DEF Plain
<1>4. /\ \A n \in steady'[f] : Len(disk[n][f]) \in Nat
      /\ Len(content[f]) \in Nat /\ \A l \in DOMAIN j.nodes : l \in Nat
  BY <1>2, <1>3 DEF TypeOK, Job, NodeList
<1>5. k.file = f /\ k.nodes = j.nodes /\ k.base = j.base /\ j.file = f
  BY <1>1 DEF Onward
<1> HIDE DEF j, k, f
<1>6. ASSUME NEW l \in DOMAIN j.nodes, j.nodes[l] \in steady'[f]
      PROVE  /\ l < k.at => Len(disk[j.nodes[l]][f]) >= Len(content[f])
             /\ l = k.at /\ k.link = "up" => Len(disk[j.nodes[l]][f]) >= k.base + k.next - 2
  <2> DEFINE len == Len(disk[j.nodes[l]][f])
  <2>1. /\ len >= j.base - 1
        /\ l < j.at => len >= Len(content[f])
        /\ l = j.at /\ j.link = "up" => len >= j.base + j.next - 2
    BY <1>3, <1>5, <1>6 DEF WriterKeeps, j
  <2>2. len \in Nat /\ l \in Nat
    BY <1>4, <1>6
  <2>3. Len(content[f]) = j.base - 1 + Len(j.chunks)
    BY <1>1, <1>5 DEF WriterPlace
  <2> HIDE DEF len
  <2>4. CASE k.at = j.at /\ k.next = j.next /\ k.link = j.link
    BY <1>5, <2>1, <2>4 DEF len
  <2>5. CASE k.at = j.at /\ k.next = 1 /\ k.link = "up" /\ j.link = "none"
    BY <1>2, <1>5, <2>1, <2>2, <2>5 DEF len, j
  <2>6. CASE k.at = j.at + 1 /\ k.link = "none" /\ j.chunks = << >>
    BY <1>2, <1>5, <2>1, <2>2, <2>3, <2>6 DEF len, j
  <2>7. CASE l # j.at /\ (k.at = j.at \/ (k.at = j.at + 1 /\ k.link = "none"))
    BY <1>2, <2>1, <2>2, <2>7 DEF len, j
  <2> QED
    BY <1>1, <1>5, <1>6, <2>4, <2>5, <2>6, <2>7 DEF Onward
<1>7. /\ known[f] < j.base /\ j.nodes \in {gave[f][1], << >>}
      /\ \A n \in steady[f] : Len(disk[n][f]) >= j.base - 1
  BY <1>5 DEF WriterKeeps, j
<1>8. /\ \A n \in steady'[f] : Len(disk'[n][f]) >= k.base - 1
      /\ known'[f] < k.base /\ k.nodes \in {gave'[f][1], << >>}
  BY <1>3, <1>5, <1>7
<1>9. \A l \in DOMAIN k.nodes : k.nodes[l] \in steady'[f] =>
        /\ l < k.at => Len(disk'[k.nodes[l]][f]) >= Len(content'[f])
        /\ l = k.at /\ k.link = "up" => Len(disk'[k.nodes[l]][f]) >= k.base + k.next - 2
  BY <1>3, <1>5, <1>6
<1> QED
  BY <1>5, <1>8, <1>9 DEF WriterKeeps, k

LEMMA PlainKeeps ==
  ASSUME TypeOK, PrefixInv, AllKept, Plain
  PROVE  AllKept'
<1> SUFFICES ASSUME NEW f \in FileIds, Sole(f)', f \notin cut' PROVE Kept(f)'
  BY DEF AllKept
<1>1. Kept(f)
  <2>1. gave' = gave /\ f \notin cut
    BY DEF Plain
  <2> QED
    BY <2>1 DEF AllKept, Sole
<1>2. /\ content' = content /\ steady'[f] \subseteq steady[f]
      /\ \A n \in steady'[f] : disk'[n][f] = disk[n][f]
  BY DEF Plain
<1>3. \A n \in steady'[f] : \A p \in DOMAIN disk'[n][f] : disk'[n][f][p] = p
  BY <1>1, <1>2 DEF Kept
<1>4. ASSUME \A c \in Clients : job'[c].op = "write" => job'[c].file # f
      PROVE  \A n \in steady'[f] : Len(disk'[n][f]) >= Len(content'[f])
  <2>1. \A c \in Clients : job[c].op = "write" => job[c].file # f
    BY <1>4 DEF Plain, JobsStay
  <2> QED
    BY <1>1, <1>2, <2>1 DEF Kept
<1>5. ASSUME NEW c \in Clients, job'[c].op = "write", job'[c].file = f
      PROVE  WriterKeeps(job[c])'
  <2>1. job[c].op = "write" /\ job[c].file = f
    BY <1>5 DEF Plain, JobsOnward, Onward
  <2> QED
    BY <1>1, <1>5, <2>1, OnwardKeeps DEF Kept
<1> QED
  BY <1>3, <1>4, <1>5 DEF Kept

-----------------------------------------------------------------------------
(* The steps that are plain                                                *)

LEMMA BrokenOnward ==
  ASSUME NEW jobs, JobsOK(jobs), JobsOnward(jobs), JobsStay(jobs), TypeOK,
         NEW n, \A f \in FileIds : n \notin steady'[f]
  PROVE  JobsOnward(Broken(jobs, n)) /\ JobsStay(Broken(jobs, n))
<1>1. ASSUME NEW c \in Clients, jobs[c].op = "write"
      PROVE  job[c].op = "write" /\ Onward(job[c], Broken(jobs, n)[c])
  <2> DEFINE j == job[c]
             k == jobs[c]
             b == Broken(jobs, n)[c]
  <2>1. j.op = "write" /\ Onward(j, k) /\ n \notin steady'[j.file]
    BY <1>1 DEF JobsOnward, TypeOK, Job
  <2>2. /\ b.file = k.file /\ b.nodes = k.nodes
        /\ b.chunks = k.chunks /\ b.base = k.base /\ b.at = k.at /\ b.next = k.next
        /\ IF k.link = "up" /\ k.nodes[k.at] = n THEN b.link = "broken" ELSE b.link = k.link
    BY BrokenFields
  <2> HIDE DEF j, k, b
  <2>3. Onward(j, b)
    BY <2>1, <2>2 DEF Onward
  <2> QED
    BY <2>1, <2>3 DEF j, b
<1> QED
  BY <1>1, BrokenFields DEF JobsOnward, JobsStay

LEMMA OneOnward ==
  ASSUME TypeOK, NEW c \in Clients, NEW k,
         k.op = "write" => job[c].op = "write" /\ Onward(job[c], k),
         job[c].op = "write" => job[c].file \in cut' \/ (k.op = "write" /\ k.file = job[c].file)
  PROVE  JobsOnward([job EXCEPT ![c] = k]) /\ JobsStay([job EXCEPT ![c] = k])
BY DEF JobsOnward, JobsStay, Onward, TypeOK

LEMMA SameOnward ==
  ASSUME TypeOK
  PROVE  JobsOnward(job) /\ JobsStay(job)
BY DEF JobsOnward, JobsStay, Onward

LEMMA EndedOnward ==
  ASSUME TypeOK, NEW c \in Clients, job[c].op # "write" \/ job[c].file \in cut'
  PROVE  /\ JobsOnward([job EXCEPT ![c] = [Idle EXCEPT !.op = "dead"]])
         /\ JobsStay([job EXCEPT ![c] = [Idle EXCEPT !.op = "dead"]])
         /\ JobsOnward([job EXCEPT ![c] = Idle]) /\ JobsStay([job EXCEPT ![c] = Idle])
<1>1. Idle.op # "write" /\ [Idle EXCEPT !.op = "dead"].op # "write"
  BY DEF Idle
<1> QED
  BY <1>1, OneOnward

LEMMA StopsPlain ==
  ASSUME TypeOK, NEW n \in Nodes, NodeStops(n)
  PROVE  \A f \in FileIds :
           /\ n \notin steady'[f] /\ steady'[f] \subseteq steady[f]
           /\ \A m \in steady'[f] : disk'[m][f] = disk[m][f]
<1>1. \A f \in FileIds : steady'[f] = steady[f] \ {n} /\ steady[f] \subseteq Nodes
  BY DEF NodeStops, TypeOK
<1>2. \A m \in Nodes : m # n => disk'[m] = disk[m]
  BY DEF NodeStops, TypeOK
<1> QED
  BY <1>1, <1>2

LEMMA NextNodeFields ==
  ASSUME TypeOK, NEW c \in Clients
  PROVE  LET j == job[c]  k == NextNode(c)
         IN /\ k.op = j.op /\ k.file = j.file /\ k.nodes = j.nodes
            /\ k.chunks = j.chunks /\ k.base = j.base
            /\ k.at = j.at + 1 /\ k.next = 1 /\ k.link = "none"
<1>1. job[c] \in Job
  BY DEF TypeOK
<1> QED
  BY <1>1 DEF NextNode, Job

(* A replica that is not steady is passed over, or found to have stopped.  *)
LEMMA LeavesOnward ==
  ASSUME TypeOK, NEW c \in Clients, job[c].at \in DOMAIN job[c].nodes,
         Target(c) \notin steady'[job[c].file]
  PROVE  /\ JobsOnward([job EXCEPT ![c] = NextNode(c)]) /\ JobsStay([job EXCEPT ![c] = NextNode(c)])
         /\ JobsOnward([job EXCEPT ![c] = AfterChunk(c)]) /\ JobsStay([job EXCEPT ![c] = AfterChunk(c)])
         /\ JobsOnward([job EXCEPT ![c] = [AfterChunk(c) EXCEPT !.link = "reset"]])
            \/ ~ (job[c].next < Len(job[c].chunks))
         /\ JobsStay([job EXCEPT ![c] = [AfterChunk(c) EXCEPT !.link = "reset"]])
<1>1. /\ NextNode(c).op = job[c].op /\ NextNode(c).file = job[c].file
      /\ Onward(job[c], NextNode(c))
  BY NextNodeFields DEF Onward, Target
<1>2. /\ AfterChunk(c).op = job[c].op /\ AfterChunk(c).file = job[c].file
      /\ Onward(job[c], AfterChunk(c))
  BY AfterChunkFields DEF Onward, Target
<1> DEFINE k == [AfterChunk(c) EXCEPT !.link = "reset"]
<1>3. job[c] \in Job
  BY DEF TypeOK
<1>4. /\ k.op = job[c].op /\ k.file = job[c].file
      /\ job[c].next < Len(job[c].chunks) =>
           /\ k.nodes = job[c].nodes /\ k.chunks = job[c].chunks /\ k.base = job[c].base
           /\ k.at = job[c].at
  BY <1>3 DEF AfterChunk, NextNode, Job
<1>5. job[c].next < Len(job[c].chunks) => Onward(job[c], k)
  BY <1>4 DEF Onward, Target
<1>6. /\ JobsOnward([job EXCEPT ![c] = NextNode(c)]) /\ JobsStay([job EXCEPT ![c] = NextNode(c)])
      /\ JobsOnward([job EXCEPT ![c] = AfterChunk(c)]) /\ JobsStay([job EXCEPT ![c] = AfterChunk(c)])
  BY <1>1, <1>2, OneOnward
<1>7. JobsStay([job EXCEPT ![c] = k])
  BY <1>4 DEF JobsStay, TypeOK
<1>8. job[c].next < Len(job[c].chunks) => JobsOnward([job EXCEPT ![c] = k])
  BY <1>4, <1>5, OneOnward
<1> QED
  BY <1>6, <1>7, <1>8

LEMMA PlainNotSteady ==
  ASSUME TypeOK, TypeOK', BrokenNotSteady, Plain
  PROVE  BrokenNotSteady'
<1> SUFFICES ASSUME NEW c \in Clients, job'[c].op = "write", job'[c].link \in {"broken", "reset"}
             PROVE  job'[c].nodes[job'[c].at] \notin steady'[job'[c].file]
  BY DEF BrokenNotSteady, Target
<1>1. job[c].op = "write" /\ Onward(job[c], job'[c])
  BY DEF Plain, JobsOnward
<1>2. job'[c].at \in DOMAIN job'[c].nodes /\ job[c].file \in FileIds
  BY DEF TypeOK, Job
<1>3. steady'[job[c].file] \subseteq steady[job[c].file]
  BY <1>2 DEF Plain
<1> QED
  BY <1>1, <1>2, <1>3 DEF Onward, BrokenNotSteady, Target

(* A writer is done with the replicas of its file.                         *)
EndsWell(c) == EndCall(c) /\ job[c].op = "write" /\ job[c].nodes # << >>

LEMMA StepPlain ==
  ASSUME TypeOK, SteadyInv, NEW c \in Clients, Step(c)
  PROVE  Plain \/ EndsWell(c) \/ (SendChunk(c) /\ EchoSafe(Entry(c), Item(c), IsBlank(c)))
<1>1. CASE Connect(c)
  <2>1. /\ UNCHANGED <<content, gave, cut, known, steady, disk>>
        /\ job[c] \in Job /\ job[c].link = "none" /\ job[c].next = 1
    BY <1>1 DEF Connect, Trying, servers, history, TypeOK
  <2>2. CASE UsesLink(c)
    <3> DEFINE k == [job[c] EXCEPT !.link = "up"]
    <3>1. Onward(job[c], k) /\ k.op = job[c].op /\ k.file = job[c].file
      BY <2>1 DEF Onward, Job
    <3>2. job' = [job EXCEPT ![c] = k]
      BY <1>1, <2>2 DEF Connect, TypeOK
    <3> HIDE DEF k
    <3>3. JobsOnward(job') /\ JobsStay(job')
      BY <3>1, <3>2, OneOnward
    <3> QED
      BY <2>1, <3>3 DEF Plain
  <2>3. CASE ~UsesLink(c)
    <3>1. Onward(job[c], NextNode(c)) /\ NextNode(c).op = job[c].op /\ NextNode(c).file = job[c].file
      BY <2>3, NextNodeFields DEF Onward, UsesLink
    <3>2. job' = [job EXCEPT ![c] = NextNode(c)]
      BY <1>1, <2>3 DEF Connect
    <3>3. JobsOnward(job') /\ JobsStay(job')
      BY <3>1, <3>2, OneOnward
    <3> QED
      BY <2>1, <3>3 DEF Plain
  <2> QED
    BY <2>2, <2>3
<1>2. CASE PassNode(c)
  <2>1. /\ UNCHANGED <<content, gave, cut, known, steady, disk>>
        /\ job[c].file \in FileIds /\ job[c].at \in DOMAIN job[c].nodes
        /\ job' = [job EXCEPT ![c] = NextNode(c)]
    BY <1>2 DEF PassNode, servers, history, TypeOK, Job, NodeList
  <2>2. Target(c) \notin steady'[job[c].file]
    BY <1>2, <2>1 DEF PassNode, SteadyInv, Given
  <2>3. JobsOnward(job') /\ JobsStay(job')
    BY <2>1, <2>2, LeavesOnward
  <2> QED
    BY <2>1, <2>3 DEF Plain
<1>3. CASE EndCall(c) /\ ~EndsWell(c)
  <2>1. /\ UNCHANGED <<content, gave, steady, disk>> /\ cut \subseteq cut'
        /\ job' = [job EXCEPT ![c] = Idle]
        /\ job[c].op # "write" \/ job[c].file \in cut'
    BY <1>3 DEF EndCall, EndsWell, Returns, servers
  <2>2. \A f \in FileIds : f \notin cut' => known'[f] = known[f]
    BY <1>3, <2>1 DEF EndCall, Returns, TypeOK
  <2>3. JobsOnward(job') /\ JobsStay(job')
    BY <2>1, EndedOnward
  <2> QED
    BY <2>1, <2>2, <2>3 DEF Plain
<1>4. CASE SendChunk(c) /\ ~EchoSafe(Entry(c), Item(c), IsBlank(c))
  <2> DEFINE jobs == [job EXCEPT ![c] = AfterChunk(c)]
  <2>1. /\ Target(c) \in Nodes /\ NodeStops(Target(c)) /\ job' = Broken(jobs, Target(c))
        /\ job[c].file \in FileIds /\ job[c].at \in DOMAIN job[c].nodes
        /\ UNCHANGED <<content, gave, cut, known>>
    BY <1>4, ExchangeType DEF SendChunk
  <2>2. JobsOK(jobs)
    BY <1>4, AfterChunkType, JobUpdate DEF SendChunk
  <2>3. JobsOnward(jobs) /\ JobsStay(jobs)
    BY <2>1, StopsPlain, LeavesOnward
  <2> HIDE DEF jobs
  <2>4. JobsOnward(job') /\ JobsStay(job')
    BY <2>1, <2>2, <2>3, StopsPlain, BrokenOnward
  <2> QED
    BY <2>1, <2>4, StopsPlain DEF Plain
<1>5. CASE SendFails(c)
  <2>1. /\ UNCHANGED <<content, gave, steady, disk>> /\ job[c].op = "write"
        /\ job[c].link \in {"broken", "reset"}
        /\ job[c].file \in FileIds /\ job[c].at \in DOMAIN job[c].nodes
    BY <1>5, ExchangeType DEF SendFails, servers
  <2>2. Target(c) \notin steady'[job[c].file]
    BY <2>1 DEF SteadyInv, BrokenNotSteady
  <2>3. CASE /\ UNCHANGED <<known, cut>>
             /\ job' = [job EXCEPT ![c] = IF job[c].next < Len(job[c].chunks)
                                          THEN [AfterChunk(c) EXCEPT !.link = "reset"]
                                          ELSE AfterChunk(c)]
    <3>1. JobsOnward(job') /\ JobsStay(job')
      BY <2>1, <2>2, <2>3, LeavesOnward
    <3> QED
      BY <2>1, <2>3, <3>1 DEF Plain
  <2>4. CASE (Returns(c) \/ (Dies(c) /\ UNCHANGED known)) /\ cut' = cut \cup {job[c].file}
    <3>1. JobsOnward(job') /\ JobsStay(job')
      BY <2>4, EndedOnward DEF Returns, Dies
    <3>2. \A f \in FileIds : f \notin cut' => known'[f] = known[f]
      BY <2>4 DEF Returns, TypeOK
    <3> QED
      BY <2>1, <2>4, <3>1, <3>2 DEF Plain
  <2> QED
    BY <1>5, <2>3, <2>4 DEF SendFails
<1>6. CASE AskChunk(c) \/ AskMissing(c) \/ AskFails(c)
  <2>1. /\ UNCHANGED <<content, gave, cut, known>> /\ job[c].op = "read" /\ job[c].link # "none"
        /\ (\E n \in Nodes : NodeStops(n)) \/ UNCHANGED <<steady, disk>>
    BY <1>6, ExchangeType DEF AskChunk, AskMissing, AskFails, servers
  <2>2. ASSUME NEW link \in {"up", "reset"}
        PROVE  /\ JobsOK(NextQuestion(c, link))
               /\ JobsOnward(NextQuestion(c, link)) /\ JobsStay(NextQuestion(c, link))
    <3>1. AfterAnswer(c, link).op # "write"
      BY <2>1 DEF AfterAnswer, Idle, TypeOK, Job
    <3> QED
      BY <2>1, <3>1, NextQuestionType, OneOnward DEF NextQuestion
  <2>3. ASSUME NEW jobs, JobsOK(jobs), JobsOnward(jobs), JobsStay(jobs), NoAnswer(c, jobs)
        PROVE  JobsOnward(job') /\ JobsStay(job')
    <3>1. [Idle EXCEPT !.op = "dead"].op # "write"
      BY DEF Idle
    <3> QED
      BY <2>1, <2>3, <3>1 DEF NoAnswer, JobsOnward, JobsStay, JobsOK
  <2>4. JobsOnward(job') /\ JobsStay(job')
    <3>1. CASE AskChunk(c)
      BY <2>2, <3>1 DEF AskChunk
    <3>2. CASE AskMissing(c)
      <4> DEFINE jobs == NextQuestion(c, "up")
      <4>1. JobsOK(jobs) /\ JobsOnward(jobs) /\ JobsStay(jobs) /\ Target(c) \in Nodes
        BY <2>1, <2>2, ExchangeType
      <4> HIDE DEF jobs
      <4>2. CASE NodeStops(Target(c)) /\ NoAnswer(c, Broken(jobs, Target(c)))
        <5>1. /\ JobsOK(Broken(jobs, Target(c)))
              /\ JobsOnward(Broken(jobs, Target(c))) /\ JobsStay(Broken(jobs, Target(c)))
          BY <4>1, <4>2, StopsPlain, BrokenType, BrokenOnward
        <5> QED
          BY <4>2, <5>1, <2>3
      <4>3. CASE job' = jobs
        BY <4>1, <4>3
      <4> QED
        BY <3>2, <4>2, <4>3 DEF AskMissing, jobs
    <3>3. CASE AskFails(c)
      BY <2>1, <2>2, <2>3, <3>3, EndedOnward DEF AskFails, Dies
    <3> QED
      BY <1>6, <3>1, <3>2, <3>3
  <2>5. \A f \in FileIds : /\ steady'[f] \subseteq steady[f]
                           /\ \A n \in steady'[f] : disk'[n][f] = disk[n][f]
    BY <2>1, StopsPlain
  <2> QED
    BY <2>1, <2>4, <2>5 DEF Plain
<1> QED
  BY <1>1, <1>2, <1>3, <1>4, <1>5, <1>6 DEF Step, EndsWell

LEMMA OtherPlain ==
  ASSUME TypeOK,
         \/ \E c \in Clients : ReadChunk(c) \/ Unheard(c)
         \/ \E n \in Nodes : Crash(n) \/ Restart(n)
         \/ MasterCrash \/ MasterRestart
  PROVE  Plain
<1>1. ASSUME NEW c \in Clients, ReadChunk(c) PROVE Plain
  <2>1. UNCHANGED <<content, gave, cut, known, steady, disk>> /\ job[c].op # "write"
    BY <1>1 DEF ReadChunk, Calls, history
  <2>2. PICK f \in FileIds, k \in Nat, n \in Nat :
          Dies(c) \/ Begin(c, "read", f, FileNodes(c, f), Ids(k, n))
    BY <1>1, ReadParts
  <2>3. CASE Dies(c)
    BY <2>1, <2>3, EndedOnward DEF Plain, Dies
  <2>4. ASSUME NEW chunks, Begin(c, "read", f, FileNodes(c, f), chunks) PROVE Plain
    <3> DEFINE j == [Idle EXCEPT !.op = "read", !.file = f, !.nodes = FileNodes(c, f),
                                   !.chunks = chunks, !.base = Len(content[f]) + 1]
    <3>1. j.op # "write"
      BY DEF Idle
    <3>2. job' = [job EXCEPT ![c] = j]
      BY <2>4 DEF Begin
    <3> HIDE DEF j
    <3> QED
      BY <2>1, <3>1, <3>2, OneOnward DEF Plain
  <2> QED
    BY <2>2, <2>3, <2>4
<1>2. ASSUME NEW n \in Nodes, Crash(n) PROVE Plain
  <2>1. JobsOnward(job') /\ JobsStay(job')
    BY <1>2, TypeParts, StopsPlain, SameOnward, BrokenOnward DEF Crash
  <2> QED
    BY <1>2, <2>1, StopsPlain DEF Crash, Plain
<1>3. CASE (\E n \in Nodes : Restart(n)) \/ MasterCrash \/ MasterRestart
  BY <1>3, SameOnward DEF Restart, MasterCrash, MasterRestart, Plain, history
<1>4. ASSUME NEW c \in Clients, Unheard(c) PROVE Plain
  <2> DEFINE j == [Idle EXCEPT !.op = "waiting"]
  <2>1. UNCHANGED <<content, gave, cut, known, steady, disk>> /\ job[c].op # "write"
        /\ job' = [job EXCEPT ![c] = j]
    BY <1>4 DEF Unheard, Calls, servers, history
  <2>2. j.op # "write"
    BY DEF Idle
  <2> HIDE DEF j
  <2> QED
    BY <2>1, <2>2, OneOnward DEF Plain
<1> QED
  BY <1>1, <1>2, <1>3, <1>4

-----------------------------------------------------------------------------
(* The steps that are not                                                  *)

(* A write has been through all replicas: each that is steady has it all.  *)
LEMMA EndKeeps ==
  ASSUME TypeOK, PrefixInv, SteadyInv, NEW c \in Clients, EndsWell(c)
  PROVE  AllKept' /\ BrokenNotSteady'
<1> DEFINE j == job[c]
<1>1. /\ UNCHANGED <<content, gave, steady, disk, cut>> /\ j.op = "write" /\ j.nodes # << >>
      /\ job' = [job EXCEPT ![c] = Idle] /\ known' = [known EXCEPT ![j.file] = Len(content[j.file])]
      /\ j.at > Len(j.nodes)
  BY DEF EndsWell, EndCall, Returns, servers
<1>2. Idle.op # "write" /\ \A d \in Clients : job'[d].op # "write"
  BY <1>1 DEF PrefixInv, OneWriter, Idle, TypeOK
<1>3. ASSUME NEW f \in FileIds, Sole(f), f \notin cut, NEW n \in steady[f]
      PROVE  Len(disk[n][f]) >= Len(content[f])
  <2>1. Kept(f)
    BY <1>3 DEF SteadyInv, AllKept
  <2>2. CASE f # j.file
    <3>1. \A d \in Clients : job[d].op = "write" => job[d].file # f
      BY <1>1, <2>2 DEF PrefixInv, OneWriter
    <3> QED
      BY <1>3, <2>1, <3>1 DEF Kept
  <2>3. CASE f = j.file
    <3>1. WriterKeeps(j)
      BY <1>1, <2>1, <2>3 DEF Kept
    <3>2. j.nodes = gave[f][1]
      BY <1>1, <2>3, <3>1 DEF WriterKeeps
    <3>3. PICK k \in DOMAIN gave[f] : Among(n, gave[f][k])
      BY <1>3 DEF SteadyInv, Given
    <3>4. k = 1
      BY <1>3, <3>3 DEF Sole, TypeOK
    <3>5. PICK l \in DOMAIN j.nodes : j.nodes[l] = n
      BY <3>2, <3>3, <3>4 DEF Among
    <3>6. l < j.at
      <4>1. j.nodes \in Seq(Nodes) /\ j.at \in Nat
        BY JobFields DEF TypeOK, NodeList
      <4> QED
        BY <1>1, <3>5, <4>1
    <3> QED
      BY <1>3, <2>3, <3>1, <3>5, <3>6 DEF WriterKeeps
  <2> QED
    BY <2>2, <2>3
<1>4. AllKept'
  BY <1>1, <1>2, <1>3 DEF SteadyInv, AllKept, Kept, Sole
<1> QED
  BY <1>2, <1>4 DEF BrokenNotSteady

(* A chunk is stored at a replica, which is steady or not.                 *)
LEMMA StoreKeeps ==
  ASSUME TypeOK, PrefixInv, SteadyInv, NEW c \in Clients,
         SendChunk(c), EchoSafe(Entry(c), Item(c), IsBlank(c))
  PROVE  AllKept' /\ BrokenNotSteady'
<1> DEFINE j == job[c]
           k == AfterChunk(c)
           f == job[c].file
           t == Target(c)
           old == disk[t][f]
           chunk == Number(c)
<1>1. /\ j.op = "write" /\ j.link = "up" /\ WriterPlace(j)
      /\ UNCHANGED <<content, gave, steady, cut, known>>
      /\ \A d \in Clients : d # c => job[d].op # "write"
  BY DEF SendChunk, PrefixInv, OneWriter
<1>2. /\ j \in Job /\ f \in FileIds /\ t \in Nodes /\ j.at \in DOMAIN j.nodes
      /\ j.next \in DOMAIN j.chunks /\ old \in Seq(Nat)
  BY <1>1, ExchangeType DEF Entry
<1>3. /\ j.nodes \in Seq(Nodes) /\ j.chunks \in Seq(Nat) /\ Len(content[f]) \in Nat
      /\ j.at \in Nat \ {0} /\ j.base \in Nat \ {0} /\ j.next \in Nat \ {0}
  BY <1>2, JobFields DEF NodeList, TypeOK
<1>4. /\ disk'[t][f] = Append(old, chunk)
      /\ \A m \in Nodes, g \in FileIds : m # t \/ g # f => disk'[m][g] = disk[m][g]
      /\ job'[c] = k /\ \A d \in Clients : d # c => job'[d] = job[d]
  BY StoreEffect
<1>5. /\ k.op = j.op /\ k.file = j.file /\ k.nodes = j.nodes
      /\ k.chunks = j.chunks /\ k.base = j.base
      /\ IF j.next < Len(j.chunks)
         THEN k.at = j.at /\ k.next = j.next + 1 /\ k.link = j.link
         ELSE k.at = j.at + 1 /\ k.next = 1 /\ k.link = "none"
  BY AfterChunkFields
<1>6. Len(old) < chunk /\ Len(content[f]) = j.base - 1 + Len(j.chunks)
  BY <1>1 DEF WriterPlace, Target, Number
<1>7. steady[f] \subseteq Nodes /\ \A n \in steady[f] : disk[n][f] \in Seq(Nat)
  BY <1>2 DEF TypeOK
<1>8. j.file = f /\ j.nodes[j.at] = t /\ disk[t][f] = old /\ j = job[c]
  BY DEF Target
<1> HIDE DEF j, k, f, t, old, chunk
<1>9. chunk \in Nat /\ chunk = j.base + j.next - 1 /\ Len(old) \in Nat
      /\ Len(Append(old, chunk)) = Len(old) + 1
      /\ \A p \in DOMAIN old : Append(old, chunk)[p] = old[p]
  <2>1. chunk \in Nat /\ chunk = j.base + j.next - 1
    BY <1>3 DEF chunk, j, Number
  <2> QED
    BY <1>2, <2>1
<1>10. BrokenNotSteady'
  <2>1. k.link \in {"up", "none"}
    BY <1>1, <1>5
  <2> QED
    BY <1>1, <1>4, <2>1 DEF SteadyInv, BrokenNotSteady
<1>11. ASSUME NEW g \in FileIds, g # f, Kept(g) PROVE Kept(g)'
  <2>1. \A n \in steady'[g] : disk'[n][g] = disk[n][g]
    BY <1>1, <1>4, <1>11 DEF TypeOK
  <2>2. \A d \in Clients : job[d].op = "write" => d = c /\ job[d].file = f
    BY <1>1, <1>8
  <2>3. \A d \in Clients : job'[d].op = "write" => d = c /\ job'[d].file = f
    BY <1>1, <1>4, <1>5, <1>8
  <2> QED
    BY <1>1, <1>11, <2>1, <2>2, <2>3 DEF Kept
<1>12. ASSUME NEW g \in FileIds, g = f, Kept(g) PROVE Kept(g)'
  <2>1. WriterKeeps(j) /\ \A n \in steady[f] : \A p \in DOMAIN disk[n][f] : disk[n][f][p] = p
    BY <1>1, <1>8, <1>12 DEF Kept
  <2>2. t \in steady[f] => Len(old) = chunk - 1
    <3>1. j.nodes[j.at] \in steady[j.file] =>
            Len(disk[j.nodes[j.at]][j.file]) >= j.base + j.next - 2
      BY <1>1, <1>2, <2>1 DEF WriterKeeps
    <3>2. t \in steady[f] => Len(old) >= j.base + j.next - 2
      BY <1>8, <3>1
    <3> QED
      BY <1>3, <1>6, <1>9, <3>2
  <2>3. \A n \in steady[f] : Len(disk'[n][f]) \in Nat /\ Len(disk'[n][f]) >= Len(disk[n][f])
    <3>1. ASSUME NEW n \in steady[f], n # t PROVE disk'[n][f] = disk[n][f]
      BY <1>2, <1>4, <1>7, <3>1
    <3>2. Len(disk'[t][f]) = Len(old) + 1
      BY <1>4, <1>9
    <3> QED
      BY <1>7, <1>8, <1>9, <3>1, <3>2
  <2>4. ASSUME NEW n \in steady[f], NEW p \in DOMAIN disk'[n][f] PROVE disk'[n][f][p] = p
    <3>1. CASE n # t
      <4>1. disk'[n][f] = disk[n][f]
        BY <1>2, <1>4, <1>7, <3>1
      <4> QED
        BY <2>1, <2>4, <4>1
    <3>2. CASE n = t /\ p \in DOMAIN old
      <4>1. old[p] = p
        BY <1>8, <2>1, <2>4, <3>2
      <4> QED
        BY <1>4, <1>9, <3>2, <4>1
    <3>3. CASE n = t /\ p \notin DOMAIN old
      <4>1. p = Len(old) + 1
        BY <1>2, <1>4, <2>4, <3>3
      <4> QED
        BY <1>2, <1>4, <1>9, <2>2, <2>4, <3>3, <4>1
    <3> QED
      BY <3>1, <3>2, <3>3
  <2>5. ASSUME NEW l \in DOMAIN j.nodes, j.nodes[l] \in steady[f]
        PROVE  /\ l < k.at => Len(disk'[j.nodes[l]][f]) >= Len(content[f])
               /\ l = k.at /\ k.link = "up" => Len(disk'[j.nodes[l]][f]) >= j.base + k.next - 2
    <3>1. /\ l < j.at => Len(disk[j.nodes[l]][f]) >= Len(content[f])
          /\ Len(disk[j.nodes[l]][f]) \in Nat /\ l \in Nat
      BY <1>3, <1>7, <1>8, <2>1, <2>5 DEF WriterKeeps
    <3>2. Len(disk'[j.nodes[l]][f]) \in Nat /\ Len(disk'[j.nodes[l]][f]) >= Len(disk[j.nodes[l]][f])
      BY <2>3, <2>5
    <3>3. l = j.at => Len(disk'[j.nodes[l]][f]) = chunk
      <4>1. l = j.at => j.nodes[l] = t
        BY <1>8
      <4> QED
        BY <1>4, <1>9, <2>2, <2>5, <4>1
    <3> DEFINE was == Len(disk[j.nodes[l]][f])
               is == Len(disk'[j.nodes[l]][f])
    <3>4. /\ was \in Nat /\ is \in Nat /\ is >= was /\ l \in Nat
          /\ l < j.at => was >= Len(content[f])
          /\ l = j.at => is = chunk
      BY <3>1, <3>2, <3>3
    <3> HIDE DEF was, is
    <3>5. CASE j.next < Len(j.chunks)
      <4>1. k.at = j.at /\ j.base + k.next - 2 = chunk
        BY <1>3, <1>5, <1>9, <3>5
      <4>2. l < j.at => is >= Len(content[f])
        BY <1>3, <3>4
      <4>3. l = j.at => is >= chunk
        BY <1>9, <3>4
      <4> QED
        BY <4>1, <4>2, <4>3 DEF is
    <3>6. CASE ~ (j.next < Len(j.chunks))
      <4>1. Len(content[f]) = chunk /\ k.link = "none" /\ k.at = j.at + 1
        <5>1. j.next = Len(j.chunks)
          BY <1>2, <1>3, <3>6
        <5> QED
          BY <1>3, <1>5, <1>6, <1>9, <3>6, <5>1
      <4>2. l < j.at + 1 => is >= Len(content[f])
        BY <1>3, <3>4, <4>1
      <4> QED
        BY <4>1, <4>2 DEF is
    <3> QED
      BY <3>5, <3>6
  <2>6. WriterKeeps(job[c])'
    <3>1. /\ known[f] < j.base /\ j.nodes \in {gave[f][1], << >>}
          /\ \A n \in steady[f] : Len(disk[n][f]) >= j.base - 1
      BY <1>8, <2>1 DEF WriterKeeps
    <3>2. \A n \in steady[f] : Len(disk'[n][f]) >= j.base - 1
      <4>1. \A n \in steady[f] : Len(disk[n][f]) \in Nat
        BY <1>7
      <4> QED
        BY <1>3, <2>3, <3>1, <4>1
    <3> QED
      BY <1>1, <1>4, <1>5, <1>8, <2>5, <3>1, <3>2 DEF WriterKeeps
  <2>7. c \in Clients /\ job'[c].op = "write" /\ job'[c].file = f
        /\ \A d \in Clients : d # c => job'[d].op # "write"
    BY <1>1, <1>4, <1>5, <1>8
  <2> QED
    BY <1>1, <1>12, <2>4, <2>6, <2>7 DEF Kept
<1>13. AllKept'
  BY <1>1, <1>11, <1>12 DEF SteadyInv, AllKept, Sole
<1> QED
  BY <1>10, <1>13

(* A new write, as create_file and append_file begin it.                   *)
LEMMA BeginFields ==
  ASSUME TypeOK, NEW c \in Clients, NEW op, NEW f \in FileIds, NEW nodes, NEW chunks,
         Begin(c, op, f, nodes, chunks)
  PROVE  /\ job'[c].op = op /\ job'[c].file = f /\ job'[c].nodes = nodes
         /\ job'[c].chunks = chunks /\ job'[c].base = Len(content[f]) + 1
         /\ job'[c].at = 1 /\ job'[c].next = 1 /\ job'[c].link = "none"
         /\ \A d \in Clients : d # c => job'[d] = job[d]
<1> DEFINE j == [Idle EXCEPT !.op = op, !.file = f, !.nodes = nodes,
                               !.chunks = chunks, !.base = Len(content[f]) + 1]
<1>1. /\ j.op = op /\ j.file = f /\ j.nodes = nodes /\ j.chunks = chunks
      /\ j.base = Len(content[f]) + 1 /\ j.at = 1 /\ j.next = 1 /\ j.link = "none"
  BY DEF Idle
<1>2. job' = [job EXCEPT ![c] = j]
  BY DEF Begin
<1> HIDE DEF j
<1>3. job'[c] = j /\ \A d \in Clients : d # c => job'[d] = job[d]
  BY <1>2 DEF TypeOK
<1> QED
  BY <1>1, <1>3

(* No one writes: every steady replica holds its file.                     *)
LEMMA WriteStartsKept ==
  ASSUME TypeOK, SteadyInv, \A d \in Clients : job[d].op # "write",
         NEW f \in FileIds, Sole(f), f \notin cut
  PROVE  /\ known[f] <= Len(content[f])
         /\ \A n \in steady[f] : /\ Len(disk[n][f]) >= Len(content[f])
                               /\ \A p \in DOMAIN disk[n][f] : disk[n][f][p] = p
BY DEF SteadyInv, Given, AllKept, Kept

LEMMA AppendKeeps ==
  ASSUME TypeOK, PrefixInv, SteadyInv, NEW c \in Clients, AppendFile(c)
  PROVE  AllKept' /\ BrokenNotSteady'
<1>1. PICK f \in FileIds, id \in Nat, n \in Nat, lines \in SUBSET Nat :
        /\ known[f] \in Nat
        /\ IF MatchesUnused(c, f)
           THEN Dies(c) /\ UNCHANGED <<masterUp, blank, content>>
           ELSE /\ Begin(c, "write", f, FileNodes(c, f), Ids(id, n))
                /\ HandOver(f, Ids(id, n), lines)
                /\ LookUp(c, f)
  BY AppendParts
<1>2. /\ UNCHANGED <<gave, steady, disk, cut, known>>
      /\ \A d \in Clients : job[d].op # "write"
  BY DEF AppendFile, Calls
<1>3. CASE Dies(c) /\ content' = content
  <2>1. Plain
    BY <1>2, <1>3, EndedOnward DEF Dies, Plain
  <2> QED
    BY <2>1, <1>2, <1>3, PlainKeeps DEF SteadyInv, BrokenNotSteady, Plain, JobsOnward
<1>4. CASE Begin(c, "write", f, FileNodes(c, f), Ids(id, n)) /\ HandOver(f, Ids(id, n), lines)
  <2>1. /\ job'[c].op = "write" /\ job'[c].file = f /\ job'[c].nodes = FileNodes(c, f)
        /\ job'[c].base = Len(content[f]) + 1 /\ job'[c].at = 1 /\ job'[c].link = "none"
        /\ \A d \in Clients : d # c => job'[d].op # "write"
    BY <1>2, <1>4, BeginFields
  <2>2. BrokenNotSteady'
    BY <2>1 DEF BrokenNotSteady
  <2>3. \A g \in FileIds : g # f => content'[g] = content[g]
    BY <1>4 DEF HandOver, TypeOK
  <2>4. ASSUME NEW g \in FileIds, Sole(g), g \notin cut, g # f PROVE Kept(g)'
    <3>1. \A m \in steady[g] : /\ Len(disk[m][g]) >= Len(content[g])
                               /\ \A p \in DOMAIN disk[m][g] : disk[m][g][p] = p
      BY <1>2, <2>4, WriteStartsKept
    <3> QED
      BY <1>2, <2>1, <2>3, <2>4, <3>1 DEF Kept
  <2>5. ASSUME Sole(f), f \notin cut PROVE Kept(f)'
    <3>1. /\ known[f] <= Len(content[f])
          /\ \A m \in steady[f] : /\ Len(disk[m][f]) >= Len(content[f])
                               /\ \A p \in DOMAIN disk[m][f] : disk[m][f][p] = p
      BY <1>2, <2>5, WriteStartsKept
    <3>2. FileNodes(c, f) \in {gave[f][1], << >>}
      <4>1. \A list : Among(list, gave[f]) => list = gave[f][1]
        BY <2>5 DEF Among, Sole, TypeOK
      <4>2. Among(FileNodes(c, f), gave[f]) \/ FileNodes(c, f) = << >>
        BY FileNodesFrom DEF SteadyInv, Given
      <4> QED
        BY <4>1, <4>2
    <3>3. /\ Len(content[f]) \in Nat /\ known[f] \in Nat
          /\ \A m \in steady[f] : Len(disk[m][f]) \in Nat
      BY <1>1 DEF TypeOK
    <3>4. known[f] < job'[c].base /\ \A m \in steady[f] : Len(disk[m][f]) >= job'[c].base - 1
      BY <2>1, <3>1, <3>3
    <3>5. \A k \in DOMAIN job'[c].nodes : ~ (k < 1)
      BY <2>1, FileNodesType DEF NodeList
    <3>6. WriterKeeps(job[c])'
      BY <1>2, <2>1, <3>2, <3>4, <3>5 DEF WriterKeeps
    <3> QED
      BY <1>2, <2>1, <3>1, <3>6 DEF Kept
  <2> QED
    BY <1>2, <2>2, <2>4, <2>5 DEF AllKept, Sole
<1> QED
  BY <1>1, <1>3, <1>4

LEMMA CreateKeeps ==
  ASSUME TypeOK, PrefixInv, SteadyInv, NEW c \in Clients, CreateFile(c)
  PROVE  AllKept' /\ BrokenNotSteady'
<1>1. PICK f \in FileIds, nodes \in NodeList, n \in Nat : Creates(c, f, nodes, n)
  BY CreateParts
<1>2. /\ UNCHANGED <<disk, cut, known>>
      /\ gave' = [gave EXCEPT ![f] = Append(@, nodes)]
      /\ \A g \in FileIds : g # f => steady'[g] = steady[g]
      /\ \A d \in Clients : job[d].op # "write"
  BY <1>1 DEF Creates, Calls, TypeOK
<1>3. /\ job'[c].op = "write" /\ job'[c].file = f /\ job'[c].nodes = nodes
      /\ job'[c].base = Len(content[f]) + 1 /\ job'[c].at = 1 /\ job'[c].link = "none"
      /\ \A d \in Clients : d # c => job'[d].op # "write"
  <2>1. Begin(c, "write", f, nodes, Ids(0, n))
    BY <1>1 DEF Creates
  <2> QED
    BY <1>2, <2>1, BeginFields
<1>4. BrokenNotSteady'
  BY <1>3 DEF BrokenNotSteady
<1>5. ASSUME NEW g \in FileIds, Sole(g)', g \notin cut, g # f PROVE Kept(g)'
  <2>1. content'[g] = content[g]
    BY <1>1, <1>5 DEF Creates, HandOver, TypeOK
  <2>2. Sole(g)
    BY <1>2, <1>5 DEF Sole, TypeOK
  <2>3. \A m \in steady[g] : /\ Len(disk[m][g]) >= Len(content[g])
                             /\ \A p \in DOMAIN disk[m][g] : disk[m][g][p] = p
    BY <1>2, <1>5, <2>2, WriteStartsKept
  <2> QED
    BY <1>2, <1>3, <1>5, <2>1, <2>3 DEF Kept
<1>6. ASSUME Sole(f)' PROVE Kept(f)'
  <2>1. gave[f] = << >> /\ gave'[f][1] = nodes
    BY <1>2, <1>6 DEF Sole, TypeOK
  <2>2. content[f] = << >> /\ known[f] < 1
    BY <2>1 DEF SteadyInv, Given, TypeOK
  <2>3. \A m \in Nodes : disk[m][f] = << >>
    <3>1. ASSUME NEW m \in Nodes PROVE disk[m][f] = << >>
      <4>1. Len(disk[m][f]) <= 0 /\ disk[m][f] \in Seq(Nat)
        BY <2>2 DEF PrefixInv, Prefix, TypeOK
      <4> QED
        BY <4>1
    <3> QED
      BY <3>1
  <2>4. steady'[f] \subseteq Nodes
    BY <1>1, CreateType DEF TypeOK
  <2>5. job'[c].base = 1 /\ \A k \in DOMAIN nodes : ~ (k < 1)
    BY <1>3, <2>2 DEF NodeList
  <2>6. WriterKeeps(job[c])'
    BY <1>2, <1>3, <2>1, <2>2, <2>3, <2>4, <2>5 DEF WriterKeeps
  <2> QED
    BY <1>2, <1>3, <2>3, <2>4, <2>6 DEF Kept
<1> QED
  BY <1>2, <1>4, <1>5, <1>6 DEF AllKept

LEMMA OpenFailsKeeps ==
  ASSUME TypeOK, SteadyInv, NEW c \in Clients, OpenFails(c)
  PROVE  AllKept' /\ BrokenNotSteady'
<1>1. /\ UNCHANGED <<disk, cut, job, content, steady>>
      /\ gave' = [gave EXCEPT ![0] = Append(@, << >>)]
      /\ \A d \in Clients : job[d].op # "write"
  BY DEF OpenFails, Calls, servers, Zeros
<1>2. ASSUME NEW f \in FileIds, Sole(f)', f \notin cut PROVE Kept(f)'
  <2>1. CASE f # 0
    <3>1. Sole(f)
      BY <1>1, <1>2, <2>1 DEF Sole, TypeOK
    <3> QED
      BY <1>1, <1>2, <3>1, WriteStartsKept DEF Kept
  <2>2. CASE f = 0
    <3>1. gave[f] = << >>
      BY <1>1, <1>2, <2>2 DEF Sole, TypeOK
    <3>2. steady[f] = {}
      BY <3>1 DEF SteadyInv, Given
    <3> QED
      BY <1>1, <3>2 DEF Kept
  <2> QED
    BY <2>1, <2>2
<1> QED
  BY <1>1, <1>2 DEF AllKept, BrokenNotSteady

-----------------------------------------------------------------------------
(* Lists of nodes and what is known                                        *)

(* A step that makes no list and hands nothing over.                       *)
NoneGiven ==
  /\ UNCHANGED <<cache, content, gave>> /\ rows' \in {rows, << >>}
  /\ \A f \in FileIds : \/ known'[f] = known[f]
                        \/ known'[f] = Len(content[f]) /\ gave[f] # << >>
  /\ \A f \in FileIds : \A n \in steady'[f] : n \in steady[f] /\ running'[n]
  /\ JobsGiven(job')

LEMMA NoneGivenKeeps ==
  ASSUME TypeOK, TypeOK', Given, NoneGiven
  PROVE  Given'
<1>1. /\ \A d \in Clients : \A k \in DOMAIN cache'[d] :
           Among(cache'[d][k].nodes, gave'[cache'[d][k].id])
      /\ \A f \in FileIds : f + 1 \in DOMAIN rows' => Among(rows'[f + 1], gave'[f])
  BY DEF Given, NoneGiven
<1>2. ASSUME NEW f \in FileIds
      PROVE  /\ content'[f] # << >> \/ known'[f] >= 0 => gave'[f] # << >>
             /\ known'[f] <= Len(content'[f])
  <2>1. Len(content[f]) \in Nat
    BY DEF TypeOK
  <2> QED
    BY <2>1 DEF Given, NoneGiven
<1>3. \A f \in FileIds : \A n \in steady'[f] :
        running'[n] /\ \E k \in DOMAIN gave'[f] : Among(n, gave'[f][k])
  BY DEF Given, NoneGiven
<1>4. JobsGiven(job)'
  BY DEF NoneGiven, JobsGiven
<1> QED
  BY <1>1, <1>2, <1>3, <1>4 DEF Given

LEMMA BrokenGiven ==
  ASSUME NEW jobs, JobsOK(jobs), JobsGiven(jobs), NEW n
  PROVE  JobsGiven(Broken(jobs, n))
BY BrokenFields DEF JobsGiven

LEMMA OneGiven ==
  ASSUME TypeOK, JobsGiven(job), NEW c \in Clients, NEW k,
         k.op \in {"write", "read"} => gave[k.file] # << >>
  PROVE  JobsGiven([job EXCEPT ![c] = k])
BY DEF JobsGiven, TypeOK

LEMMA EndedGiven ==
  ASSUME TypeOK, JobsGiven(job), NEW c \in Clients
  PROVE  /\ JobsGiven([job EXCEPT ![c] = [Idle EXCEPT !.op = "dead"]])
         /\ JobsGiven([job EXCEPT ![c] = Idle])
<1>1. Idle.op = "idle" /\ [Idle EXCEPT !.op = "dead"].op = "dead"
  BY DEF Idle
<1> QED
  BY <1>1, OneGiven

(* A job that goes on is on the file it was on.                            *)
LEMMA SameFileGiven ==
  ASSUME TypeOK, JobsGiven(job), NEW c \in Clients, NEW link
  PROVE  /\ JobsGiven([job EXCEPT ![c] = NextNode(c)])
         /\ JobsGiven([job EXCEPT ![c] = AfterChunk(c)])
         /\ JobsGiven([job EXCEPT ![c] = [AfterChunk(c) EXCEPT !.link = link]])
         /\ JobsGiven([job EXCEPT ![c] = [job[c] EXCEPT !.link = link]])
         /\ JobsGiven(NextQuestion(c, link))
<1>1. job[c] \in Job
  BY DEF TypeOK
<1>2. \A k \in {NextNode(c), AfterChunk(c), [AfterChunk(c) EXCEPT !.link = link],
                 [job[c] EXCEPT !.link = link]} : k.op = job[c].op /\ k.file = job[c].file
  BY <1>1 DEF NextNode, AfterChunk, Job
<1>3. AfterAnswer(c, link).op \in {"write", "read"} =>
        gave[AfterAnswer(c, link).file] # << >>
  BY <1>1 DEF AfterAnswer, Idle, Job, JobsGiven
<1>4. \A k \in {NextNode(c), AfterChunk(c), [AfterChunk(c) EXCEPT !.link = link],
                 [job[c] EXCEPT !.link = link]} : k.op \in {"write", "read"} => gave[k.file] # << >>
  BY <1>2 DEF JobsGiven
<1>5. JobsGiven(NextQuestion(c, link))
  BY <1>3, OneGiven DEF NextQuestion
<1> QED
  BY <1>4, <1>5, OneGiven

LEMMA StopsGiven ==
  ASSUME TypeOK, Given, NEW n \in Nodes, NodeStops(n)
  PROVE  \A f \in FileIds : \A m \in steady'[f] : m \in steady[f] /\ running'[m]
BY DEF NodeStops, Given, TypeOK

LEMMA StepGiven ==
  ASSUME TypeOK, Given, NEW c \in Clients, Step(c)
  PROVE  NoneGiven
<1>1. JobsGiven(job) /\ \A f \in FileIds : \A n \in steady[f] : running[n]
  BY DEF Given
<1>2. ASSUME Returns(c), job[c].op \in {"write", "read"}
      PROVE  /\ JobsGiven(job')
             /\ \A f \in FileIds : \/ known'[f] = known[f]
                                   \/ known'[f] = Len(content[f]) /\ gave[f] # << >>
  BY <1>1, <1>2, EndedGiven DEF Returns, JobsGiven, TypeOK
<1>3. CASE Connect(c)
  <2>1. JobsGiven(job')
    BY <1>1, <1>3, SameFileGiven DEF Connect, TypeOK
  <2> QED
    BY <1>1, <1>3, <2>1 DEF Connect, NoneGiven, servers, history
<1>4. CASE PassNode(c)
  BY <1>1, <1>4, SameFileGiven DEF PassNode, NoneGiven, servers, history
<1>5. CASE EndCall(c)
  BY <1>1, <1>2, <1>5 DEF EndCall, Trying, NoneGiven, servers
<1>6. CASE SendChunk(c)
  <2>1. Target(c) \in Nodes /\ JobsOK([job EXCEPT ![c] = AfterChunk(c)])
    BY <1>6, ExchangeType, AfterChunkType, JobUpdate DEF SendChunk
  <2>2. JobsGiven(job')
    <3> DEFINE jobs == [job EXCEPT ![c] = AfterChunk(c)]
    <3>1. JobsOK(jobs) /\ JobsGiven(jobs)
      BY <1>1, <2>1, SameFileGiven
    <3>2. job' = jobs \/ job' = Broken(jobs, Target(c))
      BY <1>6 DEF SendChunk
    <3> HIDE DEF jobs
    <3> QED
      BY <3>1, <3>2, BrokenGiven
  <2>3. \A f \in FileIds : \A n \in steady'[f] : n \in steady[f] /\ running'[n]
    BY <1>1, <1>6, <2>1, StopsGiven DEF SendChunk
  <2> QED
    BY <1>6, <2>2, <2>3 DEF SendChunk, NoneGiven
<1>7. CASE SendFails(c)
  <2>1. /\ JobsGiven(job')
        /\ \A f \in FileIds : \/ known'[f] = known[f]
                              \/ known'[f] = Len(content[f]) /\ gave[f] # << >>
    <3>1. /\ JobsGiven([job EXCEPT ![c] = AfterChunk(c)])
          /\ JobsGiven([job EXCEPT ![c] = [AfterChunk(c) EXCEPT !.link = "reset"]])
          /\ JobsGiven([job EXCEPT ![c] = [Idle EXCEPT !.op = "dead"]])
      BY <1>1, SameFileGiven, EndedGiven
    <3>2. \/ job' = [job EXCEPT ![c] = AfterChunk(c)] /\ UNCHANGED known
          \/ job' = [job EXCEPT ![c] = [AfterChunk(c) EXCEPT !.link = "reset"]] /\ UNCHANGED known
          \/ Returns(c)
          \/ job' = [job EXCEPT ![c] = [Idle EXCEPT !.op = "dead"]] /\ UNCHANGED known
      BY <1>7 DEF SendFails, Dies
    <3>3. job[c].op \in {"write", "read"}
      BY <1>7 DEF SendFails
    <3> QED
      BY <1>2, <3>1, <3>2, <3>3
  <2> QED
    BY <1>1, <1>7, <2>1 DEF SendFails, NoneGiven, servers
<1>8. CASE AskChunk(c)
  BY <1>1, <1>8, SameFileGiven DEF AskChunk, NoneGiven, servers
<1>9. ASSUME NEW jobs, JobsOK(jobs), JobsGiven(jobs), NoAnswer(c, jobs) PROVE JobsGiven(job')
  <2>1. [Idle EXCEPT !.op = "dead"].op = "dead"
    BY DEF Idle
  <2> QED
    BY <1>9, <2>1 DEF NoAnswer, JobsGiven, JobsOK
<1>10. CASE AskMissing(c)
  <2> DEFINE jobs == NextQuestion(c, "up")
  <2>1. Target(c) \in Nodes /\ JobsOK(jobs) /\ JobsGiven(jobs)
    BY <1>1, <1>10, ExchangeType, NextQuestionType, SameFileGiven DEF AskMissing
  <2> HIDE DEF jobs
  <2>2. JobsOK(Broken(jobs, Target(c))) /\ JobsGiven(Broken(jobs, Target(c)))
    BY <2>1, BrokenType, BrokenGiven
  <2>3. JobsGiven(job')
    BY <1>9, <1>10, <2>1, <2>2 DEF AskMissing, jobs
  <2>4. \A f \in FileIds : \A n \in steady'[f] : n \in steady[f] /\ running'[n]
    BY <1>1, <1>10, <2>1, StopsGiven DEF AskMissing
  <2> QED
    BY <1>10, <2>3, <2>4 DEF AskMissing, NoneGiven
<1>11. CASE AskFails(c)
  <2>1. JobsOK(NextQuestion(c, "reset")) /\ JobsGiven(NextQuestion(c, "reset"))
    BY <1>1, <1>11, NextQuestionType, SameFileGiven DEF AskFails
  <2>2. JobsGiven(job')
    BY <1>1, <1>9, <1>11, <2>1, EndedGiven DEF AskFails, Dies
  <2> QED
    BY <1>1, <1>11, <2>2 DEF AskFails, NoneGiven, servers
<1> QED
  BY <1>3, <1>4, <1>5, <1>6, <1>7, <1>8, <1>10, <1>11 DEF Step

LEMMA FaultGiven ==
  ASSUME TypeOK, Given,
         (\E n \in Nodes : Crash(n) \/ Restart(n)) \/ MasterCrash \/ MasterRestart
  PROVE  NoneGiven
<1>1. JobsOK(job) /\ JobsGiven(job) /\ \A f \in FileIds : \A n \in steady[f] : running[n] /\ n \in Nodes
  BY TypeParts DEF Given, TypeOK
<1>2. ASSUME NEW n \in Nodes, Crash(n) PROVE NoneGiven
  BY <1>1, <1>2, BrokenGiven, StopsGiven DEF Crash, NoneGiven
<1>3. ASSUME NEW n \in Nodes, Restart(n) PROVE NoneGiven
  BY <1>1, <1>3 DEF Restart, NoneGiven, history, TypeOK
<1>4. CASE MasterCrash \/ MasterRestart
  BY <1>1, <1>4 DEF MasterCrash, MasterRestart, NoneGiven, history
<1> QED
  BY <1>2, <1>3, <1>4

LEMMA UnheardGiven ==
  ASSUME TypeOK, Given, NEW c \in Clients, Unheard(c)
  PROVE  NoneGiven
<1> DEFINE j == [Idle EXCEPT !.op = "waiting"]
<1>1. j.op = "waiting"
  BY DEF Idle
<1>2. job' = [job EXCEPT ![c] = j]
  BY DEF Unheard
<1> HIDE DEF j
<1>3. JobsGiven(job')
  BY <1>1, <1>2, OneGiven DEF Given
<1>4. UNCHANGED <<servers, cache, history>>
  BY DEF Unheard
<1> QED
  BY <1>3, <1>4 DEF Given, NoneGiven, servers, history

LEMMA CallGiven ==
  ASSUME TypeOK, TypeOK', Given, NEW c \in Clients, AppendFile(c) \/ ReadChunk(c)
  PROVE  Given'
<1>1. JobsGiven(job)
  BY DEF Given
<1>2. PICK f \in FileIds : known[f] >= 0 /\ \E op, nodes, chunks :
        \/ Dies(c) /\ content' = content
        \/ Begin(c, op, f, nodes, chunks) /\ content' = content
        \/ Begin(c, op, f, nodes, chunks) /\ \A g \in FileIds : g # f => content'[g] = content[g]
  <2>1. CASE AppendFile(c)
    <3>1. PICK f \in FileIds, id \in Nat, n \in Nat, lines \in SUBSET Nat :
            /\ known[f] \in Nat
            /\ IF MatchesUnused(c, f)
               THEN Dies(c) /\ UNCHANGED <<masterUp, blank, content>>
               ELSE /\ Begin(c, "write", f, FileNodes(c, f), Ids(id, n))
                    /\ HandOver(f, Ids(id, n), lines)
                    /\ LookUp(c, f)
      BY <2>1, AppendParts
    <3>2. HandOver(f, Ids(id, n), lines) => \A g \in FileIds : g # f => content'[g] = content[g]
      BY DEF HandOver, TypeOK
    <3> QED
      BY <3>1, <3>2
  <2>2. CASE ReadChunk(c)
    <3>1. PICK f \in FileIds, k \in Nat, n \in Nat :
            /\ n >= 1 /\ k + n <= known[f]
            /\ Dies(c) \/ Begin(c, "read", f, FileNodes(c, f), Ids(k, n))
      BY <2>2, ReadParts
    <3>2. known[f] >= 0 /\ content' = content
      BY <2>2, <3>1 DEF ReadChunk, history, TypeOK
    <3> QED
      BY <3>1, <3>2
  <2> QED
    BY <2>1, <2>2
<1>3. /\ gave[f] # << >> /\ UNCHANGED <<rows, cache, gave, known, steady, running>>
      /\ \A g \in FileIds : g # f => content'[g] = content[g]
      /\ \A g \in FileIds : known[g] <= Len(content[g])
  BY <1>2 DEF Given, AppendFile, ReadChunk, history
<1>4. JobsGiven(job')
  <2>1. CASE Dies(c)
    BY <1>1, <2>1, EndedGiven DEF Dies
  <2>2. ASSUME NEW op, NEW nodes, NEW chunks, Begin(c, op, f, nodes, chunks) PROVE JobsGiven(job')
    <3>1. job'[c].file = f /\ \A d \in Clients : d # c => job'[d] = job[d]
      BY <2>2, BeginFields
    <3> QED
      BY <1>1, <1>3, <3>1 DEF JobsGiven
  <2> QED
    BY <1>2, <2>1, <2>2
<1>5. known[f] <= Len(content'[f])
  <2>1. [Next]_vars
    BY DEF Next
  <2>2. \A p \in DOMAIN content[f] : p \in DOMAIN content'[f]
    BY <2>1, ContentGrows
  <2>3. content[f] \in Seq(Nat) /\ content'[f] \in Seq(Nat) /\ known[f] \in Nat
    BY <1>2 DEF TypeOK
  <2>4. Len(content[f]) <= Len(content'[f])
    BY <2>2, <2>3
  <2> QED
    BY <1>3, <2>3, <2>4
<1>6. \A g \in FileIds : known[g] <= Len(content'[g])
  BY <1>3, <1>5
<1> QED
  BY <1>3, <1>4, <1>6 DEF Given, JobsGiven

LEMMA OpenFailsGiven ==
  ASSUME TypeOK, Given, NEW c \in Clients, OpenFails(c)
  PROVE  Given'
<1>1. /\ UNCHANGED <<rows, cache, job, content, steady, running>> /\ 0 \in FileIds
      /\ gave' = [gave EXCEPT ![0] = Append(@, << >>)]
      /\ known' = [known EXCEPT ![0] = IF @ < 0 THEN 0 ELSE @]
  BY ConstantTypes DEF OpenFails, servers, Zeros
<1>2. ASSUME NEW f \in FileIds
      PROVE  /\ \A k \in DOMAIN gave[f] : k \in DOMAIN gave'[f] /\ gave'[f][k] = gave[f][k]
             /\ gave[f] # << >> => gave'[f] # << >>
             /\ gave'[0] # << >>
  <2>1. gave[f] \in Seq(NodeList) /\ gave[0] \in Seq(NodeList) /\ << >> \in NodeList
    BY <1>1 DEF TypeOK, NodeList
  <2>2. gave'[0] = Append(gave[0], << >>) /\ (f # 0 => gave'[f] = gave[f])
    BY <1>1 DEF TypeOK
  <2> QED
    BY <2>1, <2>2
<1>3. ASSUME NEW list, NEW f \in FileIds, Among(list, gave[f]) PROVE Among(list, gave'[f])
  BY <1>2, <1>3 DEF Among
<1>4. ASSUME NEW d \in Clients, NEW k \in DOMAIN cache'[d]
      PROVE  Among(cache'[d][k].nodes, gave'[cache'[d][k].id])
  <2> DEFINE R == [id : FileIds, nodes : NodeList]
  <2>1. cache[d] \in Seq(R) /\ k \in DOMAIN cache[d]
    BY <1>1, <1>4 DEF TypeOK
  <2>2. cache[d][k] \in R
    <3> HIDE DEF R
    <3> QED
      BY <2>1
  <2> QED
    BY <1>1, <1>3, <2>1, <2>2 DEF Given
<1>5. ASSUME NEW f \in FileIds
      PROVE  /\ f + 1 \in DOMAIN rows' => Among(rows'[f + 1], gave'[f])
             /\ \A n \in steady'[f] :
                  running'[n] /\ \E k \in DOMAIN gave'[f] : Among(n, gave'[f][k])
  BY <1>1, <1>2, <1>3 DEF Given
<1>6. ASSUME NEW f \in FileIds
      PROVE  /\ content'[f] # << >> \/ known'[f] >= 0 => gave'[f] # << >>
             /\ known'[f] <= Len(content'[f])
  <2>1. Len(content[f]) \in Nat
    BY DEF TypeOK
  <2>2. known'[f] = IF f = 0 THEN (IF known[0] < 0 THEN 0 ELSE known[0]) ELSE known[f]
    BY <1>1 DEF TypeOK
  <2> QED
    BY <1>1, <1>2, <2>1, <2>2 DEF Given
<1>7. JobsGiven(job)'
  BY <1>1, <1>2 DEF Given, JobsGiven, TypeOK, Job
<1> QED
  BY <1>4, <1>5, <1>6, <1>7 DEF Given

LEMMA CreateGiven ==
  ASSUME TypeOK, TypeOK', Given, NEW c \in Clients, CreateFile(c)
  PROVE  Given'
<1>1. PICK f \in FileIds, nodes \in NodeList, n \in Nat : Creates(c, f, nodes, n)
  BY CreateParts
<1>2. /\ gave' = [gave EXCEPT ![f] = Append(@, nodes)]
      /\ UNCHANGED <<running, known>>
      /\ cache' = [cache EXCEPT ![c] = Append(@, [id |-> f, nodes |-> nodes])]
      /\ (f = Len(rows) /\ rows' = Append(rows, nodes)) \/ rows' = rows
      /\ HandOver(f, Ids(0, n), {}) /\ Ids(0, n) \in Seq(Nat)
      /\ Begin(c, "write", f, nodes, Ids(0, n))
  BY <1>1, IdsType DEF Creates
<1>3. Among(nodes, gave'[f]) /\ gave'[f] # << >>
  <2>1. gave[f] \in Seq(NodeList) /\ gave'[f] = Append(gave[f], nodes)
    BY <1>2 DEF TypeOK
  <2> DEFINE l == Len(gave[f]) + 1
  <2>2. l \in DOMAIN Append(gave[f], nodes) /\ Append(gave[f], nodes)[l] = nodes
    BY <2>1
  <2> QED
    BY <2>1, <2>2 DEF Among
<1>4. ASSUME NEW g \in FileIds
      PROVE  /\ \A k \in DOMAIN gave[g] : k \in DOMAIN gave'[g] /\ gave'[g][k] = gave[g][k]
             /\ gave[g] # << >> => gave'[g] # << >>
  <2>1. gave[g] \in Seq(NodeList) /\ gave[f] \in Seq(NodeList)
    BY DEF TypeOK
  <2>2. gave'[f] = Append(gave[f], nodes) /\ (g # f => gave'[g] = gave[g])
    BY <1>2 DEF TypeOK
  <2> QED
    BY <2>1, <2>2
<1>5. ASSUME NEW list, NEW g \in FileIds, Among(list, gave[g]) PROVE Among(list, gave'[g])
  BY <1>4, <1>5 DEF Among
<1>6. ASSUME NEW d \in Clients, NEW k \in DOMAIN cache'[d]
      PROVE  Among(cache'[d][k].nodes, gave'[cache'[d][k].id])
  <2> DEFINE R == [id : FileIds, nodes : NodeList]
             new == [id |-> f, nodes |-> nodes]
  <2>1. cache[d] \in Seq(R)
    BY DEF TypeOK
  <2>2. new \in R /\ new.id = f /\ new.nodes = nodes
    OBVIOUS
  <2>3. cache'[d] = IF d = c THEN Append(cache[d], new) ELSE cache[d]
    BY <1>2 DEF TypeOK
  <2>4. \A l \in DOMAIN cache[d] : cache[d][l].id \in FileIds
    <3>1. \A l \in DOMAIN cache[d] : cache[d][l] \in R
      <4> HIDE DEF R
      <4> QED
        BY <2>1
    <3> QED
      BY <3>1
  <2> HIDE DEF R, new
  <2>5. CASE k \in DOMAIN cache[d]
    <3>1. cache'[d][k] = cache[d][k]
      BY <2>1, <2>2, <2>3, <2>5
    <3> QED
      BY <1>5, <2>4, <2>5, <3>1 DEF Given
  <2>6. CASE k \notin DOMAIN cache[d]
    <3>1. cache'[d][k] = new
      BY <1>6, <2>1, <2>2, <2>3, <2>6
    <3> QED
      BY <1>3, <2>2, <3>1
  <2> QED
    BY <2>5, <2>6
<1>7. ASSUME NEW g \in FileIds, g + 1 \in DOMAIN rows' PROVE Among(rows'[g + 1], gave'[g])
  <2>1. rows \in Seq(NodeList) /\ g \in Nat
    BY ConstantTypes DEF TypeOK
  <2>2. CASE g + 1 \in DOMAIN rows /\ rows'[g + 1] = rows[g + 1]
    BY <1>5, <2>2 DEF Given
  <2>3. CASE f = Len(rows) /\ rows' = Append(rows, nodes) /\ g + 1 \notin DOMAIN rows
    <3>1. g = f /\ rows'[g + 1] = nodes
      BY <1>7, <2>1, <2>3
    <3> QED
      BY <1>3, <3>1
  <2>4. CASE f = Len(rows) /\ rows' = Append(rows, nodes) /\ g + 1 \in DOMAIN rows
    <3>1. rows'[g + 1] = rows[g + 1]
      BY <2>1, <2>4
    <3> QED
      BY <2>2, <2>4, <3>1
  <2> QED
    BY <1>2, <1>7, <2>2, <2>3, <2>4
<1>8. ASSUME NEW g \in FileIds
      PROVE  /\ content'[g] # << >> \/ known'[g] >= 0 => gave'[g] # << >>
             /\ known'[g] <= Len(content'[g])
  <2>1. Len(content[g]) \in Nat /\ Len(content'[g]) \in Nat /\ known[g] \in Nat \cup {-1}
    BY DEF TypeOK
  <2>2. Len(content[g]) <= Len(content'[g])
    BY <1>2, HandedOver
  <2>3. g # f => content'[g] = content[g]
    BY <1>2 DEF HandOver, TypeOK
  <2>4. known[g] <= Len(content[g]) /\ (content[g] # << >> \/ known[g] >= 0 => gave[g] # << >>)
    BY DEF Given
  <2>5. known'[g] <= Len(content'[g])
    BY <1>2, <2>1, <2>2, <2>4
  <2> QED
    BY <1>2, <1>3, <1>4, <2>3, <2>4, <2>5
<1>9. ASSUME NEW g \in FileIds, NEW m \in steady'[g]
      PROVE  running'[m] /\ \E k \in DOMAIN gave'[g] : Among(m, gave'[g][k])
  <2>1. CASE g # f
    <3>1. m \in steady[g]
      BY <1>1, <1>9, <2>1 DEF Creates, TypeOK
    <3> QED
      BY <1>2, <1>4, <3>1 DEF Given
  <2>2. CASE g = f
    <3>1. m \in {nodes[k] : k \in {l \in DOMAIN nodes : running[nodes[l]]}}
      BY <1>1, <1>9, <2>2 DEF Creates, TypeOK
    <3>2. running'[m] /\ Among(m, nodes)
      BY <1>2, <3>1 DEF Among
    <3>3. PICK l \in DOMAIN gave'[f] : gave'[f][l] = nodes
      BY <1>3 DEF Among
    <3> QED
      BY <2>2, <3>2, <3>3
  <2> QED
    BY <2>1, <2>2
<1>10. JobsGiven(job)'
  <2>1. /\ job'[c].file = f
        /\ \A d \in Clients : d # c => job'[d] = job[d] /\ job[d].file \in FileIds
    <3>1. /\ job'[c].file = f
          /\ \A d \in Clients : d # c => job'[d] = job[d]
      BY <1>2, BeginFields
    <3> QED
      BY <3>1 DEF TypeOK, Job
  <2> QED
    BY <1>3, <1>4, <2>1 DEF Given, JobsGiven
<1> QED
  BY <1>6, <1>7, <1>8, <1>9, <1>10 DEF Given

LEMMA SteadyStep == TypeOK /\ TypeOK' /\ PrefixInv /\ SteadyInv /\ [Next]_vars => SteadyInv'
<1> SUFFICES ASSUME TypeOK, TypeOK', PrefixInv, SteadyInv, [Next]_vars PROVE SteadyInv'
  OBVIOUS
<1> USE DEF SteadyInv
<1>1. ASSUME Plain, Given' PROVE SteadyInv'
  BY <1>1, PlainKeeps, PlainNotSteady
<1>2. CASE UNCHANGED vars
  <2>1. NoneGiven
    BY <1>2 DEF Given, NoneGiven, vars, servers, history
  <2>2. Plain
    BY <1>2, SameOnward DEF Plain, vars, servers, history
  <2> QED
    BY <1>1, <2>1, <2>2, NoneGivenKeeps
<1>3. ASSUME NEW c \in Clients, CreateFile(c) PROVE SteadyInv'
  BY <1>3, CreateKeeps, CreateGiven
<1>4. ASSUME NEW c \in Clients, OpenFails(c) PROVE SteadyInv'
  BY <1>4, OpenFailsKeeps, OpenFailsGiven
<1>5. ASSUME NEW c \in Clients, AppendFile(c) PROVE SteadyInv'
  BY <1>5, AppendKeeps, CallGiven
<1>6. ASSUME NEW c \in Clients, ReadChunk(c) PROVE SteadyInv'
  BY <1>1, <1>6, OtherPlain, CallGiven
<1>7. ASSUME NEW c \in Clients, Step(c) PROVE SteadyInv'
  <2>1. Given'
    BY <1>7, StepGiven, NoneGivenKeeps
  <2> QED
    BY <1>1, <1>7, <2>1, StepPlain, EndKeeps, StoreKeeps
<1>8. CASE (\E n \in Nodes : Crash(n) \/ Restart(n)) \/ MasterCrash \/ MasterRestart
  BY <1>1, <1>8, OtherPlain, FaultGiven, NoneGivenKeeps
<1>9. ASSUME NEW c \in Clients, Unheard(c) PROVE SteadyInv'
  BY <1>1, <1>9, OtherPlain, UnheardGiven, NoneGivenKeeps
<1> QED
  BY <1>2, <1>3, <1>4, <1>5, <1>6, <1>7, <1>8, <1>9 DEF Next

LEMMA SteadyAlways == Spec => []SteadyInv
<1>1. Init => SteadyInv
  <2> SUFFICES ASSUME Init PROVE SteadyInv
    OBVIOUS
  <2>1. \A c \in Clients : cache[c] = << >> /\ job[c].op = "idle"
    BY DEF Init, Idle
  <2>2. \A f \in FileIds : /\ content[f] = << >> /\ known[f] = -1 /\ steady[f] = {}
                           /\ Len(content[f]) = 0
    BY DEF Init, Empty
  <2>3. Given
    BY <2>1, <2>2 DEF Init, Given, JobsGiven
  <2> QED
    BY <2>1, <2>2, <2>3 DEF SteadyInv, AllKept, Kept, BrokenNotSteady
<1>2. TypeOK /\ TypeOK' /\ PrefixInv /\ SteadyInv /\ [Next]_vars => SteadyInv'
  BY SteadyStep
<1> QED
  BY <1>1, <1>2, PrefixAlways, RdfsTypeCorrect, PTL DEF Spec

LEMMA SteadyHolds == TypeOK /\ PrefixInv /\ SteadyInv => SteadyReplicas
<1> SUFFICES ASSUME TypeOK, PrefixInv, SteadyInv, NEW f \in FileIds, Sole(f), f \notin cut, NEW n \in steady[f]
             PROVE  Len(disk[n][f]) >= known[f]
  BY DEF SteadyReplicas
<1>1. Kept(f) /\ known[f] <= Len(content[f])
  BY DEF SteadyInv, AllKept, Given
<1>2. Len(disk[n][f]) \in Nat /\ Len(content[f]) \in Nat /\ known[f] \in Nat \cup {-1}
  BY DEF TypeOK
<1>3. CASE \E c \in Clients : job[c].op = "write" /\ job[c].file = f
  <2>1. PICK c \in Clients : job[c].op = "write" /\ job[c].file = f
    BY <1>3
  <2>2. known[f] < job[c].base /\ Len(disk[n][f]) >= job[c].base - 1
    BY <1>1, <2>1 DEF Kept, WriterKeeps
  <2>3. job[c].base \in Nat
    BY DEF TypeOK, Job
  <2> QED
    BY <1>2, <2>2, <2>3
<1>4. CASE ~ \E c \in Clients : job[c].op = "write" /\ job[c].file = f
  BY <1>1, <1>2, <1>4 DEF Kept
<1> QED
  BY <1>3, <1>4

(* A replica that has not stopped since its file was created holds all     *)
(* that calls on it have stored, whichever others stopped and came back,   *)
(* unless a call was cut short by an error on an earlier replica.          *)
THEOREM RdfsSteadyReplicas == Spec => []SteadyReplicas
BY SteadyHolds, SteadyAlways, PrefixAlways, RdfsTypeCorrect, PTL

-----------------------------------------------------------------------------
(* Runs without faults                                                     *)

JobsCalm(jobs) ==
  \A c \in Clients :
    /\ jobs[c].link \in {"none", "up"}
    /\ c \in Cleared => jobs[c].op # "dead"
    /\ jobs[c].op \in {"write", "read"} => jobs[c].nodes = gave[jobs[c].file][1]
    /\ jobs[c].op = "read" =>
         /\ jobs[c].at = 1 /\ jobs[c].chunks # << >>
         /\ \A k \in DOMAIN jobs[c].chunks : jobs[c].chunks[k] < known[jobs[c].file]

(* While nothing has stopped every id has one create_file, all its nodes   *)
(* are steady, and a reader is let in by the first.                        *)
CalmFacts ==
  /\ masterUp /\ (\A n \in Nodes : running[n]) /\ cut = {}
  /\ \A f \in FileIds :
       IF f < Len(rows)
       THEN Sole(f) /\ \A k \in DOMAIN gave[f][1] : gave[f][1][k] \in steady[f]
       ELSE gave[f] = << >>
  /\ JobsCalm(job)
  /\ \A r \in reads : r.data = r.chunk + 1

AllBehind == \A f \in FileIds : NotAhead(f)

(* What makes CalmRunsHold inductive, beside SteadyInv.                    *)
CalmInv == Calm /\ AllBehind => CalmFacts

LEMMA GaveGrows ==
  ASSUME TypeOK, [Next]_vars, NEW f \in FileIds
  PROVE  \A k \in DOMAIN gave[f] : k \in DOMAIN gave'[f] /\ gave'[f][k] = gave[f][k]
<1>1. CASE gave' = gave
  BY <1>1
<1>2. ASSUME NEW g \in FileIds, NEW nodes \in NodeList, gave' = [gave EXCEPT ![g] = Append(@, nodes)]
      PROVE  \A k \in DOMAIN gave[f] : k \in DOMAIN gave'[f] /\ gave'[f][k] = gave[f][k]
  <2>1. gave[f] \in Seq(NodeList) /\ gave[g] \in Seq(NodeList)
    BY DEF TypeOK
  <2>2. gave'[g] = Append(gave[g], nodes) /\ (g # f => gave'[f] = gave[f])
    BY <1>2 DEF TypeOK
  <2> QED
    BY <2>1, <2>2
<1>3. ASSUME NEW c \in Clients, CreateFile(c)
      PROVE  \E g \in FileIds, nodes \in NodeList : gave' = [gave EXCEPT ![g] = Append(@, nodes)]
  BY <1>3, CreateParts DEF Creates
<1>4. ASSUME NEW c \in Clients, OpenFails(c)
      PROVE  \E g \in FileIds, nodes \in NodeList : gave' = [gave EXCEPT ![g] = Append(@, nodes)]
  <2>1. << >> \in NodeList /\ gave' = [gave EXCEPT ![0] = Append(@, << >>)]
    BY <1>4 DEF OpenFails, Zeros, NodeList
  <2> QED
    BY <2>1, ConstantTypes
<1>5. ASSUME NEW c \in Clients, AppendFile(c) \/ ReadChunk(c) \/ Unheard(c) \/ Step(c)
      PROVE  gave' = gave
  BY <1>5 DEF AppendFile, ReadChunk, Unheard, Step, Connect, PassNode, EndCall, SendChunk, SendFails,
              AskChunk, AskMissing, AskFails, history
<1>6. ASSUME (\E n \in Nodes : Crash(n) \/ Restart(n)) \/ MasterCrash \/ MasterRestart
      PROVE  gave' = gave
  BY <1>6 DEF Crash, Restart, MasterCrash, MasterRestart, history
<1>7. CASE UNCHANGED vars
  BY <1>1, <1>7 DEF vars, history
<1> QED
  BY <1>1, <1>2, <1>3, <1>4, <1>5, <1>6, <1>7 DEF Next

(* A fault is never undone.                                                *)
LEMMA FaultsGrow ==
  ASSUME TypeOK, [Next]_vars
  PROVE  \/ faults' = faults
         \/ faults' = faults + 1 /\ ((\E n \in Nodes : Crash(n)) \/ MasterCrash)
<1>1. ASSUME NEW c \in Clients,
             CreateFile(c) \/ OpenFails(c) \/ AppendFile(c) \/ ReadChunk(c) \/ Unheard(c)
      PROVE  faults' = faults
  BY <1>1 DEF CreateFile, OpenFails, AppendFile, ReadChunk, Unheard, Calls
<1>2. ASSUME NEW c \in Clients, Step(c) PROVE faults' = faults
  BY <1>2 DEF Step, Connect, PassNode, EndCall, SendChunk, SendFails, AskChunk, AskMissing, AskFails
<1> QED
  BY <1>1, <1>2 DEF Next, Crash, Restart, MasterCrash, MasterRestart, vars

LEMMA CalmBefore ==
  ASSUME TypeOK, TypeOK', [Next]_vars, Calm', AllBehind'
  PROVE  Calm /\ AllBehind /\ faults' = faults
<1>1. faults' = 0 /\ faults \in Nat
  BY DEF Calm, TypeOK
<1>2. faults = 0 /\ faults' = faults
  BY <1>1, FaultsGrow
<1>3. ASSUME NEW f \in FileIds PROVE << >> \notin {gave[f][k] : k \in DOMAIN gave[f]}
  BY GaveGrows DEF Calm
<1>4. ASSUME NEW f \in FileIds PROVE NotAhead(f)
  BY ContentGrows DEF AllBehind, NotAhead
<1> QED
  BY <1>2, <1>3, <1>4 DEF Calm, AllBehind

CalmNow == TypeOK /\ PrefixInv /\ SteadyInv /\ Calm /\ AllBehind /\ CalmFacts

LEMMA CalmFrame ==
  ASSUME TypeOK, TypeOK', CalmFacts, UNCHANGED <<masterUp, rows, running, steady, gave, cut>>,
         \A f \in FileIds : known[f] <= known'[f],
         JobsCalm(job'), \A r \in reads' : r.data = r.chunk + 1
  PROVE  CalmFacts'
<1>1. ASSUME NEW c \in Clients, job'[c].op = "read", NEW k \in DOMAIN job'[c].chunks
      PROVE  job'[c].chunks[k] < known'[job'[c].file]
  <2>1. job'[c].chunks[k] < known[job'[c].file]
    BY <1>1 DEF JobsCalm
  <2>2. job'[c].chunks \in Seq(Nat) /\ job'[c].file \in FileIds
    BY DEF TypeOK, Job
  <2>3. job'[c].chunks[k] \in Nat
    BY <1>1, <2>2
  <2>4. known[job'[c].file] \in Nat \cup {-1} /\ known'[job'[c].file] \in Nat \cup {-1}
    BY <2>2 DEF TypeOK
  <2> QED
    BY <2>1, <2>2, <2>3, <2>4
<1>2. JobsCalm(job)'
  BY <1>1 DEF JobsCalm
<1> QED
  BY <1>2 DEF CalmFacts, Sole

(* The nodes of a call are steady, and there is one.                       *)
LEMMA CalmNodes ==
  ASSUME CalmNow, NEW c \in Clients, job[c].op \in {"write", "read"}
  PROVE  /\ job[c].file \in FileIds /\ Sole(job[c].file) /\ job[c].nodes # << >>
         /\ job[c].nodes = gave[job[c].file][1]
         /\ \A k \in DOMAIN job[c].nodes : job[c].nodes[k] \in steady[job[c].file]
         /\ Kept(job[c].file)
<1> DEFINE f == job[c].file
<1>1. f \in FileIds /\ gave[f] # << >> /\ job[c].nodes = gave[f][1]
  BY DEF CalmNow, SteadyInv, Given, JobsGiven, CalmFacts, JobsCalm, TypeOK, Job
<1>2. Sole(f) /\ \A k \in DOMAIN gave[f][1] : gave[f][1][k] \in steady[f]
  BY <1>1 DEF CalmNow, CalmFacts
<1>3. gave[f][1] # << >>
  <2>1. 1 \in DOMAIN gave[f]
    BY <1>1, <1>2 DEF CalmNow, TypeOK, Sole
  <2> QED
    BY <1>1, <2>1 DEF CalmNow, Calm
<1>4. Kept(f)
  BY <1>1, <1>2 DEF CalmNow, CalmFacts, SteadyInv, AllKept
<1> QED
  BY <1>1, <1>2, <1>3, <1>4

LEMMA OneCalm ==
  ASSUME TypeOK, JobsCalm(job), NEW c \in Clients, NEW k,
         k.link \in {"none", "up"},
         c \in Cleared => k.op # "dead",
         k.op \in {"write", "read"} => k.nodes = gave[k.file][1],
         k.op = "read" => /\ k.at = 1 /\ k.chunks # << >>
                          /\ \A l \in DOMAIN k.chunks : k.chunks[l] < known[k.file]
  PROVE  JobsCalm([job EXCEPT ![c] = k])
BY DEF JobsCalm, TypeOK

LEMMA EndedCalm ==
  ASSUME TypeOK, JobsCalm(job), NEW c \in Clients
  PROVE  /\ JobsCalm([job EXCEPT ![c] = Idle])
         /\ c \notin Cleared => JobsCalm([job EXCEPT ![c] = [Idle EXCEPT !.op = "dead"]])
<1>1. ASSUME NEW k, k.op \in {"idle", "dead"}, k.link = "none", c \in Cleared => k.op # "dead"
      PROVE  JobsCalm([job EXCEPT ![c] = k])
  BY <1>1, OneCalm
<1>2. Idle.op = "idle" /\ Idle.link = "none"
  BY DEF Idle
<1> DEFINE dead == [Idle EXCEPT !.op = "dead"]
<1>3. dead.op = "dead" /\ dead.link = "none"
  BY DEF Idle
<1> HIDE DEF dead
<1>4. JobsCalm([job EXCEPT ![c] = Idle])
  BY <1>1, <1>2
<1>5. c \notin Cleared => JobsCalm([job EXCEPT ![c] = dead])
  BY <1>1, <1>3
<1> QED
  BY <1>4, <1>5 DEF dead

(* A writer's next chunk has no id ahead of its place, and the replica all *)
(* chunks before it.                                                       *)
LEMMA CalmEcho ==
  ASSUME CalmNow, NEW c \in Clients, SendChunk(c)
  PROVE  EchoSafe(Entry(c), Item(c), IsBlank(c))
<1> DEFINE j == job[c]
           place == j.base + j.next - 1
<1>1. /\ j.op = "write" /\ j.link = "up" /\ j.file \in FileIds /\ Kept(j.file) /\ WriterPlace(j)
      /\ j.at \in DOMAIN j.nodes /\ j.next \in DOMAIN j.chunks
      /\ \A k \in DOMAIN j.nodes : j.nodes[k] \in steady[j.file]
      /\ Item(c) \in Nat /\ Entry(c) \in Seq(Nat)
  BY CalmNodes, ExchangeType DEF SendChunk, CalmNow, PrefixInv
<1>2. j.base \in Nat \ {0} /\ j.next \in Nat \ {0} /\ j.chunks \in Seq(Nat)
  BY JobFields DEF CalmNow, TypeOK
<1>3. WriterKeeps(j)
  BY <1>1 DEF Kept
<1>4. Len(Entry(c)) >= j.base + j.next - 2
  BY <1>1, <1>3 DEF WriterKeeps, Entry, Target
<1>5. content[j.file][j.base - 1 + j.next] = Item(c) /\ Len(content[j.file]) = j.base - 1 + Len(j.chunks)
  BY <1>1 DEF WriterPlace, Item
<1>6. content[j.file] \in Seq(Nat)
  BY <1>1 DEF CalmNow, TypeOK
<1>7. place \in DOMAIN content[j.file] /\ j.base - 1 + j.next = place
  <2> HIDE DEF j
  <2>1. j.next <= Len(j.chunks) /\ Len(j.chunks) \in Nat
    BY <1>1, <1>2
  <2>2. place \in 1 .. (j.base - 1 + Len(j.chunks)) /\ j.base - 1 + j.next = place
    <3>1. ASSUME NEW b \in Nat \ {0}, NEW n \in Nat \ {0}, NEW len \in Nat, n <= len
          PROVE  b + n - 1 \in 1 .. (b - 1 + len) /\ b - 1 + n = b + n - 1
      BY <3>1
    <3> QED
      BY <1>2, <2>1, <3>1
  <2>3. DOMAIN content[j.file] = 1 .. (j.base - 1 + Len(j.chunks))
    BY <1>5, <1>6
  <2> QED
    BY <2>2, <2>3
<1>8. Item(c) < place
  BY <1>1, <1>5, <1>7 DEF CalmNow, AllBehind, NotAhead
<1>9. Len(Entry(c)) \in Nat /\ place = j.base + j.next - 1 /\ place \in Nat
  BY <1>1, <1>2
<1> HIDE DEF j, place
<1>10. Item(c) <= Len(Entry(c))
  BY <1>1, <1>2, <1>4, <1>8, <1>9
<1> QED
  BY <1>10 DEF EchoSafe

(* A reader asks for a chunk known to be there.                            *)
LEMMA CalmAsk ==
  ASSUME CalmNow, NEW c \in Clients, job[c].op = "read", job[c].link = "up"
  PROVE  Item(c) < Len(Entry(c)) /\ Entry(c)[Item(c) + 1] = Item(c) + 1
<1>1. /\ job[c].file \in FileIds /\ Sole(job[c].file) /\ Kept(job[c].file)
      /\ job[c].at \in DOMAIN job[c].nodes /\ job[c].next \in DOMAIN job[c].chunks
      /\ \A k \in DOMAIN job[c].nodes : job[c].nodes[k] \in steady[job[c].file]
      /\ Item(c) \in Nat /\ Entry(c) \in Seq(Nat)
  BY CalmNodes, ExchangeType DEF CalmNow
<1>2. Target(c) \in steady[job[c].file]
  BY <1>1 DEF Target
<1>3. Len(Entry(c)) >= known[job[c].file]
  BY <1>1, <1>2, SteadyHolds DEF CalmNow, CalmFacts, SteadyReplicas, Entry
<1>4. Item(c) < known[job[c].file]
  BY <1>1 DEF CalmNow, CalmFacts, JobsCalm, Item
<1>5. known[job[c].file] \in Nat \cup {-1}
  BY <1>1 DEF CalmNow, TypeOK
<1>6. Item(c) < Len(Entry(c)) /\ Item(c) + 1 \in DOMAIN Entry(c)
  BY <1>1, <1>3, <1>4, <1>5
<1> QED
  BY <1>1, <1>2, <1>6 DEF Kept, Entry

LEMMA CalmStep ==
  ASSUME CalmNow, TypeOK', NEW c \in Clients, Step(c)
  PROVE  CalmFacts'
<1>1. /\ TypeOK /\ CalmFacts /\ JobsCalm(job) /\ masterUp /\ cut = {}
      /\ (\A n \in Nodes : running[n]) /\ (\A r \in reads : r.data = r.chunk + 1)
  BY DEF CalmNow, CalmFacts
<1>2. /\ job[c] \in Job /\ job[c].link \in {"none", "up"}
      /\ \A f \in FileIds : known[f] <= known[f] /\ known[f] <= Len(content[f])
  <2>1. \A f \in FileIds : known[f] \in Nat \cup {-1} /\ known[f] <= Len(content[f])
    BY DEF CalmNow, TypeOK, SteadyInv, Given
  <2>2. \A f \in FileIds : known[f] <= known[f]
    BY <2>1
  <2> QED
    BY <1>1, <2>1, <2>2 DEF TypeOK, JobsCalm
<1>3. CASE Connect(c)
  <2>1. CASE UsesLink(c)
    <3> DEFINE k == [job[c] EXCEPT !.link = "up"]
    <3>1. /\ k.link = "up" /\ k.op = job[c].op /\ k.nodes = job[c].nodes /\ k.file = job[c].file
          /\ k.at = job[c].at /\ k.chunks = job[c].chunks
      BY <1>2 DEF Job
    <3>2. job' = [job EXCEPT ![c] = k]
      BY <1>3, <2>1 DEF Connect, TypeOK
    <3> HIDE DEF k
    <3>3. JobsCalm(job')
      BY <1>1, <3>1, <3>2, OneCalm DEF JobsCalm
    <3> QED
      BY <1>1, <1>2, <1>3, <3>3, CalmFrame DEF Connect, servers, history
  <2>2. CASE ~UsesLink(c)
    <3>1. job[c].op # "read"
      BY <1>1, <2>2 DEF JobsCalm, UsesLink
    <3>2. job' = [job EXCEPT ![c] = NextNode(c)]
      BY <1>3, <2>2 DEF Connect
    <3>3. JobsCalm(job')
      BY <1>1, <3>1, <3>2, NextNodeFields, OneCalm DEF JobsCalm
    <3> QED
      BY <1>1, <1>2, <1>3, <3>3, CalmFrame DEF Connect, servers, history
  <2> QED
    BY <2>1, <2>2
<1>4. ~ PassNode(c)
  <2>1. ASSUME PassNode(c) PROVE FALSE
    <3>1. job[c].at \in DOMAIN job[c].nodes /\ job[c].nodes \in Seq(Nodes)
      BY <1>2, <2>1, JobFields DEF PassNode, NodeList
    <3>2. Target(c) \in Nodes
      BY <3>1 DEF Target
    <3> QED
      BY <1>1, <2>1, <3>2 DEF PassNode
  <2> QED
    BY <2>1
<1>5. CASE EndCall(c)
  <2>1. job[c].op \in {"write", "read"}
    BY <1>5 DEF EndCall, Trying
  <2>2. cut' = cut /\ job[c].file \in FileIds
    BY <1>5, <2>1, CalmNodes DEF EndCall
  <2>3. \A f \in FileIds : known[f] <= known'[f]
    BY <1>1, <1>2, <1>5, <2>2 DEF EndCall, Returns, TypeOK
  <2>4. JobsCalm(job')
    BY <1>1, <1>5, EndedCalm DEF EndCall, Returns
  <2> QED
    BY <1>1, <1>5, <2>2, <2>3, <2>4, CalmFrame DEF EndCall, servers
<1>6. CASE SendChunk(c)
  <2>1. /\ job' = [job EXCEPT ![c] = AfterChunk(c)] /\ job[c].op = "write"
        /\ UNCHANGED <<masterUp, rows, running, steady, gave, cut, known, reads>>
    BY <1>6, CalmEcho DEF SendChunk
  <2>2. JobsCalm(job')
    BY <1>1, <1>2, <2>1, AfterChunkFields, OneCalm DEF JobsCalm
  <2> QED
    BY <1>1, <1>2, <2>1, <2>2, CalmFrame
<1>7. ~ SendFails(c) /\ ~ AskFails(c)
  BY <1>2 DEF SendFails, AskFails
<1>8. ~ AskMissing(c)
  <2>1. ASSUME AskMissing(c) PROVE FALSE
    <3>1. Item(c) < Len(Entry(c)) /\ Item(c) >= Len(Entry(c))
      BY <2>1, CalmAsk DEF AskMissing
    <3>2. Item(c) \in Nat /\ Entry(c) \in Seq(Nat)
      BY <1>1, <2>1, ExchangeType DEF AskMissing
    <3> QED
      BY <3>1, <3>2
  <2> QED
    BY <2>1
<1>9. CASE AskChunk(c)
  <2>1. /\ job' = [job EXCEPT ![c] = AfterAnswer(c, "up")] /\ job[c].op = "read"
        /\ reads' = reads \cup {[file |-> job[c].file, chunk |-> Item(c), data |-> Item(c) + 1]}
        /\ UNCHANGED <<masterUp, rows, running, steady, gave, cut, known>>
    BY <1>9, CalmAsk DEF AskChunk, Got, read_chunk, NextQuestion, servers
  <2>2. \A r \in reads' : r.data = r.chunk + 1
    BY <1>1, <2>1
  <2> DEFINE k == AfterAnswer(c, "up")
  <2>3. /\ k.link \in {"none", "up"} /\ k.op # "dead"
        /\ k.op \in {"write", "read"} =>
             /\ k.op = "read" /\ k.nodes = job[c].nodes /\ k.file = job[c].file
             /\ k.at = job[c].at /\ k.chunks = job[c].chunks
    BY <1>2, <2>1 DEF AfterAnswer, Idle, Job
  <2> HIDE DEF k
  <2>4. JobsCalm([job EXCEPT ![c] = k])
    BY <1>1, <2>1, <2>3, OneCalm DEF JobsCalm
  <2> QED
    BY <1>1, <1>2, <2>1, <2>2, <2>4, CalmFrame DEF k
<1> QED
  BY <1>3, <1>4, <1>5, <1>6, <1>7, <1>8, <1>9 DEF Step

(* A file whose id a program has is one the master knows.                  *)
LEMMA CalmFile ==
  ASSUME CalmNow, NEW c \in Clients, NEW f \in FileIds, known[f] >= 0
  PROVE  Known(f) /\ FileNodes(c, f) = gave[f][1]
<1>1. f < Len(rows) /\ Sole(f) /\ masterUp
  BY DEF CalmNow, CalmFacts, SteadyInv, Given
<1>2. Known(f)
  BY <1>1 DEF Known
<1>3. Among(FileNodes(c, f), gave[f])
  BY <1>2, FileNodesFrom DEF CalmNow, SteadyInv, Given
<1>4. \A list : Among(list, gave[f]) => list = gave[f][1]
  BY <1>1 DEF Among, Sole, CalmNow, TypeOK
<1> QED
  BY <1>2, <1>3, <1>4

LEMMA CalmCall ==
  ASSUME CalmNow, TypeOK', NEW c \in Clients, AppendFile(c) \/ ReadChunk(c)
  PROVE  CalmFacts'
<1>1. /\ TypeOK /\ CalmFacts /\ JobsCalm(job) /\ masterUp
      /\ (\A r \in reads : r.data = r.chunk + 1)
      /\ \A f \in FileIds : known[f] <= known[f]
  <2>1. \A f \in FileIds : known[f] \in Nat \cup {-1}
    BY DEF CalmNow, TypeOK
  <2> QED
    BY <2>1 DEF CalmNow, CalmFacts
<1>2. UNCHANGED <<rows, running, steady, gave, cut, known, reads>>
  BY DEF AppendFile, ReadChunk, history
<1>3. ASSUME masterUp', JobsCalm(job') PROVE CalmFacts'
  BY <1>1, <1>2, <1>3, CalmFrame DEF TypeOK
<1>4. ASSUME NEW f, Dies(c), MatchesUnused(c, f), masterUp' PROVE CalmFacts'
  <2>1. c \notin Cleared
    BY <1>4 DEF MatchesUnused
  <2>2. JobsCalm(job')
    BY <1>1, <1>4, <2>1, EndedCalm DEF Dies
  <2> QED
    BY <1>3, <1>4, <2>2
<1>5. CASE AppendFile(c)
  <2>1. PICK f \in FileIds, id \in Nat, n \in Nat, lines \in SUBSET Nat :
          /\ known[f] \in Nat
          /\ IF MatchesUnused(c, f)
             THEN Dies(c) /\ UNCHANGED <<masterUp, blank, content>>
             ELSE /\ Begin(c, "write", f, FileNodes(c, f), Ids(id, n))
                  /\ HandOver(f, Ids(id, n), lines)
                  /\ LookUp(c, f)
    BY <1>1, <1>5, AppendParts
  <2>2. Known(f) /\ FileNodes(c, f) = gave[f][1]
    BY <2>1, CalmFile
  <2>3. CASE MatchesUnused(c, f)
    BY <1>1, <1>4, <2>1, <2>3
  <2>4. CASE ~MatchesUnused(c, f)
    <3>1. masterUp'
      BY <1>1, <2>1, <2>2, <2>4 DEF LookUp
    <3>2. /\ job'[c].op = "write" /\ job'[c].file = f /\ job'[c].nodes = gave[f][1]
          /\ job'[c].link = "none" /\ \A d \in Clients : d # c => job'[d] = job[d]
      <4>1. Begin(c, "write", f, FileNodes(c, f), Ids(id, n))
        BY <2>1, <2>4
      <4> QED
        BY <1>1, <2>2, <4>1, BeginFields
    <3>3. JobsCalm(job')
      BY <1>1, <3>2 DEF JobsCalm
    <3> QED
      BY <1>3, <3>1, <3>3
  <2> QED
    BY <2>3, <2>4
<1>6. CASE ReadChunk(c)
  <2>1. PICK f \in FileIds, k \in Nat, n \in Nat :
          /\ n >= 1 /\ k + n <= known[f]
          /\ IF MatchesUnused(c, f)
             THEN Dies(c) /\ UNCHANGED masterUp
             ELSE Begin(c, "read", f, FileNodes(c, f), Ids(k, n)) /\ LookUp(c, f)
    BY <1>1, <1>6, ReadParts
  <2>2. known[f] \in Nat
    BY <1>1, <2>1 DEF TypeOK
  <2>3. Known(f) /\ FileNodes(c, f) = gave[f][1]
    BY <2>2, CalmFile
  <2>4. CASE MatchesUnused(c, f)
    BY <1>1, <1>4, <2>1, <2>4
  <2>5. CASE ~MatchesUnused(c, f)
    <3>1. masterUp'
      BY <1>1, <2>1, <2>3, <2>5 DEF LookUp
    <3>2. /\ job'[c].op = "read" /\ job'[c].file = f /\ job'[c].nodes = gave[f][1]
          /\ job'[c].link = "none" /\ job'[c].at = 1 /\ job'[c].chunks = Ids(k, n)
          /\ \A d \in Clients : d # c => job'[d] = job[d]
      <4>1. Begin(c, "read", f, FileNodes(c, f), Ids(k, n))
        BY <2>1, <2>5
      <4> QED
        BY <1>1, <2>3, <4>1, BeginFields
    <3>3. Ids(k, n) # << >> /\ \A l \in DOMAIN Ids(k, n) : Ids(k, n)[l] < known[f]
      <4>1. /\ Ids(k, n) \in Seq(Nat) /\ Len(Ids(k, n)) = n
            /\ \A l \in 1 .. n : Ids(k, n)[l] = k + l - 1
        BY IdsType
      <4>2. DOMAIN Ids(k, n) = 1 .. n
        BY <4>1
      <4>3. \A l \in 1 .. n : k + l - 1 < known[f]
        BY <2>1, <2>2
      <4>4. Ids(k, n) # << >>
        <5>1. Len(<< >>) = 0 /\ Len(Ids(k, n)) # 0
          BY <2>1, <4>1
        <5> QED
          BY <5>1, Zenon
      <4>5. \A l \in DOMAIN Ids(k, n) : Ids(k, n)[l] < known[f]
        BY <4>1, <4>2, <4>3
      <4> QED
        BY <4>4, <4>5
    <3>4. JobsCalm(job')
      BY <1>1, <3>2, <3>3 DEF JobsCalm
    <3> QED
      BY <1>3, <3>1, <3>4
  <2> QED
    BY <2>4, <2>5
<1> QED
  BY <1>5, <1>6

(* A list without nodes is no longer calm.                                 *)
LEMMA GaveNone ==
  ASSUME TypeOK, NEW f \in FileIds, gave' = [gave EXCEPT ![f] = Append(@, << >>)]
  PROVE  ~ Calm'
<1>1. gave[f] \in Seq(NodeList) /\ gave'[f] = Append(gave[f], << >>) /\ << >> \in NodeList
  BY DEF TypeOK, NodeList
<1> DEFINE l == Len(gave[f]) + 1
<1>2. l \in DOMAIN Append(gave[f], << >>) /\ Append(gave[f], << >>)[l] = << >>
  BY <1>1
<1>3. \E k \in DOMAIN gave'[f] : gave'[f][k] = << >>
  BY <1>1, <1>2
<1> QED
  BY <1>3 DEF Calm

LEMMA CalmCreate ==
  ASSUME CalmNow, TypeOK', Calm', NEW c \in Clients, CreateFile(c)
  PROVE  CalmFacts'
<1>1. /\ TypeOK /\ CalmFacts /\ JobsCalm(job) /\ masterUp /\ cut = {}
      /\ (\A m \in Nodes : running[m]) /\ \A r \in reads : r.data = r.chunk + 1
  BY DEF CalmNow, CalmFacts
<1>2. PICK f \in FileIds, nodes \in NodeList, n \in Nat : Creates(c, f, nodes, n)
  BY <1>1, CreateParts
<1>3. nodes # << >>
  <2>1. ASSUME nodes = << >> PROVE FALSE
    <3>1. gave' = [gave EXCEPT ![f] = Append(@, << >>)]
      BY <1>2, <2>1 DEF Creates
    <3> QED
      BY <1>1, <3>1, GaveNone
  <2> QED
    BY <2>1
<1>4. masterUp' /\ f = Len(rows) /\ rows' = Append(rows, nodes) /\ f \in Nat
  BY <1>2, <1>3, ConstantTypes DEF Creates
<1>5. gave[f] = << >>
  BY <1>1, <1>4 DEF CalmFacts
<1>6. gave'[f] = << nodes >> /\ \A g \in FileIds : g # f => gave'[g] = gave[g] /\ steady'[g] = steady[g]
  <2>1. gave'[f] = Append(gave[f], nodes) /\ \A g \in FileIds : g # f => gave'[g] = gave[g] /\ steady'[g] = steady[g]
    BY <1>1, <1>2 DEF Creates, TypeOK
  <2> QED
    BY <1>5, <2>1
<1>7. ASSUME NEW k \in DOMAIN nodes PROVE nodes[k] \in steady'[f]
  <2>1. steady'[f] = {nodes[l] : l \in {l \in DOMAIN nodes : running[nodes[l]]}}
    BY <1>1, <1>2 DEF Creates, TypeOK
  <2>2. nodes[k] \in Nodes
    BY DEF NodeList
  <2> QED
    BY <1>1, <2>1, <2>2
<1>8. ASSUME NEW g \in FileIds
      PROVE  IF g < Len(rows')
             THEN Sole(g)' /\ \A k \in DOMAIN gave'[g][1] : gave'[g][1][k] \in steady'[g]
             ELSE gave'[g] = << >>
  <2>1. g \in Nat /\ Len(rows') = f + 1
    <3>1. rows \in Seq(NodeList)
      BY <1>1 DEF TypeOK
    <3> QED
      BY <1>4, <3>1, ConstantTypes
  <2>2. CASE g = f
    <3>1. Sole(f)' /\ gave'[f][1] = nodes /\ f < Len(rows')
      BY <1>4, <1>6, <2>1 DEF Sole
    <3> QED
      BY <1>7, <2>2, <3>1
  <2>3. CASE g # f
    <3>1. g < Len(rows') <=> g < Len(rows)
      BY <1>4, <2>1, <2>3
    <3> QED
      BY <1>1, <1>6, <2>3, <3>1 DEF CalmFacts, Sole
  <2> QED
    BY <2>2, <2>3
<1>9. JobsCalm(job)'
  <2>1. /\ job'[c].op = "write" /\ job'[c].file = f /\ job'[c].nodes = nodes
        /\ job'[c].link = "none" /\ \A d \in Clients : d # c => job'[d] = job[d]
    <3>1. Begin(c, "write", f, nodes, Ids(0, n))
      BY <1>2 DEF Creates
    <3> QED
      BY <1>1, <3>1, BeginFields
  <2>2. ASSUME NEW d \in Clients, d # c, job[d].op \in {"write", "read"}
        PROVE  gave'[job[d].file] = gave[job[d].file]
    <3>1. job[d].file \in FileIds /\ gave[job[d].file] # << >>
      BY <2>2 DEF CalmNow, SteadyInv, Given, JobsGiven, TypeOK, Job
    <3> QED
      BY <1>5, <1>6, <3>1
  <2>3. known' = known /\ gave'[f][1] = nodes
    BY <1>2, <1>6 DEF Creates
  <2> QED
    BY <1>1, <2>1, <2>2, <2>3 DEF JobsCalm
<1>10. UNCHANGED <<running, cut, reads>>
  BY <1>2 DEF Creates
<1> QED
  BY <1>1, <1>4, <1>8, <1>9, <1>10 DEF CalmFacts

LEMMA CalmNext ==
  TypeOK /\ TypeOK' /\ PrefixInv /\ SteadyInv /\ CalmInv /\ [Next]_vars => CalmInv'
<1> SUFFICES ASSUME TypeOK, TypeOK', PrefixInv, SteadyInv, CalmInv, [Next]_vars, Calm', AllBehind'
             PROVE  CalmFacts'
  BY DEF CalmInv
<1>1. CalmNow /\ faults' = faults
  BY CalmBefore DEF CalmInv, CalmNow
<1>2. /\ masterUp /\ (\A n \in Nodes : running[n])
      /\ \A f \in FileIds : known[f] <= known[f]
      /\ JobsCalm(job) /\ (\A r \in reads : r.data = r.chunk + 1) /\ CalmFacts
  <2>1. \A f \in FileIds : known[f] \in Nat \cup {-1}
    BY DEF TypeOK
  <2> QED
    BY <1>1, <2>1 DEF CalmNow, CalmFacts
<1>3. CASE UNCHANGED vars
  BY <1>2, <1>3, CalmFrame DEF vars, servers, history
<1>4. ASSUME NEW c \in Clients, CreateFile(c) PROVE CalmFacts'
  BY <1>1, <1>4, CalmCreate
<1>5. ASSUME NEW c \in Clients PROVE ~ OpenFails(c)
  <2>1. ASSUME OpenFails(c) PROVE FALSE
    <3>1. gave' = [gave EXCEPT ![0] = Append(@, << >>)]
      BY <2>1 DEF OpenFails, Zeros
    <3> QED
      BY <3>1, ConstantTypes, GaveNone
  <2> QED
    BY <2>1
<1>6. ASSUME NEW c \in Clients, AppendFile(c) \/ ReadChunk(c) PROVE CalmFacts'
  BY <1>1, <1>6, CalmCall
<1>7. ASSUME NEW c \in Clients, Step(c) PROVE CalmFacts'
  BY <1>1, <1>7, CalmStep
<1>8. ~ (\E n \in Nodes : Crash(n) \/ Restart(n)) /\ ~ MasterCrash /\ ~ MasterRestart
  <2>1. faults' # faults + 1
    BY <1>1 DEF TypeOK
  <2>2. \A n \in Nodes : ~ Crash(n) /\ ~ Restart(n)
    BY <1>2, <2>1 DEF Crash, Restart
  <2>3. ~ MasterCrash /\ ~ MasterRestart
    BY <1>2, <2>1 DEF MasterCrash, MasterRestart
  <2> QED
    BY <2>2, <2>3
<1>9. ASSUME NEW c \in Clients, Unheard(c) PROVE CalmFacts'
  <2> DEFINE j == [Idle EXCEPT !.op = "waiting"]
  <2>1. UNCHANGED <<servers, cache, history>> /\ job' = [job EXCEPT ![c] = j]
    BY <1>9 DEF Unheard
  <2>2. j.link \in {"none", "up"} /\ j.op \notin {"write", "read", "dead"}
    BY DEF Idle
  <2> HIDE DEF j
  <2>3. JobsCalm([job EXCEPT ![c] = j])
    BY <1>2, <2>2, OneCalm
  <2> QED
    BY <1>2, <2>1, <2>3, CalmFrame DEF servers, history
<1> QED
  BY <1>3, <1>4, <1>5, <1>6, <1>7, <1>8, <1>9 DEF Next

(* As long as nothing has stopped, every create_file found enough hosts    *)
(* and no chunk has an id ahead of its place, no server stops by itself,   *)
(* no program that clears files[] dies, and every read is answered right.  *)
THEOREM RdfsCalmRunsHold == Spec => []CalmRunsHold
<1>1. Init => CalmInv
  <2> SUFFICES ASSUME Init PROVE CalmFacts
    BY DEF CalmInv
  <2>1. \A c \in Clients : job[c] = Idle
    BY DEF Init
  <2>2. Idle.op = "idle" /\ Idle.link = "none"
    BY DEF Idle
  <2>3. JobsCalm(job)
    BY <2>1, <2>2 DEF JobsCalm
  <2>4. ASSUME NEW f \in FileIds PROVE ~ (f < Len(rows)) /\ gave[f] = << >>
    <3>1. f \in Nat /\ Len(rows) = 0 /\ gave[f] = << >>
      BY ConstantTypes DEF Init, Empty
    <3> QED
      BY <3>1
  <2> QED
    BY <2>3, <2>4 DEF Init, CalmFacts
<1>2. TypeOK /\ TypeOK' /\ PrefixInv /\ SteadyInv /\ CalmInv /\ [Next]_vars => CalmInv'
  BY CalmNext
<1>3. CalmInv => CalmRunsHold
  BY RdfsAssumption DEF CalmInv, CalmFacts, JobsCalm, CalmRunsHold, AllBehind
<1> QED
  BY <1>1, <1>2, <1>3, SteadyAlways, PrefixAlways, RdfsTypeCorrect, PTL DEF Spec
=============================================================================
