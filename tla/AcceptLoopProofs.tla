-------------------------- MODULE AcceptLoopProofs --------------------------
(***************************************************************************)
(* Theorems about AcceptLoop, for every number of connections: its types   *)
(* hold with any number of clients, and a client that has the server to    *)
(* itself is served by a thread of its own, whose descriptor is closed     *)
(* only when the client has left.                                          *)
(***************************************************************************)
EXTENDS AcceptLoop, SequenceTheorems, TLAPS

-----------------------------------------------------------------------------
(* Type correctness, with any number of clients                            *)

LEMMA NotNone == None \notin Connections /\ None \notin Descriptors
BY AcceptAssumption DEF None, Connections, Descriptors

(* A thread that has yet to read new_socket.                               *)
Created == \E j \in Connections : thread[j] = "created"

(* What makes TypeOK inductive: nothing is spawned, and no thread waits to *)
(* read new_socket, before something was accepted into it.                 *)
TypeInv == TypeOK /\ (~accepting \/ Created => new_socket \in Descriptors)

LEMMA TypeInvStep == TypeInv /\ [Next]_vars => TypeInv'
<1> SUFFICES ASSUME TypeInv, [Next]_vars PROVE TypeInv'
  OBVIOUS
<1>0. TypeOK /\ (~accepting \/ Created => new_socket \in Descriptors)
  BY DEF TypeInv
<1>1. ASSUME NEW c \in Clients, Connect(c) PROVE TypeInv'
  <2>1. PICK k \in Connections :
          /\ connection' = [connection EXCEPT ![c] = k]
          /\ stage' = [stage EXCEPT ![k] = "asked"]
          /\ backlog' = Append(backlog, k)
    BY <1>1 DEF Connect
  <2> QED
    BY <1>0, <1>1, <2>1 DEF Connect, TypeInv, TypeOK, Created
<1>2. ASSUME NEW c \in Clients, Leave(c) \/ Stopped(c) PROVE TypeInv'
  BY <1>0, <1>2 DEF Leave, Stopped, TypeInv, TypeOK, Created
<1>3. CASE Accept
  <2>1. PICK d \in Descriptors : descriptor' = [descriptor EXCEPT ![d] = Head(backlog)] /\ new_socket' = d
    BY <1>3 DEF Accept
  <2>2. Head(backlog) \in Connections /\ Tail(backlog) \in Seq(Connections)
    BY <1>0, <1>3 DEF Accept, TypeOK
  <2> QED
    BY <1>0, <1>3, <2>1, <2>2 DEF Accept, TypeInv, TypeOK
<1>4. CASE Spawn
  <2>1. PICK j \in Connections : thread' = [thread EXCEPT ![j] = "created"]
    BY <1>4 DEF Spawn
  <2> QED
    BY <1>0, <1>4, <2>1 DEF Spawn, TypeInv, TypeOK
<1>5. ASSUME NEW j \in Connections, CopySocket(j) PROVE TypeInv'
  <2>1. new_socket \in Descriptors
    BY <1>0, <1>5 DEF CopySocket, Created
  <2>2. /\ thread' \in [Connections -> {"none", "created", "serving", "closing", "ended"}]
        /\ sock' \in [Connections -> Descriptors \cup {None}]
        /\ sock'[j] = new_socket
        /\ \A m \in Connections \ {j} : thread'[m] = thread[m] /\ sock'[m] = sock[m]
    BY <1>0, <1>5, <2>1 DEF CopySocket, TypeOK
  <2> QED
    BY <1>0, <1>5, <2>1, <2>2 DEF CopySocket, TypeInv, TypeOK
<1>6. ASSUME NEW j \in Connections, Answer(j) PROVE TypeInv'
  BY <1>0, <1>6 DEF Answer, TypeInv, TypeOK, Created
<1>7. ASSUME NEW j \in Connections, EndOfInput(j) \/ CloseSocket(j) PROVE TypeInv'
  <2>1. /\ thread' \in [Connections -> {"none", "created", "serving", "closing", "ended"}]
        /\ \A m \in Connections : thread'[m] # thread[m] =>
             m = j /\ thread[m] \in {"serving", "closing"} /\ thread'[m] # "created"
    BY <1>0, <1>7 DEF EndOfInput, CloseSocket, TypeOK
  <2>2. descriptor' \in [Descriptors -> Connections \cup {None}]
    BY <1>0, <1>7 DEF EndOfInput, CloseSocket, TypeOK
  <2>3. UNCHANGED <<connection, stage, backlog, new_socket, accepting, sock>>
    BY <1>7 DEF EndOfInput, CloseSocket
  <2> QED
    BY <1>0, <2>1, <2>2, <2>3 DEF TypeInv, TypeOK, Created
<1>8. ASSUME NEW j \in Connections, GiveUp(j) PROVE TypeInv'
  <2>1. /\ thread' \in [Connections -> {"none", "created", "serving", "closing", "ended"}]
        /\ \A m \in Connections : thread'[m] # thread[m] =>
             m = j /\ thread[m] = "serving" /\ thread'[m] = "ended"
    BY <1>0, <1>8 DEF GiveUp, TypeOK
  <2>2. stage' \in [Connections -> {"new", "asked", "answered", "dropped", "left"}]
    BY <1>0, <1>8 DEF GiveUp, TypeOK
  <2>3. UNCHANGED <<connection, backlog, descriptor, new_socket, accepting, sock>>
    BY <1>8 DEF GiveUp
  <2> QED
    BY <1>0, <2>1, <2>2, <2>3 DEF TypeInv, TypeOK, Created
<1>9. CASE UNCHANGED vars
  BY <1>0, <1>9 DEF vars, TypeInv, TypeOK, Created
<1> QED
  BY <1>1, <1>2, <1>3, <1>4, <1>5, <1>6, <1>7, <1>8, <1>9 DEF Next, Run

LEMMA TypeInvariant == Spec => []TypeInv
<1>1. Init => TypeInv
  BY DEF Init, TypeInv, TypeOK, Created
<1> QED
  BY <1>1, TypeInvStep, PTL DEF Spec

(* However many clients connect, main, the kernel and the threads keep     *)
(* their types: no thread serves before a descriptor was accepted for it.  *)
THEOREM AcceptTypeCorrect == Spec => []TypeOK
<1>1. TypeInv => TypeOK
  BY DEF TypeInv
<1> QED
  BY <1>1, TypeInvariant, PTL

-----------------------------------------------------------------------------
(* One client: a thread and a descriptor for every connection              *)

(* The server has one client, or none.                                     *)
Alone == \A c, d \in Clients : c = d

(* Thread j works on the descriptor it has copied.                         *)
Works(j) == thread[j] \in {"serving", "closing"}

(* What was accepted last has no thread that has read it.                  *)
Unread == ~accepting \/ Created

(* A connection that waits for a thread is the client's: it is the only    *)
(* one in the backlog, or it is accepted, and then one thread at most is   *)
(* waiting to read new_socket, or still to be created.                     *)
OnePending ==
  /\ Len(backlog) <= 1
  /\ backlog # << >> => ~Unread
  /\ ~accepting => ~Created
  /\ \A j, k \in Connections : thread[j] = "created" /\ thread[k] = "created" => j = k

(* Until a thread has it, the pending connection is still asked, stands    *)
(* under one descriptor once accepted, and no thread works on that one.    *)
PendingAsked ==
  /\ backlog # << >> =>
       /\ stage[backlog[1]] = "asked"
       /\ \A d \in Descriptors : descriptor[d] # backlog[1]
  /\ Unread =>
       /\ descriptor[new_socket] # None
       /\ stage[descriptor[new_socket]] = "asked"
       /\ \A j \in Connections : Works(j) => sock[j] # new_socket

(* A connection in use is its client's, has been made, and is open under   *)
(* one descriptor.                                                         *)
OwnConnection ==
  /\ \A k \in Connections :
       stage[k] \in {"asked", "answered", "dropped"} => \E c \in Clients : connection[c] = k
  /\ \A d \in Descriptors : descriptor[d] # None => stage[descriptor[d]] # "new"
  /\ \A d, e \in Descriptors : descriptor[d] # None /\ descriptor[d] = descriptor[e] => d = e

(* The descriptor of a thread at work is open, and its own; when it is     *)
(* about to be closed its client has left.                                 *)
OwnSocket ==
  /\ \A j \in Connections : Works(j) => descriptor[sock[j]] # None
  /\ \A j \in Connections : thread[j] = "closing" => stage[descriptor[sock[j]]] = "left"
  /\ OneThreadPerConnection

AloneInv == OnePending /\ PendingAsked /\ OwnConnection /\ OwnSocket

LEMMA AloneInvStep ==
  ASSUME Alone, TypeInv, AloneInv, [Next]_vars
  PROVE  AloneInv'
<1>0. /\ TypeOK
      /\ Unread => new_socket \in Descriptors
      /\ \A j \in Connections : Works(j) => sock[j] \in Descriptors
  BY DEF TypeInv, TypeOK, Unread, Works
<1> USE NotNone
<1>1. ASSUME NEW c \in Clients, Connect(c) PROVE AloneInv'
  <2>1. PICK k \in Connections :
          /\ stage[k] = "new"
          /\ connection' = [connection EXCEPT ![c] = k]
          /\ stage' = [stage EXCEPT ![k] = "asked"]
          /\ backlog' = Append(backlog, k)
    BY <1>1 DEF Connect
  <2>2. \A m \in Connections : stage[m] \notin {"asked", "answered", "dropped"}
    BY <1>1 DEF Connect, AloneInv, OwnConnection, Alone
  <2>3. backlog = << >> /\ ~Unread
    BY <1>0, <2>2 DEF AloneInv, PendingAsked, TypeOK
  <2>4. backlog' = <<k>> /\ ~Unread'
    BY <1>1, <2>1, <2>3 DEF Connect, Unread, Created
  <2>5. \A d \in Descriptors : descriptor[d] # k
    BY <1>0, <2>1 DEF AloneInv, OwnConnection
  <2>6. /\ stage'[k] = "asked" /\ connection'[c] = k
        /\ \A m \in Connections \ {k} : stage'[m] = stage[m]
    BY <1>0, <2>1 DEF TypeOK
  <2>7. UNCHANGED <<descriptor, new_socket, accepting, thread, sock>>
    BY <1>1 DEF Connect
  <2>8. OnePending'
    BY <2>3, <2>4, <2>7 DEF OnePending, Unread, Created
  <2>9. PendingAsked'
    BY <2>4, <2>5, <2>6, <2>7 DEF PendingAsked
  <2>10. OwnConnection'
    BY <1>0, <2>2, <2>5, <2>6, <2>7 DEF AloneInv, OwnConnection, TypeOK
  <2>11. OwnSocket'
    BY <1>0, <2>5, <2>6, <2>7 DEF AloneInv, OwnSocket, OneThreadPerConnection, Works, TypeOK
  <2> QED
    BY <2>8, <2>9, <2>10, <2>11 DEF AloneInv
<1>2. ASSUME NEW c \in Clients, Leave(c) \/ Stopped(c) PROVE AloneInv'
  <2> DEFINE k == connection[c]
  <2>1. /\ k \in Connections /\ stage[k] \in {"answered", "dropped"}
        /\ stage'[k] = "left"
        /\ \A m \in Connections \ {k} : stage'[m] = stage[m]
    BY <1>0, <1>2 DEF Leave, Stopped, TypeOK
  <2>2. \A m \in Connections \ {k} : stage[m] \notin {"asked", "answered", "dropped"}
    BY DEF AloneInv, OwnConnection, Alone
  <2> HIDE DEF k
  <2>3. UNCHANGED <<backlog, descriptor, new_socket, accepting, thread, sock>>
    BY <1>2 DEF Leave, Stopped
  <2>4. backlog = << >> /\ ~Unread
    <3>1. \A m \in Connections : stage[m] # "asked"
      BY <2>1, <2>2
    <3> QED
      BY <1>0, <3>1 DEF AloneInv, PendingAsked, TypeOK
  <2>5. OnePending' /\ PendingAsked'
    BY <2>3, <2>4 DEF AloneInv, OnePending, PendingAsked, Unread, Created
  <2>6. OwnConnection'
    BY <1>0, <2>1, <2>2, <2>3 DEF AloneInv, OwnConnection, TypeOK
  <2>7. OwnSocket'
    BY <1>0, <2>1, <2>3 DEF AloneInv, OwnSocket, OneThreadPerConnection, Works, TypeOK
  <2> QED
    BY <2>5, <2>6, <2>7 DEF AloneInv
<1>3. CASE Accept
  <2> DEFINE k == Head(backlog)
  <2>1. PICK d \in Descriptors :
          /\ descriptor[d] = None
          /\ descriptor' = [descriptor EXCEPT ![d] = k]
          /\ new_socket' = d
    BY <1>3 DEF Accept, Lowest
  <2>2. /\ k \in Connections /\ k = backlog[1]
        /\ backlog' = << >> /\ ~accepting' /\ ~Created'
        /\ UNCHANGED <<connection, stage, thread, sock>>
    <3>1. backlog # << >> /\ backlog' = Tail(backlog) /\ ~accepting'
          /\ UNCHANGED <<connection, stage, thread, sock>>
      BY <1>3 DEF Accept
    <3>2. backlog \in Seq(Connections) /\ Len(backlog) <= 1 /\ ~Created
      BY <1>0, <3>1 DEF AloneInv, OnePending, Unread, TypeOK
    <3> QED
      BY <3>1, <3>2 DEF Created
  <2>3. stage[k] = "asked" /\ \A e \in Descriptors : descriptor[e] # k
    BY <1>3, <2>2 DEF Accept, AloneInv, PendingAsked
  <2> HIDE DEF k
  <2>4. descriptor'[d] = k /\ \A e \in Descriptors \ {d} : descriptor'[e] = descriptor[e]
    BY <1>0, <2>1 DEF TypeOK
  <2>5. \A j \in Connections : Works(j) => sock[j] # d
    BY <2>1 DEF AloneInv, OwnSocket
  <2>6. OnePending'
    <3>1. \A j \in Connections : thread'[j] # "created"
      BY <2>2 DEF Created
    <3> QED
      BY <2>2, <3>1 DEF OnePending
  <2>7. PendingAsked'
    BY <2>1, <2>2, <2>3, <2>4, <2>5 DEF PendingAsked, Works
  <2>8. OwnConnection'
    BY <2>2, <2>3, <2>4 DEF AloneInv, OwnConnection
  <2>9. OwnSocket'
    BY <1>0, <2>2, <2>4, <2>5 DEF AloneInv, OwnSocket, OneThreadPerConnection, Works
  <2> QED
    BY <2>6, <2>7, <2>8, <2>9 DEF AloneInv
<1>4. CASE Spawn
  <2>1. PICK j \in Connections :
          thread[j] = "none" /\ thread' = [thread EXCEPT ![j] = "created"]
    BY <1>4 DEF Spawn
  <2>2. /\ ~accepting /\ accepting' /\ ~Created
        /\ UNCHANGED <<connection, stage, backlog, descriptor, new_socket, sock>>
    BY <1>4 DEF Spawn, AloneInv, OnePending
  <2>3. thread'[j] = "created" /\ \A m \in Connections \ {j} : thread'[m] = thread[m]
    BY <1>0, <2>1 DEF TypeOK
  <2>4. backlog = << >> /\ Unread
    BY <2>2 DEF AloneInv, OnePending, Unread
  <2>5. OnePending'
    BY <2>2, <2>3, <2>4 DEF AloneInv, OnePending, Created
  <2>6. \A m \in Connections : /\ (Works(m)' <=> Works(m))
                                /\ (thread'[m] = "closing" <=> thread[m] = "closing")
    BY <2>1, <2>3 DEF Works
  <2>7. PendingAsked' /\ OwnConnection'
    BY <2>2, <2>4, <2>6 DEF AloneInv, PendingAsked, OwnConnection
  <2>8. OwnSocket'
    BY <2>2, <2>6 DEF AloneInv, OwnSocket, OneThreadPerConnection, Works
  <2> QED
    BY <2>5, <2>7, <2>8 DEF AloneInv
<1>5. ASSUME NEW j \in Connections, CopySocket(j) PROVE AloneInv'
  <2>1. /\ thread[j] = "created" /\ thread'[j] = "serving" /\ sock'[j] = new_socket
        /\ \A m \in Connections \ {j} : thread'[m] = thread[m] /\ sock'[m] = sock[m]
        /\ UNCHANGED <<connection, stage, backlog, descriptor, new_socket, accepting>>
    BY <1>0, <1>5 DEF CopySocket, TypeOK
  <2>2. Unread /\ Created
    BY <2>1 DEF Unread, Created
  <2>3. accepting /\ backlog = << >> /\ \A m \in Connections \ {j} : thread[m] # "created"
    BY <2>1, <2>2 DEF AloneInv, OnePending
  <2>4. ~Unread'
    BY <2>1, <2>3 DEF Unread, Created
  <2>5. OnePending' /\ PendingAsked'
    BY <2>1, <2>3, <2>4 DEF OnePending, PendingAsked, Unread
  <2>6. OwnConnection'
    BY <2>1 DEF AloneInv, OwnConnection
  <2>7. OwnSocket'
    BY <2>1, <2>2 DEF AloneInv, PendingAsked, OwnSocket, OneThreadPerConnection, Works
  <2> QED
    BY <2>5, <2>6, <2>7 DEF AloneInv
<1>6. ASSUME NEW j \in Connections, Answer(j) \/ GiveUp(j) PROVE AloneInv'
  <2> DEFINE k == descriptor[sock[j]]
  <2>1. /\ Works(j) /\ k \in Connections /\ stage[k] = "asked"
        /\ stage'[k] \in {"answered", "dropped"}
        /\ \A m \in Connections \ {k} : stage'[m] = stage[m]
        /\ UNCHANGED <<connection, backlog, descriptor, new_socket, accepting, sock>>
    BY <1>0, <1>6 DEF Answer, GiveUp, TypeOK, Works
  <2>2. \A m \in Connections : /\ (thread'[m] # "created" <=> thread[m] # "created")
                                /\ (Works(m)' => Works(m))
                                /\ (thread'[m] = "closing" => thread[m] = "closing")
    BY <1>0, <1>6 DEF Answer, GiveUp, TypeOK, Works
  <2>3. \A m \in Connections : stage[m] = "asked" => m = k
    BY <2>1 DEF AloneInv, OwnConnection, Alone
  <2>4. backlog = << >> /\ ~Unread
    <3>1. backlog = << >>
      BY <1>0, <2>1, <2>3 DEF AloneInv, PendingAsked, TypeOK
    <3>2. ~Unread
      <4> SUFFICES ASSUME Unread PROVE FALSE
        OBVIOUS
      <4>1. descriptor[new_socket] = k
        BY <1>0, <2>3 DEF AloneInv, PendingAsked, TypeOK
      <4>2. new_socket = sock[j]
        BY <1>0, <2>1, <4>1 DEF AloneInv, OwnConnection
      <4> QED
        BY <2>1, <4>2 DEF AloneInv, PendingAsked
    <3> QED
      BY <3>1, <3>2
  <2> HIDE DEF k
  <2>5. ~Unread'
    BY <2>1, <2>2, <2>4 DEF Unread, Created
  <2>6. OnePending' /\ PendingAsked'
    BY <2>1, <2>2, <2>4, <2>5 DEF AloneInv, OnePending, PendingAsked, Unread
  <2>7. OwnConnection'
    BY <1>0, <2>1 DEF AloneInv, OwnConnection, TypeOK
  <2>8. OwnSocket'
    <3>1. \A m \in Connections : Works(m)' => descriptor'[sock'[m]] # None
      BY <2>1, <2>2 DEF AloneInv, OwnSocket
    <3>2. \A m \in Connections : thread'[m] = "closing" => stage'[descriptor'[sock'[m]]] = "left"
      <4> SUFFICES ASSUME NEW m \in Connections, thread'[m] = "closing"
                   PROVE  stage'[descriptor[sock[m]]] = "left"
        BY <2>1
      <4>1. thread[m] = "closing" /\ stage[descriptor[sock[m]]] = "left"
        BY <2>2 DEF AloneInv, OwnSocket
      <4>2. descriptor[sock[m]] \in Connections \ {k}
        BY <1>0, <2>1, <4>1 DEF AloneInv, OwnSocket, Works, TypeOK
      <4> QED
        BY <2>1, <4>1, <4>2
    <3>3. OneThreadPerConnection'
      BY <2>1, <2>2 DEF AloneInv, OwnSocket, OneThreadPerConnection, Works
    <3> QED
      BY <3>1, <3>2, <3>3 DEF OwnSocket
  <2> QED
    BY <2>6, <2>7, <2>8 DEF AloneInv
<1>7. ASSUME NEW j \in Connections, EndOfInput(j) PROVE AloneInv'
  <2>1. /\ Works(j) /\ thread'[j] = "closing"
        /\ \A m \in Connections \ {j} : thread'[m] = thread[m]
        /\ UNCHANGED <<connection, stage, backlog, descriptor, new_socket, accepting, sock>>
    BY <1>0, <1>7 DEF EndOfInput, TypeOK, Works
  <2>2. stage[descriptor[sock[j]]] = "left"
    <3>1. descriptor[sock[j]] \in Connections
      BY <1>0, <2>1 DEF AloneInv, OwnSocket, TypeOK
    <3> QED
      BY <1>7, <3>1 DEF EndOfInput
  <2>3. \A m \in Connections : /\ (Works(m)' <=> Works(m))
                                /\ (thread'[m] = "created" <=> thread[m] = "created")
    BY <2>1 DEF Works
  <2>4. Created' <=> Created
    BY <2>3 DEF Created
  <2>5. OnePending'
    BY <2>1, <2>3, <2>4 DEF AloneInv, OnePending, Unread
  <2>6. PendingAsked' /\ OwnConnection'
    BY <2>1, <2>3, <2>4 DEF AloneInv, PendingAsked, OwnConnection, Unread
  <2>7. OwnSocket'
    BY <2>1, <2>2, <2>3 DEF AloneInv, OwnSocket, OneThreadPerConnection, Works
  <2> QED
    BY <2>5, <2>6, <2>7 DEF AloneInv
<1>8. ASSUME NEW j \in Connections, CloseSocket(j) PROVE AloneInv'
  <2>1. /\ Works(j) /\ thread'[j] = "ended"
        /\ \A m \in Connections \ {j} : thread'[m] = thread[m]
        /\ descriptor'[sock[j]] = None
        /\ \A d \in Descriptors \ {sock[j]} : descriptor'[d] = descriptor[d]
        /\ UNCHANGED <<connection, stage, backlog, new_socket, accepting, sock>>
    BY <1>0, <1>8 DEF CloseSocket, TypeOK, Works
  <2>2. /\ ~Works(j)'
        /\ \A m \in Connections \ {j} : (Works(m)' <=> Works(m))
        /\ \A m \in Connections : (thread'[m] = "created" <=> thread[m] = "created")
    BY <2>1 DEF Works
  <2>3. Created' <=> Created
    BY <2>2 DEF Created
  <2>4. \A m \in Connections \ {j} : Works(m) => sock[m] # sock[j]
    BY <2>1 DEF AloneInv, OwnSocket, OneThreadPerConnection, Works
  <2>5. Unread => new_socket # sock[j]
    BY <2>1 DEF AloneInv, PendingAsked
  <2>6. OnePending'
    BY <2>1, <2>2, <2>3 DEF AloneInv, OnePending, Unread
  <2>7. PendingAsked'
    BY <1>0, <2>1, <2>2, <2>3, <2>5 DEF AloneInv, PendingAsked, Unread, TypeOK
  <2>8. OwnConnection'
    BY <1>0, <2>1 DEF AloneInv, OwnConnection
  <2>9. OwnSocket'
    BY <1>0, <2>1, <2>2, <2>4 DEF AloneInv, OwnSocket, OneThreadPerConnection, Works
  <2> QED
    BY <2>6, <2>7, <2>8, <2>9 DEF AloneInv
<1>9. CASE UNCHANGED vars
  BY <1>9 DEF vars, AloneInv, OnePending, PendingAsked, OwnConnection, OwnSocket,
              OneThreadPerConnection, Unread, Created, Works
<1> QED
  BY <1>1, <1>2, <1>3, <1>4, <1>5, <1>6, <1>7, <1>8, <1>9 DEF Next, Run

LEMMA AloneInvariant ==
  ASSUME Alone
  PROVE  Spec => []AloneInv
<1>1. Init => AloneInv
  BY NotNone DEF Init, AloneInv, OnePending, PendingAsked, OwnConnection, OwnSocket,
                 OneThreadPerConnection, Unread, Created, Works
<1>2. TypeInv /\ AloneInv /\ [Next]_vars => AloneInv'
  BY AloneInvStep
<1> QED
  BY <1>1, <1>2, TypeInvariant, PTL DEF Spec

(* A client that has the server to itself never shares a thread's          *)
(* descriptor, however often it comes back while the threads of its        *)
(* earlier connections are still closing theirs.                           *)
THEOREM AcceptOneThreadPerConnection ==
  ASSUME Alone
  PROVE  Spec => []OneThreadPerConnection
<1>1. AloneInv => OneThreadPerConnection
  BY DEF AloneInv, OwnSocket
<1> QED
  BY <1>1, AloneInvariant, PTL

(* ... and no thread closes a descriptor that stands for a connection its  *)
(* client has not left.                                                    *)
THEOREM AcceptClosesOnlyLeft ==
  ASSUME Alone
  PROVE  Spec => ClosesOnlyLeft
<1> DEFINE Closing == \A d \in Descriptors :
                        descriptor[d] # None /\ descriptor'[d] = None => stage[descriptor[d]] = "left"
<1>1. TypeInv /\ AloneInv /\ [Next]_vars => [Closing]_vars
  <2> SUFFICES ASSUME TypeInv, AloneInv, [Next]_vars, NEW d \in Descriptors,
                      descriptor[d] # None, descriptor'[d] = None
               PROVE  stage[descriptor[d]] = "left"
    OBVIOUS
  <2>0. TypeOK
    BY DEF TypeInv
  <2>1. CASE Accept
    <3>1. Head(backlog) \in Connections
      BY <2>0, <2>1 DEF Accept, TypeOK
    <3> QED
      BY <2>0, <2>1, <3>1, NotNone DEF Accept, TypeOK
  <2>2. ASSUME NEW j \in Connections, CloseSocket(j) PROVE stage[descriptor[d]] = "left"
    <3>1. d = sock[j] /\ thread[j] = "closing"
      BY <2>0, <2>2 DEF CloseSocket, TypeOK
    <3> QED
      BY <3>1 DEF AloneInv, OwnSocket
  <2>3. CASE UNCHANGED descriptor
    BY <2>3
  <2> QED
    BY <2>1, <2>2, <2>3 DEF Next, Run, Connect, Leave, Stopped, Spawn, CopySocket, Answer,
                                GiveUp, EndOfInput, vars
<1> QED
  BY <1>1, TypeInvariant, AloneInvariant, PTL DEF Spec, ClosesOnlyLeft

=============================================================================
