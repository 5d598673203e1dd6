----------------------------- MODULE AcceptLoop -----------------------------
(***************************************************************************)
(* The accept loop the master and the storage nodes share: main accepts a  *)
(* connection into new_socket and hands a new thread the ADDRESS of that   *)
(* variable; the thread reads it when it gets to run.  Descriptors are     *)
(* reused as the kernel reuses them, lowest first.                         *)
(*                                                                         *)
(* A client connects, sends its request at once, waits for the answer and  *)
(* closes, as request_master_create_file, send_read_request_to_server and  *)
(* read_chunk do.  When a thread of the master ends with neither an answer *)
(* nor a close, it waits until somebody stops it.                          *)
(***************************************************************************)
EXTENDS Integers, Sequences, FiniteSets

CONSTANTS
  Clients,        \* client processes, each with one connection at a time
  MaxConnections  \* bound on the connections of a behaviour

ASSUME AcceptAssumption == MaxConnections \in Nat

Connections == 1 .. MaxConnections
Descriptors == 1 .. MaxConnections   \* never more open than connections made
None == 0

VARIABLES
  \* clients
  connection,   \* client -> the connection it has open, or None
  stage,        \* connection -> "new", "asked", "answered", "dropped", "left"
  \* kernel
  backlog,      \* connections not yet accepted, in order
  descriptor,   \* descriptor -> the connection it stands for, or None
  \* main
  new_socket,   \* the descriptor accepted last
  accepting,    \* FALSE between accept and pthread_create
  \* threads, numbered in the order they are created
  thread,       \* "none", "created", "serving", "closing", "ended"
  sock          \* the descriptor the thread has copied

vars == <<connection, stage, backlog, descriptor, new_socket, accepting, thread, sock>>

TypeOK ==
  /\ connection \in [Clients -> Connections \cup {None}]
  /\ stage \in [Connections -> {"new", "asked", "answered", "dropped", "left"}]
  /\ backlog \in Seq(Connections)
  /\ descriptor \in [Descriptors -> Connections \cup {None}]
  /\ new_socket \in Descriptors \cup {None}
  /\ accepting \in BOOLEAN
  /\ thread \in [Connections -> {"none", "created", "serving", "closing", "ended"}]
  /\ sock \in [Connections -> Descriptors \cup {None}]
  /\ \A j \in Connections :
       thread[j] \in {"serving", "closing"} => sock[j] \in Descriptors

(* Mutant: the first thread is created before anything is accepted.        *)
InitSpawning ==
  /\ connection = [c \in Clients |-> None]
  /\ stage = [k \in Connections |-> "new"]
  /\ backlog = << >>
  /\ descriptor = [d \in Descriptors |-> None]
  /\ new_socket = None
  /\ accepting = FALSE
  /\ thread = [j \in Connections |-> "none"]
  /\ sock = [j \in Connections |-> None]

Init ==
  /\ connection = [c \in Clients |-> None]
  /\ stage = [k \in Connections |-> "new"]
  /\ backlog = << >>
  /\ descriptor = [d \in Descriptors |-> None]
  /\ new_socket = None
  /\ accepting = TRUE
  /\ thread = [j \in Connections |-> "none"]
  /\ sock = [j \in Connections |-> None]

-----------------------------------------------------------------------------
(* The client: initialize_server_connection and send; recv and close       *)

Connect(c) ==
  /\ connection[c] = None
  /\ \E k \in Connections :
       /\ stage[k] = "new"
       /\ \A j \in 1 .. k - 1 : stage[j] # "new"
       /\ connection' = [connection EXCEPT ![c] = k]
       /\ stage' = [stage EXCEPT ![k] = "asked"]
       /\ backlog' = Append(backlog, k)
  /\ UNCHANGED <<descriptor, new_socket, accepting, thread, sock>>

Leave(c) ==
  /\ connection[c] # None
  /\ stage[connection[c]] = "answered"
  /\ stage' = [stage EXCEPT ![connection[c]] = "left"]
  /\ connection' = [connection EXCEPT ![c] = None]
  /\ UNCHANGED <<backlog, descriptor, new_socket, accepting, thread, sock>>

(* A program whose request was dropped never comes out of recv; when it is *)
(* stopped, the kernel closes its end.                                     *)
Stopped(c) ==
  /\ connection[c] # None
  /\ stage[connection[c]] = "dropped"
  /\ stage' = [stage EXCEPT ![connection[c]] = "left"]
  /\ connection' = [connection EXCEPT ![c] = None]
  /\ UNCHANGED <<backlog, descriptor, new_socket, accepting, thread, sock>>

-----------------------------------------------------------------------------
(* main                                                                    *)

(* The lowest descriptor nothing is open on.                               *)
Lowest(d) == descriptor[d] = None /\ \A e \in 1 .. d - 1 : descriptor[e] # None

(* new_socket = accept(...)                                                *)
Accept ==
  /\ accepting
  /\ backlog # << >>
  /\ \E d \in Descriptors :
       /\ Lowest(d)
       /\ descriptor' = [descriptor EXCEPT ![d] = Head(backlog)]
       /\ new_socket' = d
  /\ backlog' = Tail(backlog)
  /\ accepting' = FALSE
  /\ UNCHANGED <<connection, stage, thread, sock>>

(* Mutant: two threads may be created for what was accepted once.          *)
SpawnAgain ==
  /\ ~accepting
  /\ \E j \in Connections :
       /\ thread[j] = "none"
       /\ \A m \in 1 .. j - 1 : thread[m] # "none"
       /\ thread' = [thread EXCEPT ![j] = "created"]
  /\ accepting' \in BOOLEAN
  /\ UNCHANGED <<connection, stage, backlog, descriptor, new_socket, sock>>

(* pthread_create(..., &new_socket) and pthread_detach                     *)
Spawn ==
  /\ ~accepting
  /\ \E j \in Connections :
       /\ thread[j] = "none"
       /\ \A m \in 1 .. j - 1 : thread[m] # "none"
       /\ thread' = [thread EXCEPT ![j] = "created"]
  /\ accepting' = TRUE
  /\ UNCHANGED <<connection, stage, backlog, descriptor, new_socket, sock>>

-----------------------------------------------------------------------------
(* receive_data and client_handler                                         *)

(* int sock = *(int * )arg                                                 *)
CopySocket(j) ==
  /\ thread[j] = "created"
  /\ sock' = [sock EXCEPT ![j] = new_socket]
  /\ thread' = [thread EXCEPT ![j] = "serving"]
  /\ UNCHANGED <<connection, stage, backlog, descriptor, new_socket, accepting>>

(* recv has the request, and send answers it.                              *)
Answer(j) ==
  /\ thread[j] = "serving"
  /\ descriptor[sock[j]] # None
  /\ stage[descriptor[sock[j]]] = "asked"
  /\ stage' = [stage EXCEPT ![descriptor[sock[j]]] = "answered"]
  /\ UNCHANGED <<connection, backlog, descriptor, new_socket, accepting, thread, sock>>

(* The master has no response for a code it does not recognise, and the    *)
(* send of NULL fails: the thread returns, and the descriptor stays open.  *)
GiveUp(j) ==
  /\ thread[j] = "serving"
  /\ descriptor[sock[j]] # None
  /\ stage[descriptor[sock[j]]] = "asked"
  /\ stage' = [stage EXCEPT ![descriptor[sock[j]]] = "dropped"]
  /\ thread' = [thread EXCEPT ![j] = "ended"]
  /\ UNCHANGED <<connection, backlog, descriptor, new_socket, accepting, sock>>

(* Mutant: the socket is closed here and again at the end of the thread.   *)
EndOfInputCloses(j) ==
  /\ thread[j] = "serving"
  /\ \A k \in Connections : descriptor[sock[j]] = k => stage[k] = "left"
  /\ descriptor' = [descriptor EXCEPT ![sock[j]] = None]
  /\ thread' = [thread EXCEPT ![j] = "closing"]
  /\ UNCHANGED <<connection, stage, backlog, new_socket, accepting, sock>>

(* recv has nothing: the client has left, or the descriptor is not open.   *)
EndOfInput(j) ==
  /\ thread[j] = "serving"
  /\ \A k \in Connections : descriptor[sock[j]] = k => stage[k] = "left"
  /\ thread' = [thread EXCEPT ![j] = "closing"]
  /\ UNCHANGED <<connection, stage, backlog, descriptor, new_socket, accepting, sock>>

(* Mutant: the descriptor closed is the one accepted last.                 *)
CloseNewSocket(j) ==
  /\ thread[j] = "closing"
  /\ descriptor' = [descriptor EXCEPT ![new_socket] = None]
  /\ thread' = [thread EXCEPT ![j] = "ended"]
  /\ UNCHANGED <<connection, stage, backlog, new_socket, accepting, sock>>

(* close(sock), whatever it stands for by now.                             *)
CloseSocket(j) ==
  /\ thread[j] = "closing"
  /\ descriptor' = [descriptor EXCEPT ![sock[j]] = None]
  /\ thread' = [thread EXCEPT ![j] = "ended"]
  /\ UNCHANGED <<connection, stage, backlog, new_socket, accepting, sock>>

-----------------------------------------------------------------------------

Run(j) == CopySocket(j) \/ Answer(j) \/ GiveUp(j) \/ EndOfInput(j) \/ CloseSocket(j)

Next ==
  \/ \E c \in Clients : Connect(c) \/ Leave(c) \/ Stopped(c)
  \/ Accept
  \/ Spawn
  \/ \E j \in Connections : Run(j)

(* The kernel schedules main and every thread; a client that has its       *)
(* answer closes.  Nobody owes the server a connection, or has to stop a   *)
(* program that waits in vain.                                             *)
Spec ==
  /\ Init /\ [][Next]_vars
  /\ WF_vars(Accept) /\ WF_vars(Spawn)
  /\ \A j \in Connections : WF_vars(Run(j))
  /\ \A c \in Clients : WF_vars(Leave(c))

-----------------------------------------------------------------------------
(* What holds for a client that has the server to itself                   *)

(* No connection is served by two threads: a thread never copies the       *)
(* descriptor another one serves.                                          *)
OneThreadPerConnection ==
  \A j, k \in Connections :
    /\ thread[j] \in {"serving", "closing"}
    /\ thread[k] \in {"serving", "closing"}
    /\ sock[j] = sock[k]
    => j = k

(* No thread closes a connection whose client is still there, although     *)
(* descriptors are reused while the thread of an earlier one is closing.   *)
ClosesOnlyLeft ==
  [][\A d \in Descriptors :
       descriptor[d] # None /\ descriptor'[d] = None => stage[descriptor[d]] = "left"]_vars

(* Every request is answered, or dropped by the thread that was serving    *)
(* it: none is left waiting because no thread has its connection, although *)
(* descriptors are reused, some of them never again.                       *)
EveryRequestTaken ==
  \A k \in Connections : stage[k] = "asked" ~> stage[k] \in {"answered", "dropped"}

=============================================================================
