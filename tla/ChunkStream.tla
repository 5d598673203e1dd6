---------------------------- MODULE ChunkStream ----------------------------
(***************************************************************************)
(* One connection from send_chunks_to_nodes to client_handler: the client  *)
(* sends a message per chunk, the node takes what has come, BUFFER_SIZE    *)
(* bytes at most, for one request.  TCP keeps no boundary between the      *)
(* messages; a pause after each (clientlib.c:443) is all that does.        *)
(*                                                                         *)
(* A byte is its place in the stream, so a message is a stretch of it.     *)
(* One send arrives as one piece: a message fits a TCP segment.            *)
(***************************************************************************)
EXTENDS Integers, Sequences

CONSTANTS
  HEADER,       \* bytes of a message before the data (14)
  CHUNK_SIZE,   \* data bytes at most (30)
  MaxMessages   \* bound

ASSUME StreamAssumption ==
  HEADER \in Nat \ {0} /\ CHUNK_SIZE \in Nat \ {0} /\ MaxMessages \in Nat

BUFFER_SIZE == HEADER + CHUNK_SIZE

VARIABLES
  messages,   \* what was sent: where each message starts, and its length
  closed,     \* the client has closed the connection
  taken,      \* bytes recv has returned
  ended,      \* client_handler has left its loop
  \* history
  delivered,  \* the messages client_handler took for requests, by number
  garbled,    \* it took something else for a request
  paced       \* every send found all earlier bytes taken

vars == <<messages, closed, taken, ended, delivered, garbled, paced>>

(* The bytes sent so far.                                                  *)
Sent == IF messages = << >> THEN 0
        ELSE messages[Len(messages)].start + messages[Len(messages)].len

TypeOK ==
  /\ messages \in Seq([start : Nat, len : HEADER .. BUFFER_SIZE])
  /\ closed \in BOOLEAN /\ ended \in BOOLEAN
  /\ taken \in 0 .. Sent
  /\ delivered \in Seq(DOMAIN messages)
  /\ garbled \in BOOLEAN /\ paced \in BOOLEAN

Init ==
  /\ messages = << >> /\ closed = FALSE
  /\ taken = 0 /\ ended = FALSE
  /\ delivered = << >> /\ garbled = FALSE /\ paced = TRUE

SendMessage ==
  /\ ~closed /\ Len(messages) < MaxMessages
  /\ \E len \in HEADER .. BUFFER_SIZE :
       messages' = Append(messages, [start |-> Sent, len |-> len])
  /\ paced' = (paced /\ taken = Sent)
  /\ UNCHANGED <<closed, taken, ended, delivered, garbled>>

Close ==
  /\ ~closed /\ closed' = TRUE
  /\ UNCHANGED <<messages, taken, ended, delivered, garbled, paced>>

(* What a recv returns.  Mutants: a buffer one byte too short, a full one  *)
(* whatever has come, bytes left in the socket.                            *)
bytes_received_short == IF Sent - taken < BUFFER_SIZE - 1 THEN Sent - taken ELSE BUFFER_SIZE - 1
bytes_received_full == BUFFER_SIZE
bytes_received_peek == 0
bytes_received == IF Sent - taken < BUFFER_SIZE THEN Sent - taken ELSE BUFFER_SIZE

(* Mutant: recv waits for a full buffer.                                   *)
ReceivesFull == ~ended /\ taken + BUFFER_SIZE <= Sent /\ taken' = taken + bytes_received
Receives == ~ended /\ taken < Sent /\ taken' = taken + bytes_received

(* The buffer begins with a message, which is served; the bytes behind it  *)
(* are wiped.                                                              *)
ServeMessage ==
  /\ Receives
  /\ \E m \in DOMAIN messages :
       messages[m].start = taken /\ delivered' = Append(delivered, m)
  /\ UNCHANGED <<messages, closed, ended, garbled, paced>>

(* It begins inside a message: its second byte is a W or an R by chance,   *)
(* or nothing is done.                                                     *)
ServePiece ==
  /\ Receives
  /\ \A m \in DOMAIN messages : messages[m].start # taken
  /\ garbled' \in {garbled, TRUE}
  /\ UNCHANGED <<messages, closed, ended, delivered, paced>>

(* recv returns 0 once the client has closed and all is taken.             *)
EndOfInput ==
  /\ closed /\ taken = Sent /\ ~ended /\ ended' = TRUE
  /\ UNCHANGED <<messages, closed, taken, delivered, garbled, paced>>

Handler == ServeMessage \/ ServePiece \/ EndOfInput

Next == SendMessage \/ Close \/ Handler

Spec == Init /\ [][Next]_vars

(* The node's thread runs while recv has something to return.              *)
FairSpec == Spec /\ WF_vars(Handler)

-----------------------------------------------------------------------------
(* What holds                                                              *)

(* All messages but the last fill the buffer, as those of create_file do.  *)
Full == \A m \in 1 .. Len(messages) - 1 : messages[m].len = BUFFER_SIZE

(* If the pause is long enough for the node to take each chunk before the  *)
(* next is sent, or if all chunks but the last are full ones whenever they *)
(* come, every request is a message, none is left out, and when the thread *)
(* ends it has had them all.                                               *)
MessagesWhole ==
  paced \/ Full =>
    /\ ~garbled
    /\ \A k \in DOMAIN delivered : delivered[k] = k
    /\ ended => Len(delivered) = Len(messages)

(* However the bytes run together, no message is served twice or after a   *)
(* later one.                                                              *)
OnceInOrder ==
  \A k, l \in DOMAIN delivered : k < l => delivered[k] < delivered[l]

(* A message of such a stream is served in the end, also when the client   *)
(* closes at once behind it.                                               *)
AllServed ==
  \A m \in 1 .. MaxMessages :
    Len(messages) = m ~> ~(paced \/ Full) \/ \E k \in DOMAIN delivered : delivered[k] = m
=============================================================================
