------------------------- MODULE ChunkStreamProofs -------------------------
(* Theorems about ChunkStream: for every header, chunk size and number of  *)
(* messages, however sends and receives interleave.                        *)
EXTENDS ChunkStream, TLAPS

End(m) == messages[m].start + messages[m].len

(* Messages follow each other in the stream.                               *)
Layout ==
  /\ \A k, l \in DOMAIN messages : k < l => End(k) <= messages[l].start
  /\ \A k \in 1 .. Len(messages) - 1 : messages[k + 1].start = End(k)
  /\ messages # << >> => messages[1].start = 0

(* The start of a message that was served has been taken.                  *)
Behind == \A k \in DOMAIN delivered : messages[delivered[k]].start < taken

(* The node is between two messages: those before were all served.         *)
Place ==
  /\ \A k \in DOMAIN delivered : delivered[k] = k
  /\ Len(delivered) <= Len(messages)
  /\ Len(delivered) < Len(messages) => taken = messages[Len(delivered) + 1].start
  /\ Len(delivered) = Len(messages) => taken = Sent

(* With the pause kept, at most one message waits.                         *)
OneWaits == Len(delivered) >= Len(messages) - 1

AtBoundary == ~garbled /\ Place /\ (paced => OneWaits)

(* What makes MessagesWhole and OnceInOrder inductive.                     *)
StreamInv ==
  /\ TypeOK /\ Layout /\ Behind /\ OnceInOrder
  /\ paced \/ Full => AtBoundary
  /\ ended => closed /\ taken = Sent

-----------------------------------------------------------------------------
(* The stream                                                              *)

LEMMA Sizes == HEADER \in Nat /\ HEADER > 0 /\ BUFFER_SIZE \in Nat /\ BUFFER_SIZE > HEADER
BY StreamAssumption DEF BUFFER_SIZE

LEMMA SentType ==
  ASSUME TypeOK
  PROVE  /\ Sent \in Nat /\ taken \in Nat /\ taken <= Sent
         /\ \A m \in DOMAIN messages :
              messages[m].start \in Nat /\ messages[m].len \in Nat /\ messages[m].len > 0
              /\ messages[m].len <= BUFFER_SIZE
<1>1. ASSUME NEW m \in DOMAIN messages
      PROVE  /\ messages[m].start \in Nat /\ messages[m].len \in Nat
             /\ messages[m].len > 0 /\ messages[m].len <= BUFFER_SIZE
  <2> DEFINE R == [start : Nat, len : HEADER .. BUFFER_SIZE]
  <2>1. messages[m] \in R
    <3>1. messages \in Seq(R)
      BY DEF TypeOK
    <3> HIDE DEF R
    <3> QED
      BY <3>1
  <2> QED
    BY <2>1, Sizes
<1>2. Sent \in Nat
  <2>1. messages # << >> => Len(messages) \in DOMAIN messages
    BY DEF TypeOK
  <2> QED
    BY <1>1, <2>1 DEF Sent
<1> QED
  BY <1>1, <1>2 DEF TypeOK

(* Messages and requests are numbered from 1.                              *)
LEMMA ListTypes ==
  ASSUME TypeOK
  PROVE  /\ Len(messages) \in Nat /\ DOMAIN messages = 1 .. Len(messages)
         /\ Len(delivered) \in Nat /\ DOMAIN delivered = 1 .. Len(delivered)
         /\ \A k \in DOMAIN delivered : delivered[k] \in DOMAIN messages
BY DEF TypeOK

(* Every message lies before the bytes not yet sent.                       *)
LEMMA EndsBeforeSent ==
  ASSUME TypeOK, Layout, NEW m \in DOMAIN messages
  PROVE  End(m) <= Sent
<1>1. CASE m = Len(messages)
  BY <1>1, SentType DEF Sent, End, TypeOK
<1>2. CASE m # Len(messages)
  <2>1. m < Len(messages) /\ Len(messages) \in DOMAIN messages
    BY <1>2 DEF TypeOK
  <2>2. End(m) <= messages[Len(messages)].start
    BY <2>1 DEF Layout
  <2> QED
    BY <2>1, <2>2, SentType DEF Sent, End, TypeOK
<1> QED
  BY <1>1, <1>2

(* A recv returns something, at most what has been sent.                   *)
LEMMA ReceivedSome ==
  ASSUME TypeOK, Receives
  PROVE  /\ taken' \in Nat /\ taken < taken' /\ taken' <= Sent
         /\ taken' = Sent \/ taken' = taken + BUFFER_SIZE
         /\ Sent - taken <= BUFFER_SIZE => taken' = Sent
BY SentType, Sizes DEF Receives, bytes_received

LEMMA SentSame == messages' = messages => Sent' = Sent
BY DEF Sent

-----------------------------------------------------------------------------
(* Steps                                                                   *)

LEMMA InitStream == Init => StreamInv
<1> SUFFICES ASSUME Init PROVE StreamInv
  OBVIOUS
<1>1. /\ messages = << >> /\ delivered = << >> /\ Len(messages) = 0 /\ Len(delivered) = 0
      /\ DOMAIN messages = {} /\ DOMAIN delivered = {} /\ Sent = 0 /\ taken = 0
      /\ ~garbled /\ ~ended
  BY DEF Init, Sent
<1>2. TypeOK
  <2>1. messages \in Seq([start : Nat, len : HEADER .. BUFFER_SIZE]) /\ delivered \in Seq(DOMAIN messages)
    BY <1>1
  <2>2. closed \in BOOLEAN /\ ended \in BOOLEAN /\ garbled \in BOOLEAN /\ paced \in BOOLEAN
    BY DEF Init
  <2>3. taken \in 0 .. Sent
    BY <1>1
  <2> QED
    BY <2>1, <2>2, <2>3 DEF TypeOK
<1>3. Layout /\ Behind /\ OnceInOrder
  BY <1>1 DEF Layout, Behind, OnceInOrder
<1>4. AtBoundary
  BY <1>1 DEF AtBoundary, Place, OneWaits
<1> QED
  BY <1>1, <1>2, <1>3, <1>4 DEF StreamInv

LEMMA SendStream ==
  ASSUME StreamInv, SendMessage
  PROVE  StreamInv'
<1>0. TypeOK /\ Layout /\ Behind /\ OnceInOrder
  BY DEF StreamInv
<1>1. PICK len \in HEADER .. BUFFER_SIZE :
        messages' = Append(messages, [start |-> Sent, len |-> len])
  BY DEF SendMessage
<1> DEFINE L == Len(messages)
<1>2. /\ L \in Nat /\ Len(messages') = L + 1 /\ DOMAIN messages' = 1 .. L + 1
      /\ DOMAIN messages = 1 .. L
      /\ \A m \in 1 .. L : messages'[m] = messages[m]
      /\ messages'[L + 1] = [start |-> Sent, len |-> len]
  BY <1>0, <1>1 DEF TypeOK
<1>3. /\ UNCHANGED <<closed, taken, ended, delivered, garbled>> /\ ~closed
      /\ paced' = (paced /\ taken = Sent)
  BY DEF SendMessage
<1>4. len \in Nat /\ len > 0 /\ Sent' = Sent + len
  BY <1>2, Sizes DEF Sent
<1>5. TypeOK'
  <2>1. messages' \in Seq([start : Nat, len : HEADER .. BUFFER_SIZE])
    BY <1>0, <1>1, SentType DEF TypeOK
  <2>2. delivered' \in Seq(DOMAIN messages')
    BY <1>0, <1>2, <1>3 DEF TypeOK
  <2> QED
    BY <1>0, <2>1, <2>2, <1>3, <1>4, SentType DEF TypeOK
<1>6. Layout'
  <2>1. ASSUME NEW k \in 1 .. L + 1, NEW l \in 1 .. L + 1, k < l
        PROVE  End(k)' <= messages'[l].start
    <3>1. CASE l = L + 1
      BY <1>0, <3>1, <2>1, <1>2, EndsBeforeSent DEF End
    <3>2. CASE l # L + 1
      <4>1. k \in DOMAIN messages /\ l \in DOMAIN messages
        BY <3>2, <2>1, <1>2
      <4> QED
        BY <1>0, <4>1, <2>1, <1>2 DEF End, Layout
    <3> QED
      BY <3>1, <3>2
  <2>2. ASSUME NEW k \in 1 .. L
        PROVE  messages'[k + 1].start = End(k)'
    <3>1. CASE k = L
      BY <3>1, <1>2 DEF End, Sent
    <3>2. CASE k # L
      <4>1. k \in 1 .. Len(messages) - 1 /\ k \in 1 .. L /\ k + 1 \in 1 .. L
        <5>1. L \in Nat
          BY <1>2
        <5> HIDE DEF L
        <5>2. k \in 1 .. L - 1
          BY <3>2, <5>1
        <5> QED
          BY <5>1, <5>2 DEF L
      <4>2. messages[k + 1].start = End(k)
        BY <1>0, <4>1 DEF Layout
      <4> QED
        BY <4>1, <4>2, <1>2 DEF End
    <3> QED
      BY <3>1, <3>2
  <2>3. messages'[1].start = 0
    BY <1>0, <1>2 DEF Layout, Sent
  <2> QED
    BY <1>0, <2>1, <2>2, <2>3, <1>2 DEF Layout
<1>7. Behind' /\ OnceInOrder'
  BY <1>0, <1>2, <1>3, ListTypes DEF Behind, OnceInOrder
<1>8. (paced' \/ Full') => AtBoundary'
  <2> DEFINE d == Len(delivered)
  <2>1. SUFFICES ASSUME paced' \/ Full' PROVE AtBoundary'
    OBVIOUS
  <2>2. d \in Nat
    BY <1>0 DEF TypeOK
  <2>3. Full' => Full
    BY <1>2 DEF Full
  <2>4. ~garbled /\ Place
    BY <2>1, <2>3, <1>3 DEF StreamInv, AtBoundary
  <2>5. d < L => taken < Sent
    <3>1. SUFFICES ASSUME d < L PROVE taken < Sent
      OBVIOUS
    <3>2. taken = messages[d + 1].start /\ d + 1 \in DOMAIN messages
      BY <3>1, <2>2, <2>4, <1>2 DEF Place
    <3> QED
      BY <1>0, <3>2, EndsBeforeSent, SentType DEF End
  <2>6. d < L + 1 => taken' = messages'[d + 1].start
    BY <2>2, <2>4, <1>2, <1>3 DEF Place, Sent
  <2>7. paced' => d >= L
    <3>1. SUFFICES ASSUME paced' PROVE d >= L
      OBVIOUS
    <3>2. taken = Sent
      BY <3>1, <1>3
    <3> QED
      BY <3>2, <2>2, <2>5, <1>2, <1>0, SentType
  <2> QED
    <3>1. Place'
      BY <2>2, <2>4, <2>6, <1>2, <1>3 DEF Place
    <3>2. d >= L => OneWaits'
      BY <2>2, <1>2, <1>3 DEF OneWaits
    <3>3. ~garbled'
      BY <2>4, <1>3
    <3> QED
      BY <3>1, <3>2, <3>3, <2>7 DEF AtBoundary
<1>9. ~ended'
  BY <1>3 DEF SendMessage, StreamInv
<1> QED
  BY <1>5, <1>6, <1>7, <1>8, <1>9 DEF StreamInv

LEMMA ServeStream ==
  ASSUME StreamInv, ServeMessage
  PROVE  StreamInv'
<1>0. TypeOK /\ Layout /\ Behind /\ OnceInOrder
  BY DEF StreamInv
<1>1. Receives /\ UNCHANGED <<messages, closed, ended, garbled, paced>>
  BY DEF ServeMessage
<1>2. PICK m \in DOMAIN messages :
        messages[m].start = taken /\ delivered' = Append(delivered, m)
  BY DEF ServeMessage
<1> DEFINE d == Len(delivered)
           L == Len(messages)
<1>3. /\ d \in Nat /\ Len(delivered') = d + 1 /\ DOMAIN delivered' = 1 .. d + 1
      /\ DOMAIN delivered = 1 .. d
      /\ \A k \in 1 .. d : delivered'[k] = delivered[k]
      /\ delivered'[d + 1] = m
      /\ L \in Nat /\ DOMAIN messages = 1 .. L
  BY <1>0, <1>2 DEF TypeOK
<1>4. Sent' = Sent
  BY <1>1, SentSame
<1>5. TypeOK'
  BY <1>0, <1>1, <1>2, <1>4, ReceivedSome, SentType DEF TypeOK
<1>6. Layout'
  BY <1>0, <1>1 DEF Layout, End
<1>7. Behind'
  <2>1. ASSUME NEW k \in 1 .. d PROVE messages[delivered[k]].start < taken'
    BY <1>0, <1>1, <1>3, ListTypes, ReceivedSome, SentType DEF Behind
  <2>2. messages[m].start < taken'
    BY <1>0, <1>1, <1>2, ReceivedSome, SentType
  <2> QED
    BY <1>0, <2>1, <2>2, <1>1, <1>3 DEF Behind
<1>8. OnceInOrder'
  <2>1. ASSUME NEW k \in 1 .. d PROVE delivered[k] < m
    <3>1. delivered[k] \in DOMAIN messages /\ messages[delivered[k]].start < taken
      BY <1>0, <1>3, ListTypes DEF Behind
    <3>2. delivered[k] # m
      BY <1>0, <3>1, <1>2, SentType
    <3>3. m < delivered[k] => FALSE
      BY <1>0, <3>1, <1>2, SentType DEF Layout, End
    <3> QED
      BY <3>1, <3>2, <3>3, <1>3
  <2> QED
    BY <1>0, <2>1, <1>3 DEF OnceInOrder
<1>9. (paced' \/ Full') => AtBoundary'
  <2>1. SUFFICES ASSUME paced \/ Full PROVE AtBoundary'
    BY <1>1 DEF Full
  <2>2. ~garbled /\ Place /\ (paced => OneWaits)
    BY <2>1 DEF StreamInv, AtBoundary
  <2> HIDE DEF d, L
  <2>3. d < L
    <3>1. d <= L /\ (d = L => taken = Sent) /\ taken < Sent
      BY <2>2, <1>1 DEF Place, Receives, d, L
    <3> QED
      BY <1>0, <3>1, <1>3, SentType
  <2>4. d + 1 \in DOMAIN messages /\ taken = messages[d + 1].start
    <3>1. d + 1 \in DOMAIN messages
      BY <2>3, <1>3
    <3>2. taken = messages[d + 1].start
      BY <2>2, <2>3 DEF Place, d, L
    <3> QED
      BY <3>1, <3>2
  <2>5. m = d + 1
    <3>1. ~ (m < d + 1)
      BY <1>0, <2>4, <1>2, SentType DEF Layout, End
    <3>2. ~ (d + 1 < m)
      BY <1>0, <2>4, <1>2, SentType DEF Layout, End
    <3> QED
      BY <3>1, <3>2, <1>3
  <2>8. \A k \in 1 .. d + 1 : delivered'[k] = k
    BY <2>2, <2>5, <1>3 DEF Place
  <2>6. ASSUME d + 1 = L PROVE Place'
    <3>1. Sent = taken + messages[L].len
      BY <1>3, <2>4, <2>6 DEF Sent, L
    <3>2. taken' = Sent
      BY <1>0, <3>1, <2>4, <2>6, <1>1, ReceivedSome, SentType
    <3> QED
      BY <3>2, <2>2, <2>3, <2>5, <2>6, <2>8, <1>1, <1>3, <1>4 DEF Place, L
  <2>7. ASSUME d + 1 # L PROVE Place'
    <3>1. d + 1 < L /\ d + 2 \in DOMAIN messages
      BY <2>3, <2>7, <1>3
    <3>2. messages[d + 1].len = BUFFER_SIZE
      <4>1. ~OneWaits
        BY <3>1, <1>3 DEF OneWaits, d, L
      <4>2. Full
        BY <4>1, <2>1, <2>2
      <4> QED
        BY <4>2, <3>1, <1>3 DEF Full, L
    <3>3. messages[d + 2].start = taken + BUFFER_SIZE
      BY <1>0, <3>1, <3>2, <2>4, <1>3 DEF Layout, End, L
    <3>4. messages[d + 2].start < Sent
      BY <1>0, <3>1, EndsBeforeSent, SentType DEF End
    <3>5. taken' = messages[d + 2].start
      BY <1>0, <3>3, <3>4, <1>1, ReceivedSome, SentType, Sizes DEF Receives, bytes_received
    <3> QED
      <4>1. messages' = messages /\ Len(messages') = L
        BY <1>1 DEF L
      <4>2. Len(delivered') < L /\ Len(delivered') + 1 = d + 2
        BY <3>1, <1>3
      <4>3. Len(delivered') <= L /\ Len(delivered') # L
        BY <4>2, <1>3
      <4> QED
        BY <3>5, <2>8, <1>3, <4>1, <4>2, <4>3 DEF Place
  <2>9. OneWaits => OneWaits'
    BY <1>1, <1>3 DEF OneWaits, d, L
  <2> QED
    BY <2>2, <2>6, <2>7, <2>9, <1>1 DEF AtBoundary
<1>10. ~ended'
  BY <1>1 DEF Receives
<1> QED
  BY <1>5, <1>6, <1>7, <1>8, <1>9, <1>10 DEF StreamInv

LEMMA PieceStream ==
  ASSUME StreamInv, ServePiece
  PROVE  StreamInv'
<1>0. TypeOK /\ Layout /\ Behind /\ OnceInOrder
  BY DEF StreamInv
<1>1. Receives /\ UNCHANGED <<messages, closed, ended, delivered, paced>> /\ garbled' \in BOOLEAN
  BY <1>0 DEF ServePiece, TypeOK
<1>2. Sent' = Sent
  BY <1>1, SentSame
<1>3. TypeOK'
  BY <1>0, <1>1, <1>2, ReceivedSome, SentType DEF TypeOK
<1>4. Layout' /\ OnceInOrder'
  BY <1>0, <1>1 DEF Layout, End, OnceInOrder
<1>5. Behind'
  BY <1>0, <1>1, ReceivedSome, SentType DEF Behind, TypeOK
<1>6. ~ (paced \/ Full)
  <2>1. SUFFICES ASSUME Place PROVE FALSE
    BY DEF StreamInv, AtBoundary
  <2>2. Len(delivered) < Len(messages)
    <3>1. /\ Len(delivered) <= Len(messages)
          /\ Len(delivered) = Len(messages) => taken = Sent
          /\ taken < Sent
      BY <2>1, <1>1 DEF Place, Receives
    <3>2. Len(delivered) # Len(messages)
      BY <1>0, <3>1, SentType
    <3>3. Len(delivered) \in Nat /\ Len(messages) \in Nat
      BY <1>0, ListTypes
    <3> QED
      BY <3>1, <3>2, <3>3
  <2>3. Len(delivered) + 1 \in DOMAIN messages
    BY <1>0, <2>2 DEF TypeOK
  <2> QED
    BY <2>1, <2>2, <2>3 DEF Place, ServePiece
<1>7. ~ (paced' \/ Full')
  BY <1>1, <1>6 DEF Full
<1>8. ~ended'
  BY <1>1 DEF Receives
<1> QED
  BY <1>3, <1>4, <1>5, <1>7, <1>8 DEF StreamInv

(* The other steps touch neither the stream nor what was served of it.     *)
LEMMA RestStream ==
  ASSUME StreamInv, Close \/ EndOfInput \/ UNCHANGED vars
  PROVE  StreamInv'
<1>0. TypeOK /\ closed \in BOOLEAN /\ ended \in BOOLEAN /\ (ended => closed /\ taken = Sent)
  BY DEF StreamInv, TypeOK
<1>1. UNCHANGED <<messages, taken, delivered, garbled, paced>>
  BY DEF Close, EndOfInput, vars
<1>2. closed' \in BOOLEAN /\ ended' \in BOOLEAN /\ (ended' => closed' /\ taken = Sent)
  <2>1. CASE Close
    BY <2>1, <1>0 DEF Close
  <2>2. CASE EndOfInput
    BY <2>2, <1>0 DEF EndOfInput
  <2>3. CASE UNCHANGED vars
    BY <2>3, <1>0 DEF vars
  <2> QED
    BY <2>1, <2>2, <2>3
<1>3. Sent' = Sent
  BY <1>1, SentSame
<1>4. TypeOK'
  BY <1>1, <1>2, <1>3 DEF StreamInv, TypeOK
<1>5. (Layout /\ Behind /\ OnceInOrder)'
  BY <1>1 DEF StreamInv, Layout, End, Behind, OnceInOrder
<1>6. (paced' \/ Full') => AtBoundary'
  BY <1>1, <1>3 DEF StreamInv, Full, AtBoundary, Place, OneWaits
<1> QED
  BY <1>1, <1>2, <1>3, <1>4, <1>5, <1>6 DEF StreamInv

-----------------------------------------------------------------------------
(* The theorems                                                            *)

LEMMA StreamInvariant == Spec => []StreamInv
<1>1. Init => StreamInv
  BY InitStream
<1>2. StreamInv /\ [Next]_vars => StreamInv'
  BY SendStream, ServeStream, PieceStream, RestStream DEF Next, Handler
<1> QED
  BY <1>1, <1>2, PTL DEF Spec

(* recv takes bytes that were sent, and only messages that were sent are   *)
(* served (client_handler of the storage nodes).                           *)
THEOREM StreamTypeCorrect == Spec => []TypeOK
<1>1. StreamInv => TypeOK
  BY DEF StreamInv
<1> QED
  BY <1>1, StreamInvariant, PTL

(* No message of send_chunks_to_nodes is served twice or out of order,     *)
(* with or without its pause.                                              *)
THEOREM StreamOnceInOrder == Spec => []OnceInOrder
<1>1. StreamInv => OnceInOrder
  BY DEF StreamInv
<1> QED
  BY <1>1, StreamInvariant, PTL

(* With the pause of send_chunks_to_nodes kept, or chunks that fill the    *)
(* buffer, client_handler serves every message and nothing else.           *)
THEOREM StreamMessagesWhole == Spec => []MessagesWhole
<1>1. StreamInv => MessagesWhole
  <2>1. SUFFICES ASSUME StreamInv, paced \/ Full
                 PROVE  /\ ~garbled
                        /\ \A k \in DOMAIN delivered : delivered[k] = k
                        /\ ended => Len(delivered) = Len(messages)
    BY DEF MessagesWhole
  <2>2. ~garbled /\ Place /\ TypeOK /\ Layout /\ (ended => taken = Sent)
    BY <2>1 DEF StreamInv, AtBoundary
  <2>3. ASSUME ended PROVE Len(delivered) = Len(messages)
    <3>1. TypeOK /\ Layout /\ Place /\ taken = Sent
      BY <2>2, <2>3
    <3>2. SUFFICES ASSUME Len(delivered) < Len(messages) PROVE FALSE
      <4>1. Len(delivered) <= Len(messages)
        BY <3>1 DEF Place
      <4> QED
        <5>1. Len(delivered) \in Nat /\ Len(messages) \in Nat
          BY <3>1, ListTypes
        <5> QED
          BY <4>1, <5>1
    <3>3. Len(delivered) + 1 \in DOMAIN messages
      BY <3>1, <3>2, ListTypes
    <3>4. taken < Sent
      BY <3>1, <3>2, <3>3, EndsBeforeSent, SentType DEF Place, End
    <3> QED
      BY <3>1, <3>4, SentType
  <2> QED
    BY <2>2, <2>3 DEF Place
<1> QED
  BY <1>1, StreamInvariant, PTL
=============================================================================
