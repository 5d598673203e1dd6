------------------------------ MODULE MCMaster ------------------------------
(* Model values and bounds under which TLC checks Master.                  *)
EXTENDS Master

CONSTANTS t1, t2

(* Serial runs: the five nodes of the source, three replicas, room for two *)
(* files each; a fresh counter is 0 or, once, already at the limit.        *)
OneThread == {t1}
SerialUnreliable == {0, 3}
SerialFresh == {0, 2}

(* Concurrent runs: two threads over three nodes and two replicas.         *)
TwoThreads == {t1, t2}
ConcurrentUnreliable == {1}
ConcurrentFresh == {0}
EitherByte == BOOLEAN
NulByte == {TRUE}
NoIds == {}
ErrorId == {0}
=============================================================================
