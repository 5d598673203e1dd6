--------------------------- MODULE MCStorageNode ---------------------------
(* Model values and bounds under which TLC checks StorageNode.             *)
EXTENDS StorageNode

CONSTANTS t1, t2, p, q

TwoThreads == {t1, t2}
OneWriter == {t1}
TwoPayloads == {p, q}
CleanPayload == {p}
EmptyPayload == {q}

(* One file more than the table has entries.                               *)
ThreeFiles == 0 .. 2
TwoFiles == 0 .. 1

(* One chunk id more than an entry has positions.                          *)
ThreeChunks == 0 .. 2
TwoChunks == 0 .. 1
=============================================================================
