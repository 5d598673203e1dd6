---------------------------- MODULE MCAcceptLoop ----------------------------
(* Model values and bounds under which TLC checks AcceptLoop.              *)
EXTENDS AcceptLoop

CONSTANTS c1, c2

OneClient == {c1}
TwoClients == {c1, c2}
=============================================================================
