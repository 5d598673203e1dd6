------------------------------- MODULE MCRdfs -------------------------------
(* Model values and bounds under which TLC checks Rdfs: one client clears  *)
(* files[], the other does not.                                            *)
EXTENDS Rdfs

CONSTANTS c1, c2

TwoClients == {c1, c2}
FirstClient == {c1}
SomeUnreliable == {0, 2}
FirstLine == {1}
=============================================================================
