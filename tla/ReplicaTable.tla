---------------------------- MODULE ReplicaTable ----------------------------
(***************************************************************************)
(* What the master promises its clients, whatever its threads do inside:   *)
(* a table that only grows, one row of replica nodes per file, whose index *)
(* is the file id.  Creating a file is answered once with a row nobody     *)
(* else was given; reading a file is answered with the row as it was       *)
(* created.  Master is shown to implement this module when one connection  *)
(* is served at a time.                                                    *)
(***************************************************************************)
EXTENDS Integers, Sequences

CONSTANTS
  Nodes,          \* the storage nodes the master may name
  Replicas        \* how many nodes a complete row names

VARIABLES
  table,          \* row k + 1 holds the nodes of file k
  answers         \* the answers clients have received, in order

tableVars == <<table, answers>>

(* A row names no node twice.  A row shorter than Replicas may enter the   *)
(* table, but is never handed to a client.                                 *)
Rows ==
  {row \in UNION {[1 .. n -> Nodes] : n \in 0 .. Replicas} :
     \A j, k \in DOMAIN row : row[j] = row[k] => j = k}

FileIds == 0 .. Len(table) - 1

Complete(id) == Len(table[id + 1]) = Replicas

Answered(id) ==
  \E k \in 1 .. Len(answers) : answers[k].op = "CF" /\ answers[k].id = id

Answer(op, id) ==
  /\ answers' = Append(answers, [op |-> op, id |-> id, nodes |-> table[id + 1]])
  /\ UNCHANGED table

-----------------------------------------------------------------------------

TableInit ==
  /\ table = << >>
  /\ answers = << >>

(* A new row is registered at the end of the table.                        *)
Register ==
  /\ \E row \in Rows : table' = Append(table, row)
  /\ UNCHANGED answers

(* The creator learns the id of a complete row, at most once per row.      *)
AnswerCreate ==
  \E id \in FileIds : Complete(id) /\ ~Answered(id) /\ Answer("CF", id)

(* A reader is told the row of a file.                                     *)
AnswerLookup ==
  \E id \in FileIds : Complete(id) /\ Answer("RF", id)

TableNext == Register \/ AnswerCreate \/ AnswerLookup

TableSpec == TableInit /\ [][TableNext]_tableVars

=============================================================================
