---------------------------- MODULE AtomicTable ----------------------------
(***************************************************************************)
(* What the Store interface of pkg/storage/interface.go promises of its    *)
(* table, seen through the rows alone: every change is one atomic Create,  *)
(* Update or Delete of one row, applied to the row as it is at that        *)
(* moment.  Create adds a missing row at the initial revision; an Update   *)
(* sent with a revision advances the row's revision by one, one sent       *)
(* without a revision keeps it; Delete removes an existing row.  Reads,    *)
(* failed calls and the watch events do not change the table.             *)
(***************************************************************************)
EXTENDS Naturals

CONSTANTS
    Keys,       \* values of the key column
    Vals,       \* the rest of a row, abstracted
    RevColumn,  \* the table has a revision column
    Absent,     \* no row with this key
    NoRev       \* the empty revision

VARIABLE table  \* key -> row or Absent

\* The revision a created row starts at.
FirstRev == IF RevColumn THEN 1 ELSE NoRev

Init == table = [k \in Keys |-> Absent]

Create(k, v) ==
    /\ table[k] = Absent
    /\ table' = [table EXCEPT ![k] = [rv |-> FirstRev, val |-> v]]

\* An Update without a request revision: the row keeps its revision.
BlindUpdate(k, v) ==
    /\ table[k] # Absent
    /\ table' = [table EXCEPT ![k] = [rv |-> table[k].rv, val |-> v]]

\* An Update sent with the row's current revision moves it one revision on.
RevisionedUpdate(k, v) ==
    /\ RevColumn
    /\ table[k] # Absent
    /\ table' = [table EXCEPT ![k] = [rv |-> table[k].rv + 1, val |-> v]]

Delete(k) ==
    /\ table[k] # Absent
    /\ table' = [table EXCEPT ![k] = Absent]

Next ==
    \E k \in Keys :
        \/ \E v \in Vals : Create(k, v) \/ BlindUpdate(k, v) \/ RevisionedUpdate(k, v)
        \/ Delete(k)

Spec == Init /\ [][Next]_table

=============================================================================
