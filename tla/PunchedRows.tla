------------------------------ MODULE PunchedRows ------------------------------
(***************************************************************************)
(* What the table of selected output promises a client: rows that are      *)
(* complete, never change and have a cell for every column, whenever that  *)
(* column was added; the values of a row are those pushed since the row    *)
(* before it ended, the last one for each heading.                         *)
(***************************************************************************)
EXTENDS Sequences

CONSTANTS Keys, Values, Empty

VARIABLES
  columns, \* the headings, in the order they were first pushed
  rows,    \* the rows that have ended: a cell for every heading
  current  \* the row that is being pushed

rowVars == <<columns, rows, current>>

EmptyRow == [k \in Keys |-> Empty]

Init == columns = <<>> /\ rows = <<>> /\ current = EmptyRow

Push(k, v) ==
  /\ current' = [current EXCEPT ![k] = v]
  /\ columns' = IF \E i \in DOMAIN columns : columns[i] = k
                  THEN columns ELSE Append(columns, k)
  /\ UNCHANGED rows

\* A table without columns has no rows.
EndRow ==
  /\ columns # <<>>
  /\ rows' = Append(rows, current)
  /\ current' = EmptyRow
  /\ UNCHANGED columns

\* The table of another run
Renew == columns' = <<>> /\ rows' = <<>> /\ current' = EmptyRow

Next ==
  \/ \E k \in Keys, v \in Values \cup {Empty} : Push(k, v)
  \/ EndRow
  \/ Renew

Spec == Init /\ [][Next]_rowVars

================================================================================
