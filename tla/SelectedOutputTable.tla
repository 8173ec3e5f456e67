-------------------------- MODULE SelectedOutputTable --------------------------
(***************************************************************************)
(* The table of values of one selected output (src/src/CSelectedOutput.cpp)*)
(* and the way rows are punched into it: punch_all and punch_user_punch    *)
(* (phreeqcpp/print.cpp), PUNCH (PBasic.cpp, PHRQ_io_output.cpp),          *)
(* punch_model of inverse modelling (inverse.cpp) and IPhreeqc::EndRow.    *)
(*                                                                         *)
(* A cell holds the number of the punch that pushed it, in place of a      *)
(* value.  Sequences and columns count from 1, Get from 0 as in the code.  *)
(***************************************************************************)
EXTENDS Integers, Sequences, FiniteSets

CONSTANTS
  Keys,         \* every heading a column may have
  Standard,     \* those of the options of SELECTED_OUTPUT, "pH" for instance
  ModelKeys,    \* those of inverse models
  HeadingLists, \* what USER_PUNCH; -headings may say
  NoHeading,    \* no_heading_1, no_heading_2, ...; bound: so many extra values
  MaxPunches    \* bound: punches in one run

Empty == 0

ASSUME TableAssumption ==
  /\ Standard \subseteq Keys /\ ModelKeys \subseteq Keys
  /\ HeadingLists \subseteq Seq(Keys) /\ <<>> \in HeadingLists
  /\ NoHeading \in Seq(Keys)
  /\ MaxPunches \in Nat

VARIABLES
  vecHeadings, \* m_vecVarHeadings
  toCol,       \* m_mapHeadingToCol
  array,       \* m_arrayVar, a sequence of columns
  rowCount,    \* m_nRowCount
  stage,       \* the punch in progress, "between" punches, or "aborted"
  headings,    \* the headings of the USER_PUNCH in force
  index,       \* n_user_punch_index
  next,        \* the loop variable of IPhreeqc::EndRow
  punches      \* bound: the punches of this run so far

columnVars == <<vecHeadings, toCol, array, rowCount>>
stageVars == <<stage, headings, index, next, punches>>
tableVars == <<columnVars, stageVars>>

Values == 1..MaxPunches
Stages == {"between", "identifiers", "user", "pad", "inverse", "aborted"}

TableTypeOK ==
  /\ vecHeadings \in Seq(Keys)
  /\ \E K \in SUBSET Keys : toCol \in [K -> Nat \ {0}]
  /\ array \in Seq(Seq(Values \cup {Empty}))
  /\ rowCount \in 0..MaxPunches
  /\ stage \in Stages /\ headings \in HeadingLists
  /\ index \in 0..(Len(headings) + Len(NoHeading))
  /\ next \in Nat
  /\ punches \in 0..MaxPunches

--------------------------------------------------------------------------------
(* CSelectedOutput *)

\* Mutant: a new column starts at the current row.
PushBack_NoBackfill(key, v) ==
  \/ /\ key \notin DOMAIN toCol
     /\ toCol' = [k \in DOMAIN toCol \cup {key} |->
                    IF k = key THEN Cardinality(DOMAIN toCol) + 1 ELSE toCol[k]]
     /\ vecHeadings' = Append(vecHeadings, key)
     /\ array' = Append(array, <<v>>)
     /\ UNCHANGED rowCount
  \/ /\ key \in DOMAIN toCol
     /\ LET c == toCol[key] IN
          array' = [array EXCEPT ![c] = IF Len(@) = rowCount THEN Append(@, v)
                                        ELSE [@ EXCEPT ![rowCount + 1] = v]]
     /\ UNCHANGED <<toCol, vecHeadings, rowCount>>

\* PushBack: a new heading gets a column that is empty up to this row; a second
\* value for a heading replaces the first.
PushBack(key, v) ==
  \/ /\ key \notin DOMAIN toCol
     /\ toCol' = [k \in DOMAIN toCol \cup {key} |->
                    IF k = key THEN Cardinality(DOMAIN toCol) + 1 ELSE toCol[k]]
     /\ vecHeadings' = Append(vecHeadings, key)
     /\ array' = Append(array, Append([r \in 1..rowCount |-> Empty], v))
     /\ UNCHANGED rowCount
  \/ /\ key \in DOMAIN toCol
     /\ LET c == toCol[key] IN
          array' = [array EXCEPT ![c] = IF Len(@) = rowCount THEN Append(@, v)
                                        ELSE [@ EXCEPT ![rowCount + 1] = v]]
     /\ UNCHANGED <<toCol, vecHeadings, rowCount>>

Resized(column, n) ==
  [r \in 1..n |-> IF r <= Len(column) THEN column[r] ELSE Empty]

\* Mutant: a table without columns counts rows as well.
EndRowOfTable_CountsAlways ==
  /\ rowCount' = rowCount + 1
  /\ array' = [c \in DOMAIN array |->
                 IF Len(array[c]) < rowCount + 1
                   THEN Resized(array[c], rowCount + 1) ELSE array[c]]
  /\ UNCHANGED <<vecHeadings, toCol>>

\* CSelectedOutput::EndRow: every column that is short is filled up.
EndRowOfTable ==
  IF vecHeadings = <<>> THEN UNCHANGED columnVars
  ELSE /\ rowCount' = rowCount + 1
       /\ array' = [c \in DOMAIN array |->
                      IF Len(array[c]) < rowCount + 1
                        THEN Resized(array[c], rowCount + 1) ELSE array[c]]
       /\ UNCHANGED <<vecHeadings, toCol>>

\* GetRowCount counts the headings as a row.
GetRowCount == IF vecHeadings = <<>> THEN 0 ELSE rowCount + 1

Get(nRow, nCol) ==
  IF nRow < 0 \/ nRow >= GetRowCount THEN "VR_INVALIDROW"
  ELSE IF nCol < 0 \/ nCol >= Len(vecHeadings) THEN "VR_INVALIDCOL"
  ELSE IF nRow = 0 THEN vecHeadings[nCol + 1] ELSE array[nCol + 1][nRow]

--------------------------------------------------------------------------------
(* Punching *)

\* A USER_PUNCH block of a simulation
ReadUserPunch(h) ==
  /\ stage = "between"
  /\ headings' = h
  /\ index' = 0 /\ next' = 0
  /\ UNCHANGED <<stage, punches, columnVars>>

\* punch_all begins a row.
BeginRow ==
  /\ stage = "between"
  /\ punches < MaxPunches
  /\ punches' = punches + 1
  /\ stage' = "identifiers"
  /\ UNCHANGED <<headings, index, next, columnVars>>

\* punch_identifiers() ... punch_calculate_values()
PunchIdentifier(k) ==
  /\ stage = "identifiers"
  /\ PushBack(k, punches)
  /\ UNCHANGED stageVars

\* Mutant: n_user_punch_index goes on from the row before.
PunchUserPunch_KeepsIndex ==
  /\ stage = "identifiers"
  /\ stage' = "user"
  /\ UNCHANGED <<headings, index, next, punches, columnVars>>

\* punch_user_punch, whether there is a program or not
PunchUserPunch ==
  /\ stage = "identifiers"
  /\ index' = 0
  /\ stage' = "user"
  /\ UNCHANGED <<headings, next, punches, columnVars>>

\* fpunchf_user: the heading of the value with index i.
UserKey(i) ==
  IF i < Len(headings) THEN headings[i + 1] ELSE NoHeading[i - Len(headings) + 1]

\* PUNCH of the program
Punch ==
  /\ stage = "user"
  /\ index < Len(headings) + Len(NoHeading)
  /\ PushBack(UserKey(index), punches)
  /\ index' = index + 1
  /\ UNCHANGED <<stage, headings, next, punches>>

\* fpunchf_end_row: IPhreeqc::EndRow pads the headings the program left out ...
EndUserPunch ==
  /\ stage = "user"
  /\ next' = index
  /\ stage' = "pad"
  /\ UNCHANGED <<headings, index, punches, columnVars>>

PushBackEmpty ==
  /\ stage = "pad" /\ next < Len(headings)
  /\ PushBack(headings[next + 1], Empty)
  /\ next' = next + 1
  /\ UNCHANGED <<stage, headings, index, punches>>

\* ... and ends the row.
EndRow ==
  /\ stage = "pad" /\ next >= Len(headings)
  /\ EndRowOfTable
  /\ stage' = "between"
  /\ UNCHANGED <<headings, index, next, punches>>

\* punch_model pushes the values of an inverse model and ends no row.
BeginModel ==
  /\ stage = "between"
  /\ punches < MaxPunches
  /\ punches' = punches + 1
  /\ stage' = "inverse"
  /\ UNCHANGED <<headings, index, next, columnVars>>

PunchModelValue(k) ==
  /\ stage = "inverse"
  /\ PushBack(k, punches)
  /\ UNCHANGED stageVars

EndModel ==
  /\ stage = "inverse"
  /\ stage' = "between"
  /\ UNCHANGED <<headings, index, next, punches, columnVars>>

\* A BASIC program, or anything else, stops the run; the table stays as it is.
AbortPunch ==
  /\ stage \in {"identifiers", "user", "inverse"}
  /\ stage' = "aborted"
  /\ UNCHANGED <<headings, index, next, punches, columnVars>>

\* Mutant: the table is cleared, its row count is not.
NewTable_KeepsRowCount ==
  /\ stage \in {"between", "aborted"}
  /\ vecHeadings' = <<>> /\ toCol' = <<>> /\ array' = <<>> /\ UNCHANGED rowCount
  /\ stage' = "between" /\ punches' = 0 /\ index' = 0 /\ next' = 0
  /\ UNCHANGED headings

\* The next run deletes the table and makes a new one.
NewTable ==
  /\ stage \in {"between", "aborted"}
  /\ vecHeadings' = <<>> /\ toCol' = <<>> /\ array' = <<>> /\ rowCount' = 0
  /\ stage' = "between" /\ punches' = 0 /\ index' = 0 /\ next' = 0
  /\ UNCHANGED headings

--------------------------------------------------------------------------------
(* The specification *)

TableInit ==
  /\ vecHeadings = <<>> /\ toCol = <<>> /\ array = <<>> /\ rowCount = 0
  /\ stage = "between" /\ headings = <<>> /\ index = 0 /\ next = 0 /\ punches = 0

TableNext ==
  \/ \E h \in HeadingLists : ReadUserPunch(h)
  \/ BeginRow
  \/ \E k \in Standard : PunchIdentifier(k)
  \/ PunchUserPunch
  \/ Punch
  \/ EndUserPunch
  \/ PushBackEmpty
  \/ EndRow
  \/ BeginModel
  \/ \E k \in ModelKeys : PunchModelValue(k)
  \/ EndModel
  \/ AbortPunch
  \/ NewTable

TableSpec == TableInit /\ [][TableNext]_tableVars

--------------------------------------------------------------------------------
(* Properties *)

\* Headings, map and columns agree, and every column has the rows that ended and
\* at most the one in progress (the ASSERTs of CSelectedOutput.cpp:87, 120 and
\* 164): whatever has been pushed, and after an abort, Get and at() stay within
\* the column.
ColumnsFilled ==
  /\ Len(array) = Len(vecHeadings)
  /\ Cardinality(DOMAIN toCol) = Len(vecHeadings)
  /\ \A k \in DOMAIN toCol : toCol[k] \in DOMAIN vecHeadings /\ vecHeadings[toCol[k]] = k
  /\ \A c \in DOMAIN array : Len(array[c]) \in {rowCount, rowCount + 1}

NoDuplicates == \A i, j \in DOMAIN headings : headings[i] = headings[j] => i = j

\* "ensure all user_punch headings are included" (IPhreeqc.cpp:1142): a row that
\* ends has a column for every heading of USER_PUNCH, and it holds the value the
\* program punched for it in this row or else nothing, not even what an option
\* of the same name or an inverse model has pushed.
UserColumns ==
  [][stage = "pad" /\ stage' = "between" =>
       \A i \in DOMAIN headings :
         /\ headings[i] \in DOMAIN toCol'
         /\ NoDuplicates /\ (\A j \in DOMAIN NoHeading : NoHeading[j] # headings[i]) =>
              array'[toCol'[headings[i]]][rowCount'] = IF i <= index THEN punches
                                                       ELSE Empty]_tableVars

\* The rows a client reads, by heading, and the row that is being pushed
EndedRows ==
  [r \in 1..rowCount |-> [k \in Keys |->
     IF k \in DOMAIN toCol THEN Get(r, toCol[k] - 1) ELSE Empty]]

CurrentRow ==
  [k \in Keys |-> IF k \in DOMAIN toCol /\ Len(array[toCol[k]]) > rowCount
                    THEN array[toCol[k]][rowCount + 1] ELSE Empty]

\* The table implements rows that are complete and never change: see PunchedRows.
Rows == INSTANCE PunchedRows WITH
  columns <- vecHeadings, rows <- EndedRows, current <- CurrentRow

RowsSpec == Rows!Spec

================================================================================
