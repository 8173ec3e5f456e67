-------------------------- MODULE SelectedOutputProofs --------------------------
(***************************************************************************)
(* Proofs about SelectedOutputTable, for every set of headings and any     *)
(* number of punches: the columns agree with the headings and are full,    *)
(* and the table implements PunchedRows.                                   *)
(*                                                                         *)
(* And about SelectedOutputSession, for every set of user numbers and any  *)
(* number of simulations and rows: every definition has a table, and files *)
(* and strings have the rows of the tables.  There the inductive invariant *)
(* is SessionInv.                                                          *)
(*                                                                         *)
(* And about BasicControl, whose programs punch: for every program the     *)
(* stack has the records of its own statements, and only lines that are    *)
(* there are executed; and a program of nested loops goes where its text   *)
(* says (RunsByBlocks of NestedBasic), for the loops around its line have  *)
(* their records on the stack, those of a caller below its call.  There    *)
(* the inductive invariant is NestedInv.                                   *)
(***************************************************************************)
EXTENDS SelectedOutputTable, SelectedOutputSession, NestedBasic, SequenceTheorems,
        FiniteSetTheorems, NaturalsInduction, WellFoundedInduction, TLAPS

Cells   == Values \cup {Empty}
Columns == Seq(Cells)

\* What CSelectedOutput keeps true of its members.
TableShape ==
  /\ vecHeadings \in Seq(Keys)
  /\ DOMAIN toCol \in SUBSET Keys /\ IsFiniteSet(DOMAIN toCol)
  /\ toCol \in [DOMAIN toCol -> Nat \ {0}]
  /\ array \in Seq(Columns)
  /\ rowCount \in Nat
  /\ ColumnsFilled
  /\ \A i \in DOMAIN vecHeadings :
       vecHeadings[i] \in DOMAIN toCol /\ toCol[vecHeadings[i]] = i

\* What punching keeps true: every row was begun by a punch of its own.
PunchShape ==
  /\ stage \in Stages /\ headings \in HeadingLists
  /\ index \in 0..(Len(headings) + Len(NoHeading)) /\ next \in Nat
  /\ punches \in 0..MaxPunches
  /\ rowCount <= punches
  /\ stage # "between" => rowCount < punches

Shape == TableShape /\ PunchShape

--------------------------------------------------------------------------------
(* Sequences and headings *)

LEMMA SeqOfLength ==
  ASSUME NEW S, NEW n \in Nat, NEW f \in [1..n -> S]
  PROVE  f \in Seq(S) /\ Len(f) = n /\ DOMAIN f = 1..n
<1>1. f \in Seq(S)
  BY SeqDef
<1>2. Len(f) \in Nat /\ DOMAIN f = 1..Len(f) /\ DOMAIN f = 1..n
  BY <1>1, LenProperties
<1> QED
  BY <1>1, <1>2

\* A heading has a column exactly if it is among the headings.
LEMMA HeadingHasColumn ==
  ASSUME TableShape, NEW k
  PROVE  (\E i \in DOMAIN vecHeadings : vecHeadings[i] = k) <=> k \in DOMAIN toCol
  BY DEF TableShape, ColumnsFilled

\* Get reads the cell of a row that has ended.
LEMMA GetCell ==
  ASSUME TableShape, NEW r \in 1..rowCount, NEW k \in DOMAIN toCol
  PROVE  Get(r, toCol[k] - 1) = array[toCol[k]][r]
<1>1. /\ toCol[k] \in 1..Len(vecHeadings) /\ vecHeadings # <<>>
      /\ Len(vecHeadings) \in Nat /\ rowCount \in Nat
  BY LenProperties, EmptySeq DEF TableShape, ColumnsFilled
<1>2. GetRowCount = rowCount + 1
  BY <1>1 DEF GetRowCount
<1> QED
  BY <1>1, <1>2 DEF Get

\* So the rows a client reads are the cells of the columns, also after a step.
CellRows ==
  [r \in 1..rowCount |-> [k \in Keys |->
     IF k \in DOMAIN toCol THEN array[toCol[k]][r] ELSE Empty]]

LEMMA EndedCells == TableShape => EndedRows = CellRows
  BY GetCell DEF EndedRows, CellRows

LEMMA EndedCellsNext == (TableShape => EndedRows = CellRows)'
  BY EndedCells, PTL

--------------------------------------------------------------------------------
(* CSelectedOutput::PushBack *)

LEMMA PushBackNew ==
  ASSUME TableShape, NEW key \in Keys, NEW v \in Cells, key \notin DOMAIN toCol,
         PushBack(key, v)
  PROVE  TableShape' /\ Rows!Push(key, v)
<1> DEFINE n == Len(vecHeadings)
           new == Append([r \in 1..rowCount |-> Empty], v)
<1>1. /\ toCol' = [k \in DOMAIN toCol \cup {key} |->
                     IF k = key THEN Cardinality(DOMAIN toCol) + 1 ELSE toCol[k]]
      /\ vecHeadings' = Append(vecHeadings, key)
      /\ array' = Append(array, new)
      /\ rowCount' = rowCount
  BY DEF PushBack
<1>2. /\ n \in Nat /\ Len(array) = n /\ Cardinality(DOMAIN toCol) = n
      /\ DOMAIN vecHeadings = 1..n /\ DOMAIN array = 1..n /\ rowCount \in Nat
  BY LenProperties DEF TableShape, ColumnsFilled
<1>3. /\ [r \in 1..rowCount |-> Empty] \in Columns
      /\ Len([r \in 1..rowCount |-> Empty]) = rowCount
  <2>1. [r \in 1..rowCount |-> Empty] \in [1..rowCount -> Cells]
    BY DEF Cells
  <2> QED
    BY <1>2, <2>1, SeqOfLength DEF Columns
<1>4. new \in Columns /\ Len(new) = rowCount + 1 /\ new[rowCount + 1] = v
  BY <1>2, <1>3, AppendProperties DEF Columns
<1>5. /\ vecHeadings' \in Seq(Keys) /\ Len(vecHeadings') = n + 1
      /\ DOMAIN vecHeadings' = 1..(n + 1) /\ vecHeadings'[n + 1] = key
      /\ \A i \in 1..n : vecHeadings'[i] = vecHeadings[i]
  BY <1>1, <1>2, AppendProperties, LenProperties DEF TableShape
<1>6. /\ array' \in Seq(Columns) /\ Len(array') = n + 1
      /\ DOMAIN array' = 1..(n + 1) /\ array'[n + 1] = new
      /\ \A c \in 1..n : array'[c] = array[c]
  BY <1>1, <1>2, <1>4, AppendProperties, LenProperties DEF TableShape
<1>7. /\ DOMAIN toCol' = DOMAIN toCol \cup {key} /\ toCol'[key] = n + 1
      /\ \A k \in DOMAIN toCol : toCol'[k] = toCol[k] /\ k # key
      /\ toCol' \in [DOMAIN toCol' -> Nat \ {0}]
  BY <1>1, <1>2 DEF TableShape
<1>8. /\ DOMAIN toCol' \in SUBSET Keys /\ IsFiniteSet(DOMAIN toCol')
      /\ Cardinality(DOMAIN toCol') = n + 1
  <2>1. /\ IsFiniteSet(DOMAIN toCol \cup {key})
        /\ Cardinality(DOMAIN toCol \cup {key}) = n + 1
    <3>1. IsFiniteSet(DOMAIN toCol)
      BY DEF TableShape
    <3> QED
      BY <1>2, <3>1, FS_AddElement
  <2> QED
    BY <1>7, <2>1 DEF TableShape
<1>9. TableShape'
  <2>1. \A k \in DOMAIN toCol' :
          toCol'[k] \in DOMAIN vecHeadings' /\ vecHeadings'[toCol'[k]] = k
    BY <1>2, <1>5, <1>7 DEF TableShape, ColumnsFilled
  <2>2. \A c \in DOMAIN array' : Len(array'[c]) \in {rowCount', rowCount' + 1}
    BY <1>1, <1>2, <1>4, <1>6 DEF TableShape, ColumnsFilled
  <2>3. \A i \in DOMAIN vecHeadings' :
          vecHeadings'[i] \in DOMAIN toCol' /\ toCol'[vecHeadings'[i]] = i
    BY <1>2, <1>5, <1>7 DEF TableShape
  <2> QED
    BY <1>1, <1>2, <1>5, <1>6, <1>7, <1>8, <2>1, <2>2, <2>3 DEF TableShape, ColumnsFilled
<1>10. /\ \A k \in DOMAIN toCol : array'[toCol'[k]] = array[toCol[k]]
       /\ array'[toCol'[key]] = new
  BY <1>2, <1>6, <1>7 DEF TableShape, ColumnsFilled
<1>11. \A r \in 1..rowCount : new[r] = Empty
  BY <1>2, <1>3, AppendProperties DEF Columns
<1>12. EndedRows' = EndedRows
  <2>1. \A r \in 1..rowCount, k \in Keys :
          (IF k \in DOMAIN toCol' THEN array'[toCol'[k]][r] ELSE Empty)
            = IF k \in DOMAIN toCol THEN array[toCol[k]][r] ELSE Empty
    BY <1>7, <1>10, <1>11
  <2>2. CellRows' = CellRows
    BY <1>1, <2>1 DEF CellRows
  <2> QED
    BY <1>9, <2>2, EndedCells, EndedCellsNext
<1>13. CurrentRow' = [CurrentRow EXCEPT ![key] = v]
  <2> DEFINE Cell(k) == IF k \in DOMAIN toCol /\ Len(array[toCol[k]]) > rowCount
                          THEN array[toCol[k]][rowCount + 1] ELSE Empty
  <2>1. ASSUME NEW k \in Keys PROVE Cell(k)' = IF k = key THEN v ELSE Cell(k)
    <3>1. CASE k = key
      <4>1. k \in DOMAIN toCol' /\ array'[toCol'[k]] = new /\ rowCount' = rowCount
        BY <1>1, <1>7, <1>10, <3>1
      <4>2. Len(array'[toCol'[k]]) > rowCount' /\ array'[toCol'[k]][rowCount' + 1] = v
        BY <1>2, <1>4, <4>1
      <4> QED
        BY <3>1, <4>1, <4>2
    <3>2. CASE k # key
      BY <1>1, <1>7, <1>10, <3>2
    <3> QED
      BY <3>1, <3>2
  <2>2. CurrentRow = [k \in Keys |-> Cell(k)] /\ CurrentRow' = [k \in Keys |-> Cell(k)']
    BY DEF CurrentRow
  <2> QED
    BY <2>1, <2>2
<1> QED
  BY <1>1, <1>9, <1>12, <1>13, HeadingHasColumn DEF Rows!Push

LEMMA PushBackOld ==
  ASSUME TableShape, NEW key \in Keys, NEW v \in Cells, key \in DOMAIN toCol,
         PushBack(key, v)
  PROVE  TableShape' /\ Rows!Push(key, v)
<1> DEFINE c == toCol[key]
           col == array[c]
           new == IF Len(col) = rowCount THEN Append(col, v)
                  ELSE [col EXCEPT ![rowCount + 1] = v]
<1>1. /\ UNCHANGED <<toCol, vecHeadings, rowCount>>
      /\ array' = [array EXCEPT ![c] = new]
  BY DEF PushBack
<1>2. /\ c \in 1..Len(array) /\ DOMAIN array = 1..Len(array)
      /\ rowCount \in Nat /\ col \in Columns /\ Len(col) \in {rowCount, rowCount + 1}
  BY LenProperties, ElementOfSeq DEF TableShape, ColumnsFilled
<1>3. /\ new \in Columns /\ Len(new) = rowCount + 1 /\ new[rowCount + 1] = v
      /\ \A r \in 1..rowCount : new[r] = col[r]
  <2>1. CASE Len(col) = rowCount
    BY <1>2, <2>1, AppendProperties DEF Columns
  <2>2. CASE Len(col) = rowCount + 1
    BY <1>2, <2>2, ExceptSeq DEF Columns
  <2> QED
    BY <1>2, <2>1, <2>2
<1>4. /\ array' \in Seq(Columns) /\ Len(array') = Len(array)
      /\ DOMAIN array' = DOMAIN array
      /\ \A d \in DOMAIN array : array'[d] = IF d = c THEN new ELSE array[d]
  BY <1>1, <1>2, <1>3, ExceptSeq, LenProperties DEF TableShape
<1>5. TableShape'
  <2>1. ColumnsFilled'
    BY <1>1, <1>2, <1>3, <1>4 DEF TableShape, ColumnsFilled
  <2> QED
    BY <1>1, <1>4, <2>1 DEF TableShape
<1>6. \A k \in DOMAIN toCol : /\ toCol[k] \in DOMAIN array
                              /\ toCol[k] = c <=> k = key
  BY <1>2, LenProperties DEF TableShape, ColumnsFilled
<1>7. EndedRows' = EndedRows
  <2>1. \A r \in 1..rowCount, k \in Keys :
          (IF k \in DOMAIN toCol THEN array'[toCol[k]][r] ELSE Empty)
            = IF k \in DOMAIN toCol THEN array[toCol[k]][r] ELSE Empty
    BY <1>3, <1>4, <1>6
  <2>2. CellRows' = CellRows
    BY <1>1, <2>1 DEF CellRows
  <2> QED
    BY <1>5, <2>2, EndedCells, EndedCellsNext
<1>8. CurrentRow' = [CurrentRow EXCEPT ![key] = v]
  <2> DEFINE Cell(k) == IF k \in DOMAIN toCol /\ Len(array[toCol[k]]) > rowCount
                          THEN array[toCol[k]][rowCount + 1] ELSE Empty
  <2>1. ASSUME NEW k \in Keys PROVE Cell(k)' = IF k = key THEN v ELSE Cell(k)
    <3>1. CASE k = key
      <4>1. k \in DOMAIN toCol' /\ array'[toCol'[k]] = new /\ rowCount' = rowCount
        BY <1>1, <1>4, <1>6, <3>1
      <4>2. Len(array'[toCol'[k]]) > rowCount' /\ array'[toCol'[k]][rowCount' + 1] = v
        BY <1>2, <1>3, <4>1
      <4> QED
        BY <3>1, <4>1, <4>2
    <3>2. CASE k # key
      BY <1>1, <1>4, <1>6, <3>2
    <3> QED
      BY <3>1, <3>2
  <2>2. CurrentRow = [k \in Keys |-> Cell(k)] /\ CurrentRow' = [k \in Keys |-> Cell(k)']
    BY DEF CurrentRow
  <2> QED
    BY <2>1, <2>2
<1> QED
  BY <1>1, <1>5, <1>7, <1>8, HeadingHasColumn DEF Rows!Push

LEMMA PushBackStep ==
  ASSUME TableShape, NEW key \in Keys, NEW v \in Cells, PushBack(key, v)
  PROVE  /\ TableShape' /\ Rows!Push(key, v) /\ rowCount' = rowCount
         /\ DOMAIN toCol' = DOMAIN toCol \cup {key}
<1>1. rowCount' = rowCount /\ DOMAIN toCol' = DOMAIN toCol \cup {key}
  BY DEF PushBack
<1> QED
  BY <1>1, PushBackNew, PushBackOld

--------------------------------------------------------------------------------
(* CSelectedOutput::EndRow *)

LEMMA ResizedColumn ==
  ASSUME NEW col \in Columns, NEW n \in Nat, Len(col) <= n
  PROVE  /\ Resized(col, n) \in Columns /\ Len(Resized(col, n)) = n
         /\ \A r \in 1..n : Resized(col, n)[r] = IF r <= Len(col) THEN col[r] ELSE Empty
<1>1. Resized(col, n) \in [1..n -> Cells]
  BY LenProperties DEF Resized, Columns, Cells
<1> QED
  BY <1>1, SeqOfLength DEF Resized, Columns

LEMMA EndRowStep ==
  ASSUME TableShape, EndRowOfTable
  PROVE  /\ TableShape' /\ rowCount' \in {rowCount, rowCount + 1}
         /\ Rows!EndRow \/ UNCHANGED columnVars
         /\ \A k \in DOMAIN toCol : array'[toCol'[k]][rowCount'] = CurrentRow[k]
<1>1. CASE vecHeadings = <<>>
  <2>1. \A k \in DOMAIN toCol : FALSE
    BY <1>1, EmptySeq DEF TableShape, ColumnsFilled
  <2> QED
    BY <1>1, <2>1 DEF EndRowOfTable, columnVars, TableShape, ColumnsFilled
<1>2. CASE vecHeadings # <<>>
  <2> DEFINE full(c) == IF Len(array[c]) < rowCount + 1
                          THEN Resized(array[c], rowCount + 1) ELSE array[c]
  <2>1. /\ UNCHANGED <<vecHeadings, toCol>> /\ rowCount' = rowCount + 1
        /\ array' = [c \in DOMAIN array |-> full(c)]
    BY <1>2 DEF EndRowOfTable
  <2>2. rowCount \in Nat /\ Len(array) \in Nat /\ DOMAIN array = 1..Len(array)
    BY LenProperties DEF TableShape
  <2>3. ASSUME NEW c \in DOMAIN array
        PROVE  /\ full(c) \in Columns /\ Len(full(c)) = rowCount + 1
               /\ \A r \in 1..rowCount : full(c)[r] = array[c][r]
               /\ full(c)[rowCount + 1] = IF Len(array[c]) > rowCount
                                            THEN array[c][rowCount + 1] ELSE Empty
    <3>1. array[c] \in Columns /\ Len(array[c]) \in {rowCount, rowCount + 1}
      BY <2>2, ElementOfSeq DEF TableShape, ColumnsFilled
    <3>2. CASE Len(array[c]) = rowCount
      BY <2>2, <3>1, <3>2, ResizedColumn
    <3>3. CASE Len(array[c]) = rowCount + 1
      BY <2>2, <3>1, <3>3
    <3> QED
      BY <3>1, <3>2, <3>3
  <2>4. /\ array' \in Seq(Columns) /\ Len(array') = Len(array)
        /\ DOMAIN array' = DOMAIN array
        /\ \A c \in DOMAIN array : array'[c] = full(c)
    <3>1. array' \in [1..Len(array) -> Columns]
      BY <2>1, <2>2, <2>3
    <3> QED
      BY <2>1, <2>2, <3>1, SeqOfLength
  <2>5. TableShape'
    <3>1. ColumnsFilled'
      BY <2>1, <2>2, <2>3, <2>4 DEF TableShape, ColumnsFilled
    <3> QED
      BY <2>1, <2>2, <2>4, <3>1 DEF TableShape
  <2>6. \A k \in DOMAIN toCol : toCol[k] \in DOMAIN array
    BY <2>2, LenProperties DEF TableShape, ColumnsFilled
  <2>7. CellRows' = Append(CellRows, CurrentRow)
    <3> DEFINE Row(r) == [k \in Keys |-> IF k \in DOMAIN toCol THEN array[toCol[k]][r]
                                         ELSE Empty]
               NewRow(r) == [k \in Keys |-> IF k \in DOMAIN toCol THEN array'[toCol[k]][r]
                                            ELSE Empty]
    <3>1. CellRows = [r \in 1..rowCount |-> Row(r)]
      BY DEF CellRows
    <3>2. CellRows' = [r \in 1..(rowCount + 1) |-> NewRow(r)]
      BY <2>1 DEF CellRows
    <3>3. \A r \in 1..rowCount : NewRow(r) = Row(r)
      BY <2>3, <2>4, <2>6
    <3>4. NewRow(rowCount + 1) = CurrentRow
      BY <2>3, <2>4, <2>6 DEF CurrentRow
    <3> HIDE DEF Row, NewRow
    <3> DEFINE S == {Row(r) : r \in 1..rowCount} \cup {CurrentRow}
               longer == Append(CellRows, CurrentRow)
    <3>5. CellRows \in Seq(S) /\ Len(CellRows) = rowCount
      <4>1. CellRows \in [1..rowCount -> S]
        BY <3>1
      <4> QED
        BY <2>2, <4>1, SeqOfLength
    <3>6. /\ longer \in Seq(S) /\ Len(longer) = rowCount + 1
          /\ \A r \in 1..rowCount : longer[r] = CellRows[r]
          /\ longer[rowCount + 1] = CurrentRow
      BY <2>2, <3>5, AppendProperties
    <3> HIDE DEF longer
    <3>7. longer \in [1..(rowCount + 1) -> S]
      BY <3>6, LenProperties
    <3>8. \A r \in 1..(rowCount + 1) : longer[r] = NewRow(r)
      BY <2>2, <3>1, <3>3, <3>4, <3>6
    <3>9. CellRows' = longer
      BY <3>2, <3>7, <3>8
    <3> QED
      BY <3>9 DEF longer
  <2>8. EndedRows' = Append(EndedRows, CurrentRow)
    BY <2>5, <2>7, EndedCells, EndedCellsNext
  <2>9. CurrentRow' = [k \in Keys |-> Empty]
    BY <2>1, <2>2, <2>3, <2>4, <2>6 DEF CurrentRow
  <2>10. Rows!EndRow
    BY <1>2, <2>1, <2>8, <2>9 DEF Rows!EndRow, Rows!EmptyRow
  <2>11. \A k \in DOMAIN toCol : array'[toCol'[k]][rowCount'] = CurrentRow[k]
    BY <2>1, <2>3, <2>4, <2>6 DEF CurrentRow, TableShape
  <2> QED
    BY <2>1, <2>5, <2>10, <2>11
<1> QED
  BY <1>1, <1>2

--------------------------------------------------------------------------------
(* Every step keeps the shape, and is a step of PunchedRows or none *)

LEMMA TableUnchanged ==
  ASSUME TableShape, UNCHANGED columnVars
  PROVE  TableShape' /\ UNCHANGED Rows!rowVars
<1>1. TableShape'
  BY DEF TableShape, ColumnsFilled, columnVars
<1>2. EndedRows' = EndedRows
  <2>1. CellRows' = CellRows
    BY DEF CellRows, columnVars
  <2> QED
    BY <1>1, <2>1, EndedCells, EndedCellsNext
<1>3. CurrentRow' = CurrentRow
  BY DEF CurrentRow, columnVars
<1> QED
  BY <1>1, <1>2, <1>3 DEF columnVars, Rows!rowVars

LEMMA NewTableStep ==
  ASSUME Shape, NewTable
  PROVE  Shape' /\ Rows!Renew
<1>1. /\ vecHeadings' = <<>> /\ toCol' = <<>> /\ array' = <<>> /\ rowCount' = 0
      /\ DOMAIN toCol' = {}
  BY DEF NewTable
<1>2. TableShape'
  BY <1>1, FS_EmptySet, EmptySeq DEF TableShape, ColumnsFilled
<1>3. PunchShape'
  BY TableAssumption, LenProperties DEF Shape, PunchShape, NewTable, Stages
<1>4. CellRows' = <<>>
  BY <1>1 DEF CellRows
<1>5. CurrentRow' = [k \in Keys |-> Empty]
  BY <1>1 DEF CurrentRow
<1> QED
  BY <1>1, <1>2, <1>3, <1>4, <1>5, EndedCellsNext DEF Shape, Rows!Renew, Rows!EmptyRow

LEMMA Lengths ==
  /\ Len(NoHeading) \in Nat /\ NoHeading \in [1..Len(NoHeading) -> Keys]
  /\ \A h \in HeadingLists : Len(h) \in Nat /\ h \in [1..Len(h) -> Keys]
  BY TableAssumption, LenProperties

\* The heading a PUNCH pushes to is one.
LEMMA UserKeyTyped ==
  ASSUME PunchShape, index < Len(headings) + Len(NoHeading)
  PROVE  UserKey(index) \in Keys
  BY Lengths DEF PunchShape, UserKey

\* While a row or a model is punched, the punch has a number.
LEMMA PunchNumbered ==
  ASSUME Shape, stage # "between"
  PROVE  punches \in Cells
  BY DEF Shape, PunchShape, TableShape, Cells, Values

LEMMA StepKeepsShape ==
  ASSUME Shape, TableNext
  PROVE  Shape' /\ (Rows!Next \/ UNCHANGED Rows!rowVars)
<1>1. ASSUME NEW h \in HeadingLists, ReadUserPunch(h) PROVE Shape' /\ UNCHANGED Rows!rowVars
  BY <1>1, Lengths, TableUnchanged DEF ReadUserPunch, Shape, PunchShape, columnVars
<1>2. CASE BeginRow
  <2>1. PunchShape'
    BY <1>2, TableAssumption DEF BeginRow, Shape, PunchShape, TableShape, columnVars, Stages
  <2>2. TableShape' /\ UNCHANGED Rows!rowVars
    BY <1>2, TableUnchanged DEF BeginRow, Shape
  <2> QED
    BY <2>1, <2>2 DEF Shape
<1>3. ASSUME NEW k \in Standard, PunchIdentifier(k) PROVE Shape' /\ Rows!Next
  <2>1. k \in Keys /\ punches \in Cells /\ PushBack(k, punches)
    <3>1. stage # "between" /\ PushBack(k, punches)
      BY <1>3 DEF PunchIdentifier
    <3> QED
      BY <3>1, TableAssumption, PunchNumbered
  <2>2. TableShape' /\ Rows!Push(k, punches) /\ rowCount' = rowCount
    BY <2>1, PushBackStep DEF Shape
  <2>3. PunchShape'
    BY <1>3, <2>2 DEF PunchIdentifier, stageVars, Shape, PunchShape
  <2> QED
    BY <2>1, <2>2, <2>3 DEF Shape, Rows!Next, Cells
<1>4. CASE PunchUserPunch
  BY <1>4, Lengths, TableUnchanged DEF PunchUserPunch, Shape, PunchShape, columnVars, Stages
<1>5. CASE Punch
  <2>1. UserKey(index) \in Keys /\ punches \in Cells /\ PushBack(UserKey(index), punches)
    BY <1>5, UserKeyTyped, PunchNumbered DEF Punch, Shape
  <2>2. TableShape' /\ Rows!Push(UserKey(index), punches) /\ rowCount' = rowCount
    BY <2>1, PushBackStep DEF Shape
  <2>3. PunchShape'
    BY <1>5, <2>2, Lengths DEF Punch, Shape, PunchShape
  <2> QED
    BY <2>1, <2>2, <2>3 DEF Shape, Rows!Next, Cells
<1>6. CASE EndUserPunch
  BY <1>6, Lengths, TableUnchanged DEF EndUserPunch, Shape, PunchShape, columnVars, Stages
<1>7. CASE PushBackEmpty
  <2>1. headings[next + 1] \in Keys /\ Empty \in Cells /\ PushBack(headings[next + 1], Empty)
    BY <1>7, Lengths DEF PushBackEmpty, Shape, PunchShape, Cells
  <2>2. TableShape' /\ Rows!Push(headings[next + 1], Empty) /\ rowCount' = rowCount
    BY <2>1, PushBackStep DEF Shape
  <2>3. PunchShape'
    BY <1>7, <2>2 DEF PushBackEmpty, Shape, PunchShape
  <2> QED
    BY <2>1, <2>2, <2>3 DEF Shape, Rows!Next, Cells
<1>8. CASE EndRow
  <2>1. /\ TableShape' /\ rowCount' \in {rowCount, rowCount + 1}
        /\ Rows!EndRow \/ UNCHANGED columnVars
    BY <1>8, EndRowStep DEF EndRow, Shape
  <2>2. PunchShape'
    BY <1>8, <2>1 DEF EndRow, Shape, PunchShape, TableShape, Stages
  <2> QED
    BY <2>1, <2>2, TableUnchanged DEF Shape, Rows!Next
<1>9. CASE BeginModel
  <2>1. PunchShape'
    BY <1>9, TableAssumption DEF BeginModel, Shape, PunchShape, TableShape, columnVars, Stages
  <2>2. TableShape' /\ UNCHANGED Rows!rowVars
    BY <1>9, TableUnchanged DEF BeginModel, Shape
  <2> QED
    BY <2>1, <2>2 DEF Shape
<1>10. ASSUME NEW k \in ModelKeys, PunchModelValue(k) PROVE Shape' /\ Rows!Next
  <2>1. k \in Keys /\ punches \in Cells /\ PushBack(k, punches)
    <3>1. stage # "between" /\ PushBack(k, punches)
      BY <1>10 DEF PunchModelValue
    <3> QED
      BY <3>1, TableAssumption, PunchNumbered
  <2>2. TableShape' /\ Rows!Push(k, punches) /\ rowCount' = rowCount
    BY <2>1, PushBackStep DEF Shape
  <2>3. PunchShape'
    BY <1>10, <2>2 DEF PunchModelValue, stageVars, Shape, PunchShape
  <2> QED
    BY <2>1, <2>2, <2>3 DEF Shape, Rows!Next, Cells
<1>11. CASE EndModel
  BY <1>11, TableUnchanged DEF EndModel, Shape, PunchShape, columnVars, Stages
<1>12. CASE AbortPunch
  BY <1>12, TableUnchanged DEF AbortPunch, Shape, PunchShape, columnVars, Stages
<1>13. CASE NewTable
  BY <1>13, NewTableStep DEF Rows!Next
<1> QED
  BY <1>1, <1>2, <1>3, <1>4, <1>5, <1>6, <1>7, <1>8, <1>9, <1>10, <1>11, <1>12, <1>13
     DEF TableNext

LEMMA InitShape == TableInit => Shape
<1> SUFFICES ASSUME TableInit PROVE Shape
  OBVIOUS
<1>1. DOMAIN toCol = {}
  BY DEF TableInit
<1>2. TableShape
  BY <1>1, FS_EmptySet, EmptySeq DEF TableInit, TableShape, ColumnsFilled
<1>3. PunchShape
  BY TableAssumption, Lengths DEF TableInit, PunchShape, Stages
<1> QED
  BY <1>2, <1>3 DEF Shape

LEMMA ShapeKept == TableSpec => []Shape
<1>1. ASSUME Shape, UNCHANGED tableVars PROVE Shape'
  BY <1>1, TableUnchanged DEF Shape, PunchShape, tableVars, stageVars, columnVars
<1> QED
  BY <1>1, InitShape, StepKeepsShape, PTL DEF TableSpec

--------------------------------------------------------------------------------
(* The columns of USER_PUNCH *)

\* No other heading of this row has the name of heading i.
Alone(i) == NoDuplicates /\ \A j \in DOMAIN NoHeading : NoHeading[j] # headings[i]

\* The values the program has punched so far are in the row, and what is padded
\* so far is empty.
UserRow ==
  /\ stage \in {"user", "pad"} => \A i \in DOMAIN headings : i <= index =>
       headings[i] \in DOMAIN toCol /\ (Alone(i) => CurrentRow[headings[i]] = punches)
  /\ stage = "pad" =>
       /\ index <= next
       /\ \A i \in DOMAIN headings : index < i /\ i <= next =>
            headings[i] \in DOMAIN toCol /\ (Alone(i) => CurrentRow[headings[i]] = Empty)

LEMMA PushedCell ==
  ASSUME NEW key \in Keys, NEW v, Rows!Push(key, v)
  PROVE  \A k \in Keys : CurrentRow'[k] = IF k = key THEN v ELSE CurrentRow[k]
  BY DEF Rows!Push, CurrentRow

LEMMA UserRowKept ==
  ASSUME Shape, UserRow, TableNext
  PROVE  UserRow'
<1>1. CASE Punch
  <2> DEFINE key == UserKey(index)
  <2>1. key \in Keys /\ punches \in Cells /\ PushBack(key, punches)
    BY <1>1, UserKeyTyped, PunchNumbered DEF Punch, Shape
  <2>2. Rows!Push(key, punches) /\ DOMAIN toCol' = DOMAIN toCol \cup {key}
    BY <2>1, PushBackStep DEF Shape
  <2>3. \A k \in Keys : CurrentRow'[k] = IF k = key THEN punches ELSE CurrentRow[k]
    BY <2>1, <2>2, PushedCell
  <2>4. /\ stage = "user" /\ stage' = "user" /\ index' = index + 1
        /\ UNCHANGED <<headings, punches>> /\ index \in Nat
        /\ \A i \in DOMAIN headings : headings[i] \in Keys /\ i \in Nat
        /\ DOMAIN headings = 1..Len(headings) /\ Len(headings) \in Nat
        /\ DOMAIN NoHeading = 1..Len(NoHeading) /\ Len(NoHeading) \in Nat
        /\ index < Len(headings) + Len(NoHeading)
    BY <1>1, Lengths DEF Punch, Shape, PunchShape
  <2>5. ASSUME NEW i \in DOMAIN headings, i <= index + 1
        PROVE  /\ headings[i] \in DOMAIN toCol'
               /\ Alone(i) => CurrentRow'[headings[i]] = punches
    <3>1. CASE i = index + 1
      BY <2>2, <2>3, <2>4, <3>1 DEF UserKey
    <3>2. CASE i <= index
      <4>1. Alone(i) => headings[i] # key
        BY <2>4, <3>2 DEF Alone, NoDuplicates, UserKey
      <4>2. headings[i] \in DOMAIN toCol /\ (Alone(i) => CurrentRow[headings[i]] = punches)
        BY <2>4, <3>2 DEF UserRow
      <4> QED
        BY <2>2, <2>3, <2>4, <4>1, <4>2
    <3> QED
      BY <2>4, <2>5, <3>1, <3>2
  <2> QED
    BY <2>4, <2>5 DEF UserRow, Alone, NoDuplicates
<1>2. CASE PushBackEmpty
  <2> DEFINE key == headings[next + 1]
  <2>1. /\ stage = "pad" /\ stage' = "pad" /\ next' = next + 1 /\ next < Len(headings)
        /\ UNCHANGED <<headings, index, punches>> /\ index \in Nat /\ next \in Nat
        /\ \A i \in DOMAIN headings : headings[i] \in Keys /\ i \in Nat
        /\ DOMAIN headings = 1..Len(headings) /\ Len(headings) \in Nat
    BY <1>2, Lengths DEF PushBackEmpty, Shape, PunchShape
  <2>2. key \in Keys /\ Empty \in Cells /\ PushBack(key, Empty)
    BY <1>2, <2>1 DEF PushBackEmpty, Cells
  <2>3. Rows!Push(key, Empty) /\ DOMAIN toCol' = DOMAIN toCol \cup {key}
    BY <2>2, PushBackStep DEF Shape
  <2>4. \A k \in Keys : CurrentRow'[k] = IF k = key THEN Empty ELSE CurrentRow[k]
    BY <2>2, <2>3, PushedCell
  <2>5. index <= next
    BY <2>1 DEF UserRow
  <2>6. ASSUME NEW i \in DOMAIN headings, i <= next
        PROVE  Alone(i) => headings[i] # key
    BY <2>1, <2>6 DEF Alone, NoDuplicates
  <2>7. ASSUME NEW i \in DOMAIN headings, i <= index
        PROVE  /\ headings[i] \in DOMAIN toCol'
               /\ Alone(i) => CurrentRow'[headings[i]] = punches
    BY <2>1, <2>3, <2>4, <2>5, <2>6, <2>7 DEF UserRow
  <2>8. ASSUME NEW i \in DOMAIN headings, index < i, i <= next + 1
        PROVE  /\ headings[i] \in DOMAIN toCol'
               /\ Alone(i) => CurrentRow'[headings[i]] = Empty
    BY <2>1, <2>3, <2>4, <2>6, <2>8 DEF UserRow
  <2> QED
    BY <2>1, <2>5, <2>7, <2>8 DEF UserRow, Alone, NoDuplicates
<1>3. CASE EndUserPunch
  <2>1. CurrentRow' = CurrentRow /\ DOMAIN toCol' = DOMAIN toCol
    BY <1>3, TableUnchanged DEF EndUserPunch, Shape, columnVars, Rows!rowVars
  <2>2. index \in Nat /\ DOMAIN headings = 1..Len(headings)
    BY Lengths DEF Shape, PunchShape
  <2> QED
    BY <1>3, <2>1, <2>2 DEF EndUserPunch, UserRow, Alone, NoDuplicates
<1>4. CASE PunchUserPunch
  <2>1. DOMAIN headings = 1..Len(headings) /\ Len(headings) \in Nat
    BY Lengths DEF Shape, PunchShape
  <2> QED
    BY <1>4, <2>1 DEF PunchUserPunch, UserRow
<1>5. CASE stage' \notin {"user", "pad"}
  BY <1>5 DEF UserRow
<1> QED
  BY <1>1, <1>2, <1>3, <1>4, <1>5
     DEF TableNext, ReadUserPunch, BeginRow, PunchIdentifier, EndRow, BeginModel,
         PunchModelValue, EndModel, AbortPunch, NewTable, stageVars

LEMMA UserRowUnchanged ==
  ASSUME Shape, UserRow, UNCHANGED tableVars
  PROVE  UserRow'
<1>1. CurrentRow' = CurrentRow
  BY TableUnchanged DEF Shape, tableVars, Rows!rowVars
<1> QED
  BY <1>1 DEF UserRow, Alone, NoDuplicates, tableVars, columnVars, stageVars

LEMMA UserRowAlways == TableSpec => []UserRow
<1>1. TableInit => UserRow
  BY DEF TableInit, UserRow
<1> QED
  BY <1>1, ShapeKept, UserRowKept, UserRowUnchanged, PTL DEF TableSpec

--------------------------------------------------------------------------------
(* The theorems *)

\* Every variable of the table and of the punch in progress has its type.
THEOREM TableTyped == TableSpec => []TableTypeOK
<1>1. ASSUME Shape PROVE TableTypeOK
  <2>1. \E K \in SUBSET Keys : toCol \in [K -> Nat \ {0}]
    BY <1>1 DEF Shape, TableShape
  <2>2. rowCount \in 0..MaxPunches
    BY <1>1, TableAssumption DEF Shape, TableShape, PunchShape
  <2> QED
    BY <1>1, <2>1, <2>2 DEF Shape, TableShape, PunchShape, TableTypeOK, Cells, Columns
<1> QED
  BY <1>1, ShapeKept, PTL

\* Whatever is punched, and wherever a run is aborted, headings, map and columns
\* agree and every column has the rows that ended: Get and PushBack never leave
\* a column (CSelectedOutput.cpp:87, 120, 164).
THEOREM ColumnsStayFilled == TableSpec => []ColumnsFilled
<1>1. Shape => ColumnsFilled
  BY DEF Shape, TableShape
<1> QED
  BY <1>1, ShapeKept, PTL

\* The table implements PunchedRows: back-filling a new column and padding a short
\* one are invisible to a client, and a row that has ended never changes.
THEOREM TableImplementsRows == TableSpec => RowsSpec
<1>1. TableInit => Rows!Init
  BY DEF TableInit, Rows!Init, Rows!EmptyRow, EndedRows, CurrentRow
<1>2. ASSUME Shape, [TableNext]_tableVars PROVE [Rows!Next]_(Rows!rowVars)
  BY <1>2, StepKeepsShape, TableUnchanged DEF Shape, tableVars
<1> QED
  BY <1>1, <1>2, ShapeKept, PTL DEF TableSpec, RowsSpec, Rows!Spec

\* In a row that ends every heading of USER_PUNCH has a column, with the value the
\* program punched in this row or nothing.
THEOREM UserPunchColumns == TableSpec => UserColumns
<1> DEFINE A == stage = "pad" /\ stage' = "between" =>
       \A i \in DOMAIN headings :
         /\ headings[i] \in DOMAIN toCol'
         /\ NoDuplicates /\ (\A j \in DOMAIN NoHeading : NoHeading[j] # headings[i]) =>
              array'[toCol'[headings[i]]][rowCount'] = IF i <= index THEN punches
                                                       ELSE Empty
<1>1. ASSUME Shape, UserRow, TableNext PROVE A
  <2> SUFFICES ASSUME stage = "pad", stage' = "between", NEW i \in DOMAIN headings
               PROVE  /\ headings[i] \in DOMAIN toCol'
                      /\ Alone(i) => array'[toCol'[headings[i]]][rowCount'] =
                                       IF i <= index THEN punches ELSE Empty
    BY DEF Alone
  <2>1. EndRow
    BY <1>1 DEF TableNext, ReadUserPunch, BeginRow, PunchIdentifier, PunchUserPunch, Punch,
                EndUserPunch, PushBackEmpty, BeginModel, PunchModelValue, EndModel,
                AbortPunch, NewTable
  <2>2. DOMAIN headings = 1..Len(headings) /\ Len(headings) \in Nat /\ next \in Nat
        /\ index \in Nat
    BY <1>1, Lengths DEF Shape, PunchShape
  <2>3. i <= next
    BY <2>1, <2>2 DEF EndRow
  <2>4. /\ headings[i] \in DOMAIN toCol
        /\ Alone(i) => CurrentRow[headings[i]] = IF i <= index THEN punches ELSE Empty
    BY <1>1, <2>2, <2>3 DEF UserRow
  <2>5. /\ toCol' = toCol
        /\ \A k \in DOMAIN toCol : array'[toCol'[k]][rowCount'] = CurrentRow[k]
    BY <1>1, <2>1, EndRowStep DEF EndRow, EndRowOfTable, Shape, columnVars
  <2> QED
    BY <2>4, <2>5
<1>2. ASSUME UNCHANGED tableVars PROVE A
  BY <1>2 DEF tableVars, stageVars
<1> QED
  BY <1>1, <1>2, ShapeKept, UserRowAlways, PTL DEF TableSpec, UserColumns

--------------------------------------------------------------------------------
(* The selected output of a session: what its steps keep true *)

Running == pc # "idle"

\* No file is open that is not on, and none is open between runs; once the opening loop
\* has passed a definition its file is open if it is on.
Opened ==
  /\ stream \subseteq defs /\ toOpen \subseteq defs
  /\ Running \/ stream = {}
  /\ \A n \in stream : fileOn[n]
  /\ pc # "open" => toOpen = {}
  /\ pc \in {"open", "tidy", "punch"} /\ prPunch =>
       \A n \in defs \ toOpen : fileOn[n] => n \in stream \cup unopened

Headed(buffer) == buffer # <<>> /\ Head(buffer) = "heading"

\* The first line of an open file is a heading, or its definition is new; if so this
\* simulation has a block, for which tidy_model writes the headings before a row is punched.
HeadingsFirst ==
  /\ \A n \in stream : (n \in newDef /\ file[n] = <<>>) \/ Headed(file[n])
  /\ newDef \cap stream # {} => newPunch
  /\ pc = "punch" => newDef \cap stream = {}

\* The buffers have the rows that the tables count.
RowsCounted ==
  Running =>
    /\ \A n \in Users : rows[n] <= used.rows
    /\ ~outOfStep =>
         /\ \A n \in stream : RowsIn(file[n]) = rows[n] - base[n]
         /\ strOn[current] => \A n \in Users : RowsIn(text[n]) = rows[n]

\* Between the insertions of do_run, no table is without a definition.
TablesDefined ==
  /\ Running => tables \subseteq defs
  /\ pc \in {"open", "tidy", "punch"} => tables = defs

SessionInv == TypeOK /\ Opened /\ HeadingsFirst /\ RowsCounted /\ TablesDefined

--------------------------------------------------------------------------------
(* Buffers and their rows *)

LEMMA RowsCount ==
  ASSUME NEW b \in Seq(Lines)
  PROVE  RowsIn(b) \in Nat /\ IsFiniteSet({i \in DOMAIN b : b[i] = "row"})
<1>1. DOMAIN b = 1..Len(b) /\ Len(b) \in Nat
  BY LenProperties
<1>2. IsFiniteSet(1..Len(b))
  BY <1>1, FS_Interval
<1>3. IsFiniteSet({i \in DOMAIN b : b[i] = "row"})
  BY <1>1, <1>2, FS_Subset
<1> QED
  BY <1>3, FS_CardinalityType DEF RowsIn

LEMMA NoRows == RowsIn(<<>>) = 0
<1>1. {i \in DOMAIN <<>> : <<>>[i] = "row"} = {}
  OBVIOUS
<1> QED
  BY <1>1, FS_EmptySet DEF RowsIn

\* A line more: its rows, and a first line that stays.
LEMMA LineMore ==
  ASSUME NEW b \in Seq(Lines), NEW what \in Lines
  PROVE  /\ Append(b, what) \in Seq(Lines)
         /\ Append(b, what) # <<>>
         /\ Head(Append(b, what)) = IF b = <<>> THEN what ELSE Head(b)
         /\ RowsIn(Append(b, what)) = IF what = "row" THEN RowsIn(b) + 1 ELSE RowsIn(b)
<1> DEFINE c == Append(b, what)
           R == {i \in DOMAIN b : b[i] = "row"}
           Q == {i \in DOMAIN c : c[i] = "row"}
<1>1. /\ Len(b) \in Nat /\ DOMAIN b = 1..Len(b)
      /\ c \in Seq(Lines) /\ Len(c) = Len(b) + 1 /\ DOMAIN c = 1..(Len(b) + 1)
      /\ \A i \in 1..Len(b) : c[i] = b[i]
      /\ c[Len(b) + 1] = what
  BY AppendProperties, LenProperties
<1>2. c # <<>> /\ Head(c) = IF b = <<>> THEN what ELSE Head(b)
  BY <1>1, AppendProperties, HeadTailAppend
<1>3. IsFiniteSet(R) /\ Cardinality(R) = RowsIn(b) /\ RowsIn(b) \in Nat
  BY RowsCount DEF RowsIn
<1>4. Len(b) + 1 \notin R
  BY <1>1
<1>5. CASE what = "row"
  <2>1. Q = R \cup {Len(b) + 1}
    BY <1>1, <1>5
  <2>2. Cardinality(Q) = Cardinality(R) + 1
    BY <2>1, <1>3, <1>4, FS_AddElement
  <2> QED
    BY <2>2, <1>1, <1>2, <1>3, <1>5 DEF RowsIn
<1>6. CASE what # "row"
  <2>1. Q = R
    BY <1>1, <1>6
  <2> QED
    BY <2>1, <1>1, <1>2, <1>3, <1>6 DEF RowsIn
<1> QED
  BY <1>5, <1>6

\* What Written leaves in the buffer of n.
LEMMA WrittenLine ==
  ASSUME NEW b \in [Users -> Seq(Lines)], NEW to, NEW what \in Lines, NEW on \in BOOLEAN
  PROVE  /\ Written(b, to, what, on) \in [Users -> Seq(Lines)]
         /\ \A n \in Users :
              Written(b, to, what, on)[n] = IF on /\ n \in to THEN Append(b[n], what) ELSE b[n]
<1>1. \A n \in Users : b[n] \in Seq(Lines) /\ Append(b[n], what) \in Seq(Lines)
  BY LineMore
<1> QED
  BY <1>1 DEF Written

\* Headings and parts of a row are no rows.
LEMMA WrittenNoRow ==
  ASSUME NEW b \in [Users -> Seq(Lines)], NEW to, NEW what \in Lines, NEW on \in BOOLEAN,
         what # "row", NEW n \in Users
  PROVE  RowsIn(Written(b, to, what, on)[n]) = RowsIn(b[n])
<1>1. b[n] \in Seq(Lines)
  OBVIOUS
<1>2. Written(b, to, what, on)[n] = IF on /\ n \in to THEN Append(b[n], what) ELSE b[n]
  BY WrittenLine
<1>3. RowsIn(Append(b[n], what)) = RowsIn(b[n])
  BY <1>1, LineMore
<1> QED
  BY <1>2, <1>3

LEMMA WrittenRow ==
  ASSUME NEW b \in [Users -> Seq(Lines)], NEW to, NEW n \in Users
  PROVE  RowsIn(Written(b, to, "row", TRUE)[n]) =
           IF n \in to THEN RowsIn(b[n]) + 1 ELSE RowsIn(b[n])
<1>1. b[n] \in Seq(Lines) /\ "row" \in Lines /\ TRUE \in BOOLEAN
  BY DEF Lines
<1>2. Written(b, to, "row", TRUE)[n] = IF n \in to THEN Append(b[n], "row") ELSE b[n]
  BY DEF Written
<1>3. RowsIn(Append(b[n], "row")) = RowsIn(b[n]) + 1
  BY <1>1, LineMore
<1> QED
  BY <1>2, <1>3

\* A buffer that begins with headings goes on to, and an empty one begins with what
\* is written first.
LEMMA WrittenHeaded ==
  ASSUME NEW b \in [Users -> Seq(Lines)], NEW to, NEW what \in Lines, NEW on \in BOOLEAN,
         NEW n \in Users
  PROVE  /\ Headed(b[n]) => Headed(Written(b, to, what, on)[n])
         /\ b[n] = <<>> /\ n \in to /\ on /\ what = "heading" =>
              Headed(Written(b, to, what, on)[n])
<1>1. b[n] \in Seq(Lines)
  OBVIOUS
<1>2. Written(b, to, what, on)[n] = IF on /\ n \in to THEN Append(b[n], what) ELSE b[n]
  BY WrittenLine
<1>3. /\ Append(b[n], what) # <<>>
      /\ Head(Append(b[n], what)) = IF b[n] = <<>> THEN what ELSE Head(b[n])
  BY <1>1, LineMore
<1>4. Headed(b[n]) => Headed(Append(b[n], what))
  BY <1>3 DEF Headed
<1>5. b[n] = <<>> /\ what = "heading" => Headed(Append(b[n], what))
  BY <1>3 DEF Headed
<1> QED
  BY <1>2, <1>4, <1>5

--------------------------------------------------------------------------------
(* Every step keeps SessionInv *)

\* The steps between runs change no open file, since there is none.
IdleStep ==
  \/ \E n \in Users : SetCurrent(n)
  \/ \E turned \in BOOLEAN : SetFileOn(turned) \/ SetStringOn(turned)
  \/ LoadDatabase
  \/ BeginRun

\* The blocks of the input
BlockStep ==
  \/ \E n \in Users, turned \in BOOLEAN : SetActive(n, turned)
  \/ \E turned \in BOOLEAN : PrintSelectedOutput(turned)
  \/ OtherBlock

\* The ways a run returns
ReturnStep ==
  \/ Finish
  \/ Abort
  \/ \E n \in Users : AbortRow(n)

LEMMA StepIsOf ==
  ASSUME Next
  PROVE  \/ IdleStep \/ BlockStep \/ ReturnStep
         \/ \E n \in Users : DefineSelectedOutput(n)
         \/ Insert
         \/ \E n \in Users : OpenPunchFile(n)
         \/ EndOpening \/ TidyModel \/ PunchAll \/ EndSimulation
  BY DEF Next, IdleStep, BlockStep, ReturnStep

\* The bounds of one run
Counts == [definitions : 0..MaxDefinitions, simulations : 0..MaxSimulations, rows : 0..MaxRows]

LEMMA Emptied ==
  /\ None \in [Users -> Seq(Lines)]
  /\ \A n \in Users : None[n] = <<>>
  /\ [n \in Users |-> 0] \in [Users -> 0..MaxRows]
  /\ [n \in Users |-> FALSE] \in [Users -> BOOLEAN]
  /\ [definitions |-> 0, simulations |-> 0, rows |-> 0] \in Counts
<1>1. <<>> \in Seq(Lines)
  BY EmptySeq
<1>2. 0 \in 0..MaxRows /\ 0 \in 0..MaxDefinitions /\ 0 \in 0..MaxSimulations
  BY SelectedAssumption
<1> QED
  BY <1>1, <1>2 DEF None, Counts

LEMMA SessionInitInv == Init => SessionInv
<1> SUFFICES ASSUME Init PROVE SessionInv
  OBVIOUS
<1> USE SelectedAssumption
<1>1. TypeOK
  <2>1. /\ text \in [Users -> Seq(Lines)] /\ file \in [Users -> Seq(Lines)]
        /\ rows \in [Users -> 0..MaxRows] /\ base \in [Users -> 0..MaxRows]
        /\ fileOn \in [Users -> BOOLEAN] /\ strOn \in [Users -> BOOLEAN]
        /\ used \in Counts
    BY Emptied DEF Init
  <2> QED
    BY <2>1 DEF Init, TypeOK, Pcs, Results, Counts
<1>2. Opened /\ HeadingsFirst /\ TablesDefined
  BY DEF Init, Opened, HeadingsFirst, TablesDefined, Running
<1>3. RowsCounted
  BY DEF Init, RowsCounted, Running
<1> QED
  BY <1>1, <1>2, <1>3 DEF SessionInv

\* The counts of a block stay within their bounds.
LEMMA BlockCounted ==
  ASSUME TypeOK, Block, NEW d \in {0, 1}, d = 1 => used.definitions < MaxDefinitions
  PROVE  Counted(d) \in Counts /\ Counted(d).rows = used.rows
<1> DEFINE sims == IF pc = "readInput" THEN used.simulations + 1 ELSE used.simulations
<1>1. /\ used \in Counts /\ used.definitions \in 0..MaxDefinitions
      /\ used.simulations \in 0..MaxSimulations /\ used.rows \in 0..MaxRows
  BY DEF TypeOK, Counts
<1>2. used.definitions + d \in 0..MaxDefinitions /\ sims \in 0..MaxSimulations
  BY <1>1, SelectedAssumption DEF Block
<1>3. PICK a \in 0..MaxSimulations, b \in 0..MaxDefinitions :
        a = sims /\ b = used.definitions + d
  BY <1>2
<1>4. Counted(d) = [used EXCEPT !.simulations = a, !.definitions = b]
  BY <1>1, <1>3 DEF Counted, Counts
<1>5. /\ [used EXCEPT !.simulations = a, !.definitions = b] \in Counts
      /\ [used EXCEPT !.simulations = a, !.definitions = b].rows = used.rows
  BY <1>1, <1>3 DEF Counts
<1> QED
  BY <1>4, <1>5

\* While a run may punch another row, every table has room for it.
LEMMA RoomForRow ==
  ASSUME SessionInv, Running, used.rows < MaxRows, NEW n \in Users
  PROVE  rows[n] + 1 \in 0..MaxRows
<1>1. rows[n] \in Nat /\ used.rows \in Nat /\ MaxRows \in Nat
  BY SelectedAssumption DEF SessionInv, TypeOK
<1>2. rows[n] <= used.rows
  BY DEF SessionInv, RowsCounted
<1> QED
  BY <1>1, <1>2

LEMMA TypeKept ==
  ASSUME SessionInv, Next
  PROVE  TypeOK'
<1> USE SelectedAssumption
<1>0. TypeOK
  BY DEF SessionInv
<1>1. CASE \E n \in Users : SetCurrent(n)
  BY <1>0, <1>1 DEF TypeOK, SetCurrent, switchVars, defVars, punchVars, readVars, bufferVars
<1>2. CASE \E turned \in BOOLEAN : SetFileOn(turned) \/ SetStringOn(turned)
  BY <1>0, <1>2 DEF TypeOK, SetFileOn, SetStringOn, switchVars, defVars, punchVars, readVars,
              bufferVars
<1>3. CASE LoadDatabase
  <2>1. /\ text' \in [Users -> Seq(Lines)] /\ rows' \in [Users -> 0..MaxRows]
        /\ fileOn' \in [Users -> BOOLEAN] /\ strOn' \in [Users -> BOOLEAN]
    BY <1>0, <1>3, Emptied DEF TypeOK, LoadDatabase
  <2> QED
    BY <1>0, <1>3, <2>1 DEF TypeOK, LoadDatabase, Results, readVars
<1>4. CASE BeginRun
  <2>1. text' \in [Users -> Seq(Lines)] /\ rows' \in [Users -> 0..MaxRows]
    BY <1>4, Emptied DEF BeginRun
  <2> QED
    BY <1>0, <1>4, <2>1 DEF TypeOK, BeginRun, Results, Pcs, switchVars, defVars, punchVars, readVars
<1>5. CASE \E n \in Users : DefineSelectedOutput(n)
  <2>1. PICK n \in Users : DefineSelectedOutput(n)
    BY <1>5
  <2>2. used' \in Counts
    BY <1>0, <2>1, BlockCounted DEF DefineSelectedOutput
  <2>3. /\ pc' \in Pcs /\ defs' \in SUBSET Users /\ newDef' \in SUBSET defs'
        /\ inactive' \in SUBSET defs' /\ stream' \in SUBSET Users
        /\ unopened' \in SUBSET Users /\ newPunch' \in BOOLEAN /\ inputError' \in BOOLEAN
    BY <1>0, <2>1 DEF TypeOK, DefineSelectedOutput, Block, Pcs
  <2>4. file' \in [Users -> Seq(Lines)] /\ base' \in [Users -> 0..MaxRows]
    <3>1. file' = [file EXCEPT ![n] = <<>>] /\ <<>> \in Seq(Lines)
      BY <2>1, EmptySeq DEF DefineSelectedOutput
    <3>2. base' = base \/ base' = [base EXCEPT ![n] = rows[n]]
      BY <2>1 DEF DefineSelectedOutput
    <3> QED
      BY <1>0, <3>1, <3>2 DEF TypeOK
  <2>5. UNCHANGED <<result, toOpen, switchVars, punchVars, bufferVars, lines>>
    BY <2>1 DEF DefineSelectedOutput
  <2> QED
    BY <1>0, <2>2, <2>3, <2>4, <2>5 DEF TypeOK, Counts, switchVars, punchVars, bufferVars
<1>6. CASE BlockStep
  <2>1. Block /\ used' = Counted(0)
    BY <1>6 DEF BlockStep, SetActive, PrintSelectedOutput, OtherBlock
  <2>2. used' \in Counts
    BY <1>0, <2>1, BlockCounted
  <2>3. /\ pc' \in Pcs /\ inactive' \in SUBSET defs
        /\ newPunch' \in BOOLEAN /\ inputError' \in BOOLEAN
        /\ prPunch' \in BOOLEAN /\ punchOn' \in BOOLEAN
    BY <1>0, <1>6 DEF TypeOK, BlockStep, SetActive, PrintSelectedOutput, OtherBlock, Block, Pcs,
                punchVars, readVars, defVars
  <2>4. /\ UNCHANGED <<result, defs, newDef, stream, file, base, unopened, toOpen, outOfStep>>
        /\ UNCHANGED <<switchVars, bufferVars, lines>>
    BY <1>6 DEF BlockStep, SetActive, PrintSelectedOutput, OtherBlock, punchVars, readVars,
                defVars
  <2> QED
    BY <1>0, <2>2, <2>3, <2>4 DEF TypeOK, Counts, switchVars, bufferVars
<1>7. CASE Insert
  BY <1>0, <1>7 DEF TypeOK, Insert, Pcs, switchVars, defVars, punchVars
<1>8. CASE \E n \in Users : OpenPunchFile(n)
  <2>1. PICK n \in Users : OpenPunchFile(n)
    BY <1>8
  <2>2. /\ newDef' \in SUBSET defs /\ stream' \in SUBSET Users /\ unopened' \in SUBSET Users
        /\ toOpen' \in SUBSET Users /\ base' \in [Users -> 0..MaxRows] /\ punchOn' \in BOOLEAN
    <3>1. /\ newDef' = {} \/ newDef' = newDef
          /\ punchOn' = prPunch \/ punchOn' = punchOn
      BY <2>1 DEF OpenPunchFile, TidyPunch
    <3>2. /\ stream' = stream \cup {n} \/ stream' = stream
          /\ unopened' \subseteq unopened \cup {n} /\ toOpen' \subseteq toOpen
      BY <2>1 DEF OpenPunchFile
    <3>3. base' = base \/ base' = [base EXCEPT ![n] = rows[n]]
      BY <2>1 DEF OpenPunchFile
    <3>4. base' \in [Users -> 0..MaxRows]
      BY <1>0, <3>3 DEF TypeOK
    <3> QED
      BY <1>0, <3>1, <3>2, <3>4 DEF TypeOK
  <2>3. text' \in [Users -> Seq(Lines)] /\ file' \in [Users -> Seq(Lines)]
    <3>1. "heading" \in Lines /\ TRUE \in BOOLEAN
      BY DEF Lines
    <3>2. [file EXCEPT ![n] = <<>>] \in [Users -> Seq(Lines)]
      BY <1>0, EmptySeq DEF TypeOK
    <3>3. CASE UNCHANGED <<file, text>>
      BY <1>0, <3>3 DEF TypeOK
    <3>4. CASE TidyPunch(newDef \cup {n}, stream', [file EXCEPT ![n] = <<>>])
      <4>1. \A b \in [Users -> Seq(Lines)] : \A to :
              Written(b, to, "heading", TRUE) \in [Users -> Seq(Lines)]
        BY <3>1, WrittenLine
      <4> QED
        BY <1>0, <3>2, <3>4, <4>1 DEF TypeOK, TidyPunch
    <3> QED
      BY <2>1, <3>3, <3>4 DEF OpenPunchFile
  <2> QED
    BY <1>0, <2>1, <2>2, <2>3 DEF TypeOK, OpenPunchFile, switchVars
<1>9. CASE EndOpening
  BY <1>0, <1>9 DEF TypeOK, EndOpening, Pcs, switchVars, defVars, punchVars, readVars, bufferVars
<1>10. CASE TidyModel
  <2>1. "heading" \in Lines /\ TRUE \in BOOLEAN
    BY DEF Lines
  <2>2. text' \in [Users -> Seq(Lines)] /\ file' \in [Users -> Seq(Lines)]
    <3>1. \A b \in [Users -> Seq(Lines)] : \A to :
            Written(b, to, "heading", TRUE) \in [Users -> Seq(Lines)]
      BY <2>1, WrittenLine
    <3>2. text \in [Users -> Seq(Lines)] /\ file \in [Users -> Seq(Lines)]
      BY <1>0 DEF TypeOK
    <3>3. TidyPunch(newDef, stream, file) \/ UNCHANGED <<text, file>>
      BY <1>10 DEF TidyModel
    <3> QED
      BY <3>1, <3>2, <3>3 DEF TidyPunch
  <2>3. newDef' \in SUBSET defs /\ punchOn' \in BOOLEAN
    BY <1>0, <1>10 DEF TypeOK, TidyModel, TidyPunch
  <2> QED
    BY <1>0, <1>10, <2>2, <2>3 DEF TypeOK, TidyModel, Pcs, switchVars, readVars
<1>11. CASE PunchAll
  <2>1. /\ used.rows \in 0..MaxRows /\ used.rows < MaxRows /\ used \in Counts
        /\ used' = [used EXCEPT !.rows = @ + 1]
    BY <1>0, <1>11 DEF TypeOK, PunchAll, Counts
  <2>2. used' \in Counts
    BY <2>1 DEF Counts
  <2>3. \A n \in Users : rows[n] + 1 \in 0..MaxRows
    BY <1>0, <1>11, RoomForRow DEF PunchAll, Running
  <2>4. rows' \in [Users -> 0..MaxRows]
    BY <1>0, <1>11, <2>3 DEF TypeOK, PunchAll, Punched
  <2>5. text' \in [Users -> Seq(Lines)] /\ file' \in [Users -> Seq(Lines)]
    <3>1. "row" \in Lines /\ punchOn \in BOOLEAN
      BY <1>0 DEF Lines, TypeOK
    <3>2. text \in [Users -> Seq(Lines)] /\ file \in [Users -> Seq(Lines)]
      BY <1>0 DEF TypeOK
    <3> QED
      BY <1>11, <3>1, <3>2, WrittenLine DEF PunchAll, Punched
  <2>6. outOfStep' \in BOOLEAN
    BY <1>0, <1>11 DEF TypeOK, PunchAll
  <2> QED
    BY <1>0, <1>11, <2>2, <2>4, <2>5, <2>6 DEF TypeOK, Counts, PunchAll, switchVars, readVars
<1>12. CASE EndSimulation
  BY <1>0, <1>12 DEF TypeOK, EndSimulation, Pcs, switchVars, defVars, punchVars, bufferVars
<1>13. CASE ReturnStep
  <2>1. /\ used' = [definitions |-> 0, simulations |-> 0, rows |-> 0]
        /\ file' = None /\ base' = [n \in Users |-> 0]
        /\ stream' = {} /\ unopened' = {} /\ toOpen' = {}
        /\ newPunch' = FALSE /\ inputError' = FALSE /\ outOfStep' = FALSE
        /\ pc' = "idle" /\ result' \in {"ok", "errors"}
        /\ UNCHANGED <<defs, newDef, inactive, switchVars, tables>>
    BY <1>13 DEF ReturnStep, Finish, Abort, AbortRow, Return, CloseOutputFiles
  <2>2. used' \in Counts /\ file' \in [Users -> Seq(Lines)] /\ base' \in [Users -> 0..MaxRows]
    BY <2>1, Emptied
  <2>3. /\ prPunch' \in BOOLEAN /\ punchOn' \in BOOLEAN /\ lines' \in SUBSET Users
    BY <1>0, <1>13 DEF TypeOK, ReturnStep, Finish, Abort, AbortRow
  <2>4. text' \in [Users -> Seq(Lines)] /\ rows' \in [Users -> 0..MaxRows]
    <3>1. CASE Finish \/ Abort
      BY <1>0, <3>1 DEF TypeOK, Finish, Abort
    <3>2. CASE \E n \in Users : AbortRow(n)
      <4>1. PICK n \in Users : AbortRow(n)
        BY <3>2
      <4>2. \A m \in Users : rows[m] + 1 \in 0..MaxRows
        BY <1>0, <4>1, RoomForRow DEF AbortRow, Running
      <4>3. rows' \in [Users -> 0..MaxRows]
        BY <1>0, <4>1, <4>2 DEF TypeOK, AbortRow
      <4>4. /\ "row" \in Lines /\ "part" \in Lines /\ punchOn \in BOOLEAN
            /\ text \in [Users -> Seq(Lines)]
        BY <1>0 DEF Lines, TypeOK
      <4>5. \A b \in [Users -> Seq(Lines)] : \A to :
              /\ Written(b, to, "row", punchOn) \in [Users -> Seq(Lines)]
              /\ Written(b, to, "part", punchOn) \in [Users -> Seq(Lines)]
        BY <4>4, WrittenLine
      <4>6. text' \in [Users -> Seq(Lines)]
        BY <4>1, <4>4, <4>5 DEF AbortRow
      <4> QED
        BY <4>3, <4>6
    <3> QED
      BY <1>13, <3>1, <3>2 DEF ReturnStep
  <2> QED
    BY <1>0, <2>1, <2>2, <2>3, <2>4 DEF TypeOK, Pcs, Results, Counts, switchVars
<1> QED
  BY <1>1, <1>2, <1>3, <1>4, <1>5, <1>6, <1>7, <1>8, <1>9, <1>10, <1>11, <1>12, <1>13, StepIsOf
     DEF IdleStep

LEMMA TablesKept ==
  ASSUME SessionInv, Next
  PROVE  TablesDefined'
<1>1. TablesDefined /\ TypeOK
  BY DEF SessionInv
<1>2. CASE IdleStep
  BY <1>1, <1>2 DEF TablesDefined, Running, IdleStep, SetCurrent, SetFileOn, SetStringOn,
                    LoadDatabase, BeginRun
<1>3. CASE BlockStep \/ \E n \in Users : DefineSelectedOutput(n)
  BY <1>1, <1>3 DEF TablesDefined, Running, BlockStep, SetActive, PrintSelectedOutput,
                    OtherBlock, DefineSelectedOutput, Block, bufferVars, defVars
<1>4. CASE ReturnStep
  BY <1>4 DEF TablesDefined, Running, ReturnStep, Finish, Abort, AbortRow, Return
<1>5. CASE Insert
  BY <1>1, <1>5 DEF TablesDefined, Running, Insert, defVars
<1>6. CASE \/ \E n \in Users : OpenPunchFile(n)
           \/ EndOpening \/ TidyModel \/ PunchAll \/ EndSimulation
  BY <1>1, <1>6 DEF TablesDefined, Running, OpenPunchFile, EndOpening, TidyModel, PunchAll,
                    EndSimulation, defVars, bufferVars
<1> QED
  BY <1>2, <1>3, <1>4, <1>5, <1>6, StepIsOf

LEMMA OpenedKept ==
  ASSUME SessionInv, Next
  PROVE  Opened'
<1>1. Opened /\ TypeOK
  BY DEF SessionInv
<1>2. CASE IdleStep
  <2>1. stream = {} /\ toOpen = {} /\ pc = "idle"
    BY <1>1, <1>2 DEF Opened, Running, IdleStep, SetCurrent, SetFileOn, SetStringOn,
                      LoadDatabase, BeginRun
  <2>2. stream' = {} /\ toOpen' = {} /\ pc' \in {"idle", "readInput"}
    BY <1>2, <2>1 DEF IdleStep, SetCurrent, SetFileOn, SetStringOn, LoadDatabase, BeginRun,
                      defVars, readVars
  <2> QED
    BY <2>2 DEF Opened, Running
<1>3. CASE BlockStep
  <2>1. /\ UNCHANGED <<defs, stream, fileOn, toOpen>>
        /\ pc # "open" /\ pc' = "readBlock"
    BY <1>3 DEF BlockStep, SetActive, PrintSelectedOutput, OtherBlock, Block, defVars,
                readVars, switchVars
  <2> QED
    BY <1>1, <2>1 DEF Opened, Running
<1>4. CASE \E n \in Users : DefineSelectedOutput(n)
  <2>1. PICK n \in Users : DefineSelectedOutput(n)
    BY <1>4
  <2>2. /\ toOpen = {} /\ toOpen' = {} /\ pc' = "readBlock" /\ UNCHANGED fileOn
        /\ defs' = defs \cup {n}
        /\ \/ fileOn[n] /\ stream' = stream \cup {n}
           \/ stream' = stream \ {n}
    BY <1>1, <2>1 DEF Opened, DefineSelectedOutput, Block, switchVars
  <2> QED
    BY <1>1, <2>2 DEF Opened, Running
<1>5. CASE ReturnStep
  <2>1. stream' = {} /\ toOpen' = {} /\ pc' = "idle"
    BY <1>5 DEF ReturnStep, Finish, Abort, AbortRow, Return, CloseOutputFiles
  <2> QED
    BY <2>1 DEF Opened, Running
<1>6. CASE Insert
  <2>1. /\ UNCHANGED <<defs, stream, fileOn, unopened, prPunch>>
        /\ toOpen' = (IF prPunch THEN defs ELSE {}) /\ pc = "readBlock" /\ pc' = "open"
    BY <1>6 DEF Insert, defVars, switchVars, punchVars
  <2> QED
    BY <1>1, <2>1 DEF Opened, Running
<1>7. CASE \E n \in Users : OpenPunchFile(n)
  <2>1. PICK n \in Users : OpenPunchFile(n)
    BY <1>7
  <2>2. /\ UNCHANGED <<defs, fileOn, prPunch>> /\ pc = "open" /\ pc' = "open"
        /\ n \in toOpen /\ toOpen' = toOpen \ {n}
        /\ \/ fileOn[n] /\ stream' = stream \cup {n} /\ unopened' = unopened \ {n}
           \/ stream' = stream /\ unopened' = unopened \cup {n}
           \/ (~fileOn[n] \/ n \in stream) /\ UNCHANGED <<stream, unopened>>
    BY <2>1 DEF OpenPunchFile, switchVars
  <2> QED
    BY <1>1, <2>2 DEF Opened, Running
<1>8. CASE EndOpening \/ TidyModel \/ PunchAll \/ EndSimulation
  <2>1. /\ UNCHANGED <<defs, stream, fileOn, unopened, prPunch, toOpen>>
        /\ toOpen = {} /\ Running /\ Running'
        /\ pc \in {"open", "tidy", "punch"}
        /\ pc' # "open"
    BY <1>1, <1>8 DEF Opened, Running, EndOpening, TidyModel, PunchAll, EndSimulation,
                      switchVars, defVars, punchVars, readVars
  <2> QED
    BY <1>1, <2>1 DEF Opened
<1> QED
  BY <1>2, <1>3, <1>4, <1>5, <1>6, <1>7, <1>8, StepIsOf

\* tidy_punch writes headings to the open files of new definitions.
LEMMA TidyPunchHeads ==
  ASSUME NEW new, NEW open, NEW b \in [Users -> Seq(Lines)], TidyPunch(new, open, b),
         NEW n \in Users
  PROVE  /\ Headed(b[n]) => Headed(file'[n])
         /\ b[n] = <<>> /\ n \in new \cap open => Headed(file'[n])
         /\ newDef' = {}
<1>1. "heading" \in Lines /\ TRUE \in BOOLEAN
  BY DEF Lines
<1>2. file' = Written(b, new \cap open, "heading", TRUE) /\ newDef' = {}
  BY DEF TidyPunch
<1>3. /\ Headed(b[n]) => Headed(Written(b, new \cap open, "heading", TRUE)[n])
      /\ b[n] = <<>> /\ n \in new \cap open =>
           Headed(Written(b, new \cap open, "heading", TRUE)[n])
  BY <1>1, WrittenHeaded
<1> QED
  BY <1>2, <1>3

LEMMA HeadingsKept ==
  ASSUME SessionInv, Next
  PROVE  HeadingsFirst'
<1>1. /\ HeadingsFirst /\ TypeOK /\ Opened
      /\ stream \subseteq Users /\ newDef \subseteq Users
      /\ file \in [Users -> Seq(Lines)]
  BY DEF SessionInv, TypeOK
<1>2. CASE IdleStep \/ ReturnStep
  <2>1. IdleStep => stream' = {}
    BY <1>1 DEF Opened, Running, IdleStep, SetCurrent, SetFileOn, SetStringOn, LoadDatabase,
                BeginRun, defVars
  <2>2. ReturnStep => stream' = {}
    BY DEF ReturnStep, Finish, Abort, AbortRow, Return, CloseOutputFiles
  <2> QED
    BY <1>2, <2>1, <2>2 DEF HeadingsFirst
<1>3. CASE \E n \in Users : DefineSelectedOutput(n)
  <2>1. PICK n \in Users : DefineSelectedOutput(n)
    BY <1>3
  <2>2. /\ newPunch' = TRUE /\ pc' = "readBlock" /\ newDef' = newDef \cup {n}
        /\ stream' \subseteq stream \cup {n}
        /\ file'[n] = <<>> /\ \A m \in Users : m # n => file'[m] = file[m]
    BY <1>1, <2>1 DEF DefineSelectedOutput, Block
  <2>3. \A m \in stream' : (m \in newDef' /\ file'[m] = <<>>) \/ Headed(file'[m])
    BY <1>1, <2>2 DEF HeadingsFirst
  <2> QED
    BY <2>2, <2>3 DEF HeadingsFirst
<1>4. CASE BlockStep \/ Insert \/ EndOpening
  <2>1. UNCHANGED <<newDef, stream, file>> /\ pc' # "punch"
    BY <1>4 DEF BlockStep, SetActive, PrintSelectedOutput, OtherBlock, Insert, EndOpening,
                Block, defVars
  <2>2. newPunch' = TRUE \/ newPunch' = newPunch
    BY <1>4 DEF BlockStep, SetActive, PrintSelectedOutput, OtherBlock, Insert, EndOpening,
                readVars
  <2> QED
    BY <1>1, <2>1, <2>2 DEF HeadingsFirst
<1>5. CASE \E n \in Users : OpenPunchFile(n)
  <2>1. PICK n \in Users : OpenPunchFile(n)
    BY <1>5
  <2>2. CASE UNCHANGED <<newDef, stream, file>>
    BY <1>1, <2>1, <2>2 DEF HeadingsFirst, OpenPunchFile
  <2>3. CASE /\ stream' = stream \cup {n}
             /\ TidyPunch(newDef \cup {n}, stream', [file EXCEPT ![n] = <<>>])
    <3> DEFINE b == [file EXCEPT ![n] = <<>>]
    <3>1. /\ b \in [Users -> Seq(Lines)] /\ b[n] = <<>>
          /\ \A m \in Users : m # n => b[m] = file[m]
          /\ TidyPunch(newDef \cup {n}, stream', b)
      BY <1>1, <2>3, EmptySeq
    <3> HIDE DEF b
    <3>2. \A m \in Users :
            /\ Headed(b[m]) => Headed(file'[m])
            /\ b[m] = <<>> /\ m \in (newDef \cup {n}) \cap stream' => Headed(file'[m])
      BY <3>1, TidyPunchHeads
    <3>3. newDef' = {} /\ pc' = "open"
      BY <2>1, <2>3 DEF TidyPunch, OpenPunchFile
    <3>4. \A m \in stream' : Headed(file'[m])
      <4> SUFFICES ASSUME NEW m \in stream' PROVE Headed(file'[m])
        OBVIOUS
      <4>1. m \in Users
        BY <1>1, <2>1, <2>3
      <4>2. CASE m = n
        BY <2>3, <3>1, <3>2, <4>1, <4>2
      <4>3. CASE m # n
        <5>1. m \in stream /\ b[m] = file[m]
          BY <2>3, <3>1, <4>1, <4>3
        <5> QED
          BY <1>1, <3>2, <4>1, <5>1 DEF HeadingsFirst
      <4> QED
        BY <4>2, <4>3
    <3> QED
      BY <3>3, <3>4 DEF HeadingsFirst
  <2> QED
    BY <2>1, <2>2, <2>3 DEF OpenPunchFile
<1>6. CASE TidyModel
  <2>1. stream' = stream /\ newPunch' = newPunch
    BY <1>6 DEF TidyModel, readVars
  <2>2. CASE ~newPunch /\ UNCHANGED <<file, newDef>>
    BY <1>1, <2>1, <2>2 DEF HeadingsFirst
  <2>3. CASE TidyPunch(newDef, stream, file)
    <3>1. \A m \in Users :
            /\ Headed(file[m]) => Headed(file'[m])
            /\ file[m] = <<>> /\ m \in newDef \cap stream => Headed(file'[m])
      BY <1>1, <2>3, TidyPunchHeads
    <3>2. newDef' = {}
      BY <2>3 DEF TidyPunch
    <3>3. \A m \in stream' : Headed(file'[m])
      BY <1>1, <2>1, <3>1 DEF HeadingsFirst
    <3> QED
      BY <3>2, <3>3 DEF HeadingsFirst
  <2> QED
    BY <1>6, <2>2, <2>3 DEF TidyModel
<1>7. CASE PunchAll
  <2>1. /\ UNCHANGED <<newDef, stream, newPunch>> /\ newDef \cap stream = {}
        /\ file' = Written(file, (defs \ inactive) \cap stream, "row", punchOn)
        /\ "row" \in Lines /\ punchOn \in BOOLEAN
    BY <1>1, <1>7 DEF HeadingsFirst, TypeOK, PunchAll, Punched, readVars, Lines
  <2>2. \A m \in Users : Headed(file[m]) => Headed(file'[m])
    BY <1>1, <2>1, WrittenHeaded
  <2> QED
    BY <1>1, <2>1, <2>2 DEF HeadingsFirst
<1>8. CASE EndSimulation
  BY <1>1, <1>8 DEF HeadingsFirst, EndSimulation, defVars
<1> QED
  BY <1>2, <1>3, <1>4, <1>5, <1>6, <1>7, <1>8, StepIsOf

LEMMA TidyPunchRows ==
  ASSUME NEW new, NEW open, NEW b \in [Users -> Seq(Lines)], text \in [Users -> Seq(Lines)],
         TidyPunch(new, open, b), NEW n \in Users
  PROVE  RowsIn(file'[n]) = RowsIn(b[n]) /\ RowsIn(text'[n]) = RowsIn(text[n])
<1>1. "heading" \in Lines /\ TRUE \in BOOLEAN
  BY DEF Lines
<1>2. /\ RowsIn(Written(b, new \cap open, "heading", TRUE)[n]) = RowsIn(b[n])
      /\ RowsIn(Written(text, new \cap StringUsers, "heading", TRUE)[n]) = RowsIn(text[n])
  BY <1>1, WrittenNoRow
<1> QED
  BY <1>2 DEF TidyPunch

LEMMA RowsKept ==
  ASSUME SessionInv, Next
  PROVE  RowsCounted'
<1>1. /\ RowsCounted /\ TypeOK /\ Opened
      /\ stream \subseteq Users /\ current \in Users /\ used.rows \in Nat
      /\ rows \in [Users -> 0..MaxRows]
      /\ text \in [Users -> Seq(Lines)] /\ file \in [Users -> Seq(Lines)]
      /\ \A n \in Users : rows[n] \in Nat /\ base[n] \in Nat
      /\ \A n \in Users : text[n] \in Seq(Lines) /\ file[n] \in Seq(Lines)
  <2>1. RowsCounted /\ TypeOK /\ Opened
    BY DEF SessionInv
  <2>2. \A n \in Users : rows[n] \in Nat /\ base[n] \in Nat
    BY <2>1, SelectedAssumption DEF TypeOK
  <2>3. /\ stream \subseteq Users /\ current \in Users /\ used.rows \in Nat
        /\ rows \in [Users -> 0..MaxRows]
    <3>1. /\ stream \in SUBSET Users /\ current \in Users
          /\ rows \in [Users -> 0..MaxRows]
      BY <2>1 DEF TypeOK
    <3>2. used \in Counts
      BY <2>1 DEF TypeOK, Counts
    <3>3. used.rows \in Nat
      BY <3>2, SelectedAssumption DEF Counts
    <3> QED
      BY <3>1, <3>3
  <2>4. /\ text \in [Users -> Seq(Lines)] /\ file \in [Users -> Seq(Lines)]
        /\ \A n \in Users : text[n] \in Seq(Lines) /\ file[n] \in Seq(Lines)
    <3>1. text \in [Users -> Seq(Lines)] /\ file \in [Users -> Seq(Lines)]
      BY <2>1 DEF TypeOK
    <3> QED
      BY <3>1
  <2> QED
    BY <2>1, <2>2, <2>3, <2>4
<1>2. \A n \in Users : RowsIn(text[n]) \in Nat /\ RowsIn(file[n]) \in Nat
  BY <1>1, RowsCount
<1>3. CASE ReturnStep
  BY <1>3 DEF RowsCounted, Running, ReturnStep, Finish, Abort, AbortRow, Return
<1>4. CASE IdleStep
  <2>1. CASE BeginRun
    <3>1. /\ stream' = {} /\ rows' = [n \in Users |-> 0] /\ text' = None
          /\ used' = used
      BY <1>1, <2>1 DEF Opened, Running, BeginRun, defVars
    <3>2. \A n \in Users : rows'[n] = 0 /\ RowsIn(text'[n]) = 0
      BY <3>1, Emptied, NoRows
    <3> QED
      BY <1>1, <3>1, <3>2 DEF RowsCounted
  <2>2. CASE ~BeginRun
    <3>1. pc' = "idle"
      BY <1>4, <2>2 DEF IdleStep, SetCurrent, SetFileOn, SetStringOn, LoadDatabase
    <3> QED
      BY <3>1 DEF RowsCounted, Running
  <2> QED
    BY <2>1, <2>2
<1>5. CASE \E n \in Users : DefineSelectedOutput(n)
  <2>1. PICK n \in Users : DefineSelectedOutput(n)
    BY <1>5
  <2>2. /\ Running /\ used'.rows = used.rows
        /\ UNCHANGED <<rows, text, outOfStep, strOn, current>>
    BY <1>1, <2>1, BlockCounted DEF DefineSelectedOutput, Block, Running, switchVars, punchVars,
                                    bufferVars
  <2>3. /\ file'[n] = <<>> /\ \A m \in Users : m # n => file'[m] = file[m]
        /\ stream' \subseteq stream \cup {n}
    BY <1>1, <2>1 DEF DefineSelectedOutput
  <2>5. /\ n \in stream' => base'[n] = rows[n]
        /\ \A m \in Users : m # n => base'[m] = base[m]
    <3>1. base \in [Users -> 0..MaxRows]
      BY <1>1 DEF TypeOK
    <3>2. \/ base' = [base EXCEPT ![n] = rows[n]]
          \/ base' = base /\ stream' = stream \ {n}
      BY <2>1 DEF DefineSelectedOutput
    <3> QED
      BY <3>1, <3>2
  <2>4. ~outOfStep => \A m \in stream' : RowsIn(file'[m]) = rows[m] - base'[m]
    <3> SUFFICES ASSUME ~outOfStep, NEW m \in stream' PROVE RowsIn(file'[m]) = rows[m] - base'[m]
      OBVIOUS
    <3>1. CASE m = n
      BY <1>1, <2>3, <2>5, <3>1, NoRows
    <3>2. CASE m # n
      BY <1>1, <2>2, <2>3, <2>5, <3>2 DEF RowsCounted
    <3> QED
      BY <3>1, <3>2
  <2> QED
    BY <1>1, <2>2, <2>4 DEF RowsCounted
<1>6. CASE BlockStep \/ Insert \/ EndOpening \/ EndSimulation
  <2>1. /\ Running /\ UNCHANGED <<rows, text, outOfStep, strOn, current, stream, file, base>>
    BY <1>6 DEF BlockStep, SetActive, PrintSelectedOutput, OtherBlock, Insert, EndOpening,
                EndSimulation, Block, Running, switchVars, punchVars, bufferVars, defVars
  <2>2. used'.rows = used.rows
    <3>1. BlockStep => Block /\ used' = Counted(0)
      BY DEF BlockStep, SetActive, PrintSelectedOutput, OtherBlock
    <3>2. Insert \/ EndOpening \/ EndSimulation => used' = used
      BY DEF Insert, EndOpening, EndSimulation
    <3> QED
      BY <1>1, <1>6, <3>1, <3>2, BlockCounted
  <2> QED
    BY <1>1, <2>1, <2>2 DEF RowsCounted
<1>7. CASE \E n \in Users : OpenPunchFile(n)
  <2>1. PICK n \in Users : OpenPunchFile(n)
    BY <1>7
  <2>2. /\ Running /\ used' = used /\ n \in Users
        /\ UNCHANGED <<rows, outOfStep, strOn, current>>
    BY <2>1 DEF OpenPunchFile, Running, switchVars
  <2>3. CASE UNCHANGED <<text, file, stream, base>>
    BY <1>1, <2>2, <2>3 DEF RowsCounted
  <2>4. CASE /\ n \notin stream /\ stream' = stream \cup {n}
             /\ base' = [base EXCEPT ![n] = rows[n]]
             /\ TidyPunch(newDef \cup {n}, stream', [file EXCEPT ![n] = <<>>])
    <3> DEFINE b == [file EXCEPT ![n] = <<>>]
    <3>1. /\ b \in [Users -> Seq(Lines)] /\ b[n] = <<>>
          /\ \A m \in Users : m # n => b[m] = file[m]
          /\ TidyPunch(newDef \cup {n}, stream', b)
      BY <1>1, <2>4, EmptySeq
    <3> HIDE DEF b
    <3>2. \A m \in Users : RowsIn(file'[m]) = RowsIn(b[m]) /\ RowsIn(text'[m]) = RowsIn(text[m])
      BY <1>1, <3>1, TidyPunchRows
    <3>3. base'[n] = rows[n] /\ \A m \in Users : m # n => base'[m] = base[m]
      BY <1>1, <2>4 DEF TypeOK
    <3>4. ~outOfStep => \A m \in stream' : RowsIn(file'[m]) = rows[m] - base'[m]
      <4> SUFFICES ASSUME ~outOfStep, NEW m \in stream'
                   PROVE  RowsIn(file'[m]) = rows[m] - base'[m]
        OBVIOUS
      <4>1. CASE m = n
        BY <1>1, <2>2, <3>1, <3>2, <3>3, <4>1, NoRows
      <4>2. CASE m # n
        BY <1>1, <2>2, <2>4, <3>1, <3>2, <3>3, <4>2 DEF RowsCounted
      <4> QED
        BY <4>1, <4>2
    <3>5. strOn[current] /\ ~outOfStep => \A m \in Users : RowsIn(text'[m]) = rows[m]
      BY <1>1, <2>2, <3>2 DEF RowsCounted
    <3> QED
      BY <1>1, <2>2, <3>4, <3>5 DEF RowsCounted
  <2> QED
    BY <2>1, <2>3, <2>4 DEF OpenPunchFile
<1>8. CASE TidyModel
  <2>1. /\ Running /\ UNCHANGED <<rows, outOfStep, strOn, current, stream, base, used>>
    BY <1>8 DEF TidyModel, Running, switchVars
  <2>2. \A m \in Users : RowsIn(file'[m]) = RowsIn(file[m]) /\ RowsIn(text'[m]) = RowsIn(text[m])
    <3>1. UNCHANGED <<text, file>> \/ TidyPunch(newDef, stream, file)
      BY <1>8 DEF TidyModel
    <3> QED
      BY <1>1, <3>1, TidyPunchRows
  <2> QED
    BY <1>1, <2>1, <2>2 DEF RowsCounted
<1>9. CASE PunchAll
  <2> DEFINE done == defs \ inactive
  <2>1. /\ Running /\ UNCHANGED <<strOn, current, stream, base>>
        /\ used'.rows = used.rows + 1
        /\ outOfStep' = (outOfStep \/ ~punchOn)
    BY <1>1, <1>9 DEF PunchAll, Running, switchVars, TypeOK
  <2>2. \A m \in Users : rows'[m] = IF m \in done THEN rows[m] + 1 ELSE rows[m]
    BY <1>9 DEF PunchAll, Punched
  <2>3. \A m \in Users : rows'[m] <= used'.rows
    <3> HIDE DEF done
    <3> SUFFICES ASSUME NEW m \in Users PROVE rows'[m] <= used.rows + 1
      BY <2>1
    <3>1. rows[m] <= used.rows /\ rows[m] \in Nat /\ used.rows \in Nat
      BY <1>1, <2>1 DEF RowsCounted
    <3> QED
      BY <2>2, <3>1
  <2>4. ~outOfStep' => punchOn = TRUE /\ ~outOfStep
    BY <1>1, <2>1 DEF TypeOK
  <2>5. ~outOfStep' =>
          \A m \in Users :
            /\ RowsIn(file'[m]) = IF m \in done \cap stream THEN RowsIn(file[m]) + 1
                                  ELSE RowsIn(file[m])
            /\ RowsIn(text'[m]) = IF m \in done \cap StringUsers THEN RowsIn(text[m]) + 1
                                  ELSE RowsIn(text[m])
    <3> SUFFICES ASSUME ~outOfStep'
                 PROVE  \A m \in Users :
            /\ RowsIn(file'[m]) = IF m \in done \cap stream THEN RowsIn(file[m]) + 1
                                  ELSE RowsIn(file[m])
            /\ RowsIn(text'[m]) = IF m \in done \cap StringUsers THEN RowsIn(text[m]) + 1
                                  ELSE RowsIn(text[m])
      OBVIOUS
    <3>1. /\ file' = Written(file, done \cap stream, "row", TRUE)
          /\ text' = Written(text, done \cap StringUsers, "row", TRUE)
      BY <1>9, <2>4 DEF PunchAll, Punched
    <3> HIDE DEF done
    <3>2. \A to : \A m \in Users :
            RowsIn(Written(file, to, "row", TRUE)[m]) =
              IF m \in to THEN RowsIn(file[m]) + 1 ELSE RowsIn(file[m])
      BY <1>1, WrittenRow
    <3>3. \A to : \A m \in Users :
            RowsIn(Written(text, to, "row", TRUE)[m]) =
              IF m \in to THEN RowsIn(text[m]) + 1 ELSE RowsIn(text[m])
      BY <1>1, WrittenRow
    <3> QED
      BY <3>1, <3>2, <3>3, Zenon
  <2>6. strOn[current] => StringUsers = Users
    BY DEF StringUsers, StringOn
  <2>7. ~outOfStep' => \A m \in stream' : RowsIn(file'[m]) = rows'[m] - base'[m]
    <3> SUFFICES ASSUME ~outOfStep', NEW m \in stream
                 PROVE  RowsIn(file'[m]) = rows'[m] - base[m]
      BY <2>1
    <3>1. RowsIn(file[m]) = rows[m] - base[m] /\ m \in Users
      BY <1>1, <2>1, <2>4 DEF RowsCounted
    <3> HIDE DEF done
    <3> QED
      BY <1>1, <2>2, <2>5, <3>1
  <2>8. ~outOfStep' /\ strOn[current] => \A m \in Users : RowsIn(text'[m]) = rows'[m]
    <3> SUFFICES ASSUME ~outOfStep', strOn[current], NEW m \in Users
                 PROVE  RowsIn(text'[m]) = rows'[m]
      OBVIOUS
    <3>1. RowsIn(text[m]) = rows[m]
      BY <1>1, <2>1, <2>4 DEF RowsCounted
    <3> HIDE DEF done
    <3> QED
      BY <2>2, <2>5, <2>6, <3>1
  <2> QED
    BY <2>1, <2>3, <2>7, <2>8 DEF RowsCounted
<1> QED
  BY <1>3, <1>4, <1>5, <1>6, <1>7, <1>8, <1>9, StepIsOf

LEMMA SessionStutter ==
  ASSUME SessionInv, UNCHANGED vars
  PROVE  SessionInv'
  BY DEF SessionInv, TypeOK, Opened, HeadingsFirst, RowsCounted, TablesDefined, Running, vars,
         switchVars, defVars, punchVars, readVars, bufferVars

LEMMA SessionInvAlways == Spec => []SessionInv
<1>1. SessionInv /\ [Next]_vars => SessionInv'
  <2> SUFFICES ASSUME SessionInv, [Next]_vars PROVE SessionInv'
    OBVIOUS
  <2>1. CASE Next
    BY <2>1, TypeKept, OpenedKept, HeadingsKept, RowsKept, TablesKept DEF SessionInv
  <2>2. CASE UNCHANGED vars
    BY <2>2, SessionStutter
  <2> QED
    BY <2>1, <2>2
<1> QED
  BY <1>1, SessionInitInv, PTL DEF Spec

\* The definitions, files, strings and tables of a session have their types; a table
\* never counts more rows than the run punched.
THEOREM SessionTyped == Spec => []TypeOK
<1>1. SessionInv => TypeOK
  BY DEF SessionInv
<1> QED
  BY <1>1, SessionInvAlways, PTL

\* Whatever runs, loads and switches came before, a simulation that may punch has a
\* table for every definition and no other: fpunchf finds SelectedOutputMap[n]
\* (IPhreeqc.cpp, do_run and fpunchf).
THEOREM EveryDefinitionHasTable == Spec => []TablesForDefinitions
<1>1. SessionInv => TablesForDefinitions
  BY DEF SessionInv, TablesDefined, TablesForDefinitions
<1> QED
  BY <1>1, SessionInvAlways, PTL

\* While a run lasts the files that are on are open and the others are not; an open file
\* begins with headings and has the rows its table counted since, as the string has all
\* of them (IPhreeqc.cpp, do_run, punch_msg, open_selected_output; tidy.cpp, tidy_punch).
THEOREM BuffersFollowTables == Spec => []BuffersMatchTable
<1>1. SessionInv => BuffersMatchTable
  <2> SUFFICES ASSUME SessionInv PROVE BuffersMatchTable
    OBVIOUS
  <2>1. TypeOK /\ Opened /\ HeadingsFirst /\ RowsCounted
    BY DEF SessionInv
  <2>2. pc = "idle" => stream = {}
    BY <2>1 DEF Opened, Running
  <2>3. ASSUME pc = "punch", NEW n \in defs
        PROVE  /\ prPunch /\ n \notin unopened => (n \in stream <=> fileOn[n])
               /\ n \in stream => file[n] # <<>> /\ Head(file[n]) = "heading"
    BY <2>1, <2>3 DEF Opened, HeadingsFirst, Headed
  <2>4. ASSUME pc = "punch", NEW n \in defs
        PROVE  /\ n \in stream /\ ~outOfStep => RowsIn(file[n]) = rows[n] - base[n]
               /\ StringOn(n) /\ ~outOfStep => RowsIn(text[n]) = rows[n]
    BY <2>1, <2>4 DEF RowsCounted, Running, StringOn, TypeOK
  <2> QED
    BY <2>2, <2>3, <2>4 DEF BuffersMatchTable
<1> QED
  BY <1>1, SessionInvAlways, PTL

--------------------------------------------------------------------------------
(* BASIC programs: what their statements keep true *)

\* A record belongs to the statement that made it, and says where the lines go on.
FitsItsLoop(r) ==
  /\ r.kind = "for" =>
       /\ r.home \in 2..Len(linebase) + 1 /\ linebase[r.home - 1].op = "FOR"
       /\ linebase[r.home - 1].var = r.var
       /\ linebase[r.home - 1].to = r.max /\ linebase[r.home - 1].step = r.step
  /\ r.kind = "while" => r.home \in 1..Len(linebase) /\ linebase[r.home].op = "WHILE"
  /\ r.kind = "gosub" => r.home \in 1..Len(linebase) /\ linebase[r.home].op \in {"GOSUB", "ON"}

RecordsInPlace == \A i \in DOMAIN loops : FitsItsLoop(loops[i])

\* The pointer into the data is at the beginning, at a line, or at an item of a DATA line.
DataInPlace ==
  /\ data.line \in 0..Len(linebase)
  /\ data.read > 0 => /\ data.line > 0 /\ linebase[data.line].op = "DATA"
                      /\ data.read <= Len(linebase[data.line].items)

BasicInv == BasicTypeOK /\ linebase # <<>> /\ RecordsInPlace /\ DataInPlace

\* What the statements of each kind consist of.
LEMMA StatementFields ==
  ASSUME NEW s \in Statements
  PROVE  /\ s.op = "FOR" => s.var \in Vars /\ s.from \in Int /\ s.to \in Int /\ s.step \in Int
         /\ s.op = "NEXT" => s.var \in Vars \cup {NoVar}
         /\ s.op \in {"WHILE", "WEND"} => s.cond \in Conds
         /\ s.op \in {"IF", "GOTO", "GOSUB", "RESTORE"} => s.line \in Nat
         /\ s.op = "ON" => s.var \in Vars /\ s.gosub \in BOOLEAN /\ s.lines \in Seq(Nat)
         /\ s.op \in {"READ", "PUNCH", "LET"} => s.var \in Vars
         /\ s.op = "LET" => s.add \in Int
         /\ s.op = "DATA" => s.items \in Seq(Int)
  BY DEF Statements

LEMMA RecordFields ==
  ASSUME NEW r \in LoopRecords
  PROVE  /\ r.home \in Nat /\ r.kind \in {"for", "while", "gosub"}
         /\ r.kind = "for" => r.var \in Vars /\ r.max \in Int /\ r.step \in Int
  BY DEF LoopRecords

\* The statement that is executed is one of the program.
LEMMA StmtInProgram ==
  ASSUME BasicTypeOK, Statement
  PROVE  /\ status = "running" /\ line \in 1..Len(linebase) /\ Len(linebase) \in Nat
         /\ Stmt \in Statements /\ UNCHANGED <<linebase, runs>>
<1>1. status = "running" /\ UNCHANGED <<linebase, runs>>
  BY DEF Statement, Executing, cmdfor, cmdnext, cmdwhile, cmdwend, cmdif, cmdgoto, cmdgosub,
         cmdon, cmdreturn, cmdend, cmdread, cmddata, cmdrestore, cmdlet, cmdpunch
<1>2. linebase \in Seq(Statements) /\ line \in 1..Len(linebase)
  BY <1>1 DEF BasicTypeOK
<1>3. Len(linebase) \in Nat /\ DOMAIN linebase = 1..Len(linebase)
  BY <1>2, LenProperties
<1> QED
  BY <1>1, <1>2, <1>3, ElementOfSeq DEF Stmt

\* The records up to one of them, and one more.
LEMMA RecordsUpto ==
  ASSUME BasicTypeOK, RecordsInPlace, NEW n \in 0..Len(loops)
  PROVE  /\ Upto(n) \in Seq(LoopRecords)
         /\ \A i \in DOMAIN Upto(n) : FitsItsLoop(Upto(n)[i])
<1>1. loops \in Seq(LoopRecords) /\ Len(loops) \in Nat /\ DOMAIN loops = 1..Len(loops)
  BY LenProperties DEF BasicTypeOK
<1>2. /\ Upto(n) \in Seq(LoopRecords) /\ Len(Upto(n)) = n
      /\ \A i \in 1..n : Upto(n)[i] = loops[i]
  BY <1>1, SubSeqProperties DEF Upto
<1>3. DOMAIN Upto(n) = 1..n
  BY <1>2, LenProperties
<1> QED
  BY <1>1, <1>2, <1>3 DEF RecordsInPlace

LEMMA RecordMore ==
  ASSUME BasicTypeOK, RecordsInPlace, NEW r \in LoopRecords, FitsItsLoop(r)
  PROVE  /\ Append(loops, r) \in Seq(LoopRecords)
         /\ \A i \in DOMAIN Append(loops, r) : FitsItsLoop(Append(loops, r)[i])
<1>1. loops \in Seq(LoopRecords) /\ Len(loops) \in Nat /\ DOMAIN loops = 1..Len(loops)
  BY LenProperties DEF BasicTypeOK
<1>2. /\ Append(loops, r) \in Seq(LoopRecords) /\ Len(Append(loops, r)) = Len(loops) + 1
      /\ \A i \in 1..Len(loops) : Append(loops, r)[i] = loops[i]
      /\ Append(loops, r)[Len(loops) + 1] = r
  BY <1>1, AppendProperties
<1>3. DOMAIN Append(loops, r) = 1..(Len(loops) + 1)
  BY <1>2, LenProperties
<1> QED
  BY <1>1, <1>2, <1>3 DEF RecordsInPlace

\* Where the program goes on, if it does.
Placed ==
  /\ line' \in Nat /\ status' \in {"idle", "running", "over", "error"}
  /\ status' = "running" => line' \in 1..Len(linebase)

LEMMA GoOnPlaced ==
  ASSUME BasicTypeOK, status = "running", NEW following \in Nat \ {0}, GoOn(following)
  PROVE  Placed
<1>1. line \in Nat /\ Len(linebase) \in Nat
  BY LenProperties DEF BasicTypeOK
<1> QED
  BY <1>1 DEF GoOn, Placed

LEMMA GoToPlaced ==
  ASSUME BasicTypeOK, status = "running", NEW target, GoTo(target)
  PROVE  Placed
<1>1. line \in Nat /\ line \in 1..Len(linebase) /\ Len(linebase) \in Nat
  BY LenProperties DEF BasicTypeOK
<1> QED
  BY <1>1 DEF GoTo, Placed

LEMMA FailPlaced ==
  ASSUME BasicTypeOK, Fail
  PROVE  Placed
  BY DEF Fail, Placed, BasicTypeOK

\* Every statement goes on at a line of the program, ends it or fails.
LEMMA StatementPlaced ==
  ASSUME BasicInv, Statement
  PROVE  Placed
<1>1. /\ BasicTypeOK /\ RecordsInPlace /\ status = "running"
      /\ line \in 1..Len(linebase) /\ Len(linebase) \in Nat
      /\ line + 1 \in Nat \ {0} /\ Stmt \in Statements
  BY StmtInProgram DEF BasicInv
<1>2. \A n \in 1..Len(loops) : loops[n].home \in Nat
  <2>1. loops \in Seq(LoopRecords) /\ DOMAIN loops = 1..Len(loops)
    BY <1>1, LenProperties DEF BasicTypeOK
  <2> QED
    BY <2>1, ElementOfSeq, RecordFields
<1>3. CASE cmdif \/ cmddata \/ cmdrestore \/ cmdlet \/ cmdpunch
  <2>1. GoOn(line + 1) \/ GoTo(Stmt.line) \/ Fail
    BY <1>3 DEF cmdif, cmddata, cmdrestore, cmdlet, cmdpunch
  <2> QED
    BY <1>1, <2>1, GoOnPlaced, GoToPlaced, FailPlaced
<1>4. CASE cmdgoto \/ cmdgosub
  BY <1>1, <1>4, GoToPlaced DEF cmdgoto, cmdgosub
<1>5. CASE cmdon
  <2>1. GoOn(line + 1) \/ \E target : GoTo(target)
    BY <1>5 DEF cmdon
  <2> QED
    BY <1>1, <2>1, GoOnPlaced, GoToPlaced
<1>6. CASE cmdend
  BY <1>1, <1>6 DEF cmdend, Placed, BasicTypeOK
<1>7. CASE cmdread
  <2>1. GoOn(line + 1) \/ Fail
    BY <1>7 DEF cmdread
  <2> QED
    BY <1>1, <2>1, GoOnPlaced, FailPlaced
<1>8. CASE cmdfor \/ cmdwhile
  <2>1. GoOn(line + 1) \/ Fail \/ \E m \in line + 1..Len(linebase) : GoOn(m + 1)
    BY <1>8 DEF cmdfor, cmdwhile
  <2>2. \A m \in line + 1..Len(linebase) : m + 1 \in Nat \ {0}
    BY <1>1
  <2> QED
    BY <1>1, <2>1, <2>2, GoOnPlaced, FailPlaced
<1>9. CASE cmdnext
  <2>1. \/ GoOn(line + 1) \/ Fail
        \/ \E n \in 1..Len(loops) : loops[n].kind = "for" /\ GoOn(loops[n].home)
    BY <1>9 DEF cmdnext, Matching, Open
  <2>2. \A n \in 1..Len(loops) : loops[n].kind = "for" => loops[n].home \in Nat \ {0}
    BY <1>1, <1>2, LenProperties DEF RecordsInPlace, FitsItsLoop, BasicTypeOK
  <2> QED
    BY <1>1, <2>1, <2>2, GoOnPlaced, FailPlaced
<1>10. CASE cmdwend \/ cmdreturn
  <2>1. \/ GoOn(line + 1) \/ Fail
        \/ \E n \in 1..Len(loops) : GoOn(loops[n].home + 1)
    BY <1>10 DEF cmdwend, cmdreturn
  <2>2. \A n \in 1..Len(loops) : loops[n].home + 1 \in Nat \ {0}
    BY <1>2
  <2> QED
    BY <1>1, <2>1, <2>2, GoOnPlaced, FailPlaced
<1> QED
  BY <1>3, <1>4, <1>5, <1>6, <1>7, <1>8, <1>9, <1>10 DEF Statement

\* The records stay of their kind: NEXT, WEND and RETURN keep those up to one, FOR, WHILE
\* and GOSUB add one of their own.
LEMMA StatementLoops ==
  ASSUME BasicInv, Statement
  PROVE  /\ loops' \in Seq(LoopRecords)
         /\ \A i \in DOMAIN loops' : FitsItsLoop(loops'[i])
<1>1. /\ BasicTypeOK /\ RecordsInPlace /\ loops \in Seq(LoopRecords)
      /\ line \in 1..Len(linebase) /\ Len(linebase) \in Nat /\ Stmt \in Statements
      /\ Len(loops) \in Nat
  BY StmtInProgram, LenProperties DEF BasicInv, BasicTypeOK
<1>2. \A n \in 0..Len(loops) :
        Upto(n) \in Seq(LoopRecords) /\ \A i \in DOMAIN Upto(n) : FitsItsLoop(Upto(n)[i])
  BY <1>1, RecordsUpto
<1>3. CASE UNCHANGED loops
  BY <1>1, <1>3 DEF RecordsInPlace
<1>4. CASE \E n \in 0..Len(loops) : loops' = Upto(n)
  BY <1>2, <1>4
<1>5. CASE cmdfor /\ loops' # loops
  <2>1. Stmt.op = "FOR" /\ loops' = Append(loops, [kind |-> "for", var |-> Stmt.var,
            max |-> Stmt.to, step |-> Stmt.step, home |-> line + 1])
    BY <1>5 DEF cmdfor, Executing, Fail
  <2> DEFINE r == [kind |-> "for", var |-> Stmt.var, max |-> Stmt.to, step |-> Stmt.step,
                   home |-> line + 1]
  <2>2. Stmt.var \in Vars /\ Stmt.to \in Int /\ Stmt.step \in Int
    BY <1>1, <2>1, StatementFields
  <2>3. r \in LoopRecords
    BY <1>1, <2>2 DEF LoopRecords
  <2>4. FitsItsLoop(r)
    BY <1>1, <2>1 DEF FitsItsLoop, Stmt
  <2> HIDE DEF r
  <2>5. loops' = Append(loops, r)
    BY <2>1 DEF r
  <2> QED
    BY <1>1, <2>3, <2>4, <2>5, RecordMore
<1>6. CASE \/ cmdwhile /\ loops' = Append(loops, [kind |-> "while", home |-> line])
           \/ cmdgosub
           \/ cmdon /\ loops' # loops
  <2>1. PICK k \in {"while", "gosub"} :
          /\ loops' = Append(loops, [kind |-> k, home |-> line])
          /\ k = "while" => Stmt.op = "WHILE"
          /\ k = "gosub" => Stmt.op \in {"GOSUB", "ON"}
    BY <1>6 DEF cmdwhile, cmdgosub, cmdon, Called, Executing
  <2> DEFINE r == [kind |-> k, home |-> line]
  <2>2. r \in LoopRecords
    BY <1>1 DEF LoopRecords
  <2>3. FitsItsLoop(r)
    BY <1>1, <2>1 DEF FitsItsLoop, Stmt
  <2> HIDE DEF r
  <2>4. loops' = Append(loops, r)
    BY <2>1 DEF r
  <2> QED
    BY <1>1, <2>2, <2>3, <2>4, RecordMore
<1>7. cmdwhile => UNCHANGED loops \/ loops' = Append(loops, [kind |-> "while", home |-> line])
  BY DEF cmdwhile, Fail
<1>8. cmdnext \/ cmdwend \/ cmdreturn =>
        UNCHANGED loops \/ \E n \in 1..Len(loops) : loops' = Upto(n) \/ loops' = Upto(n - 1)
  BY DEF cmdnext, cmdwend, cmdreturn, AfterReturn, Fail
<1>9. \A n \in 1..Len(loops) : n \in 0..Len(loops) /\ n - 1 \in 0..Len(loops)
  BY <1>1
<1>10. cmdif \/ cmdgoto \/ cmdend \/ cmdread \/ cmddata \/ cmdrestore \/ cmdlet \/ cmdpunch =>
         UNCHANGED loops
  BY DEF cmdif, cmdgoto, cmdend, cmdread, cmddata, cmdrestore, cmdlet, cmdpunch, Fail
<1> QED
  BY <1>3, <1>4, <1>5, <1>6, <1>7, <1>8, <1>9, <1>10 DEF Statement

\* A variable or an item stepped to
LEMMA ValueSet ==
  ASSUME value \in [Vars -> Int], NEW v \in Vars, NEW x \in Int
  PROVE  [value EXCEPT ![v] = x] \in [Vars -> Int]
  OBVIOUS

LEMMA StatementValues ==
  ASSUME BasicInv, Statement
  PROVE  value' \in [Vars -> Int]
<1>1. /\ BasicTypeOK /\ value \in [Vars -> Int] /\ loops \in Seq(LoopRecords)
      /\ Stmt \in Statements /\ linebase \in Seq(Statements)
  BY StmtInProgram DEF BasicInv, BasicTypeOK
<1>2. CASE UNCHANGED value
  BY <1>1, <1>2
<1>3. CASE cmdfor /\ value' # value
  <2>1. Stmt.op = "FOR" /\ value' = [value EXCEPT ![Stmt.var] = Stmt.from]
    BY <1>3 DEF cmdfor, Executing, Fail
  <2> QED
    BY <1>1, <2>1, StatementFields, ValueSet
<1>4. CASE cmdnext /\ value' # value
  <2>1. PICK n \in 1..Len(loops) :
          /\ loops[n].kind = "for"
          /\ value' = [value EXCEPT ![loops[n].var] = value[loops[n].var] + loops[n].step]
    BY <1>4 DEF cmdnext, Matching, Open, Fail
  <2>2. loops[n].var \in Vars /\ loops[n].step \in Int
    BY <1>1, <2>1, ElementOfSeq, RecordFields
  <2>3. value[loops[n].var] + loops[n].step \in Int
    BY <1>1, <2>2
  <2> QED
    BY <1>1, <2>1, <2>2, <2>3, ValueSet
<1>5. CASE cmdread /\ value' # value
  <2>1. Stmt.op = "READ"
    BY <1>5 DEF cmdread, Executing
  <2>2. PICK l \in 1..Len(linebase) :
          \E i \in 1..(IF linebase[l].op = "DATA" THEN Len(linebase[l].items) ELSE 0) :
            value' = [value EXCEPT ![Stmt.var] = linebase[l].items[i]]
    BY <1>5 DEF cmdread, Fail
  <2>3. linebase[l].op = "DATA"
    BY <2>2
  <2>4. linebase[l].items \in Seq(Int)
    BY <1>1, <2>3, ElementOfSeq, StatementFields
  <2>5. PICK i \in 1..Len(linebase[l].items) :
          value' = [value EXCEPT ![Stmt.var] = linebase[l].items[i]]
    BY <2>2, <2>3
  <2>6. linebase[l].items[i] \in Int
    BY <2>4, <2>5, ElementOfSeq
  <2>7. Stmt.var \in Vars
    BY <1>1, <2>1, StatementFields
  <2> QED
    BY <1>1, <2>5, <2>6, <2>7, ValueSet
<1>6. CASE cmdlet
  <2>1. Stmt.op = "LET" /\ value' = [value EXCEPT ![Stmt.var] = @ + Stmt.add]
    BY <1>6 DEF cmdlet, Executing
  <2>2. Stmt.var \in Vars /\ Stmt.add \in Int
    BY <1>1, <2>1, StatementFields
  <2>3. value[Stmt.var] + Stmt.add \in Int
    BY <1>1, <2>2
  <2>4. value' = [value EXCEPT ![Stmt.var] = value[Stmt.var] + Stmt.add]
    BY <1>1, <2>1, <2>2
  <2> QED
    BY <1>1, <2>2, <2>3, <2>4, ValueSet
<1>7. cmdwhile \/ cmdwend \/ cmdif \/ cmdgoto \/ cmdgosub \/ cmdon \/ cmdreturn \/ cmdend
        \/ cmddata \/ cmdrestore \/ cmdpunch => UNCHANGED value
  BY DEF cmdwhile, cmdwend, cmdif, cmdgoto, cmdgosub, cmdon, cmdreturn, cmdend, cmddata,
         cmdrestore, cmdpunch, Fail
<1> QED
  BY <1>2, <1>3, <1>4, <1>5, <1>6, <1>7 DEF Statement

\* READ moves the pointer to an item of a DATA line, RESTORE to a line.
LEMMA StatementData ==
  ASSUME BasicInv, Statement
  PROVE  data' \in [line : Nat, read : Nat] /\ DataInPlace'
<1>1. /\ BasicTypeOK /\ DataInPlace /\ data \in [line : Nat, read : Nat]
      /\ Stmt \in Statements /\ linebase' = linebase /\ Len(linebase) \in Nat
  BY StmtInProgram DEF BasicInv, BasicTypeOK
<1>2. CASE UNCHANGED data
  BY <1>1, <1>2 DEF DataInPlace
<1>3. CASE cmdread /\ data' # data
  <2>1. PICK l \in 1..Len(linebase) :
          \E i \in 1..(IF linebase[l].op = "DATA" THEN Len(linebase[l].items) ELSE 0) :
            data' = [line |-> l, read |-> i]
    BY <1>3 DEF cmdread, Fail
  <2>2. linebase[l].op = "DATA"
    BY <2>1
  <2>3. Len(linebase[l].items) \in Nat
    BY <1>1, <2>2, ElementOfSeq, StatementFields, LenProperties DEF BasicTypeOK
  <2>4. PICK i \in 1..Len(linebase[l].items) : data' = [line |-> l, read |-> i]
    BY <2>1, <2>2
  <2> QED
    BY <1>1, <2>2, <2>3, <2>4 DEF DataInPlace
<1>4. CASE cmdrestore /\ data' # data
  <2>1. Stmt.line \in 0..Len(linebase) /\ data' = [line |-> Stmt.line, read |-> 0]
    BY <1>4 DEF cmdrestore, Fail
  <2> QED
    BY <1>1, <2>1 DEF DataInPlace
<1>5. cmdfor \/ cmdnext \/ cmdwhile \/ cmdwend \/ cmdif \/ cmdgoto \/ cmdgosub \/ cmdon
        \/ cmdreturn \/ cmdend \/ cmddata \/ cmdlet \/ cmdpunch => UNCHANGED data
  BY DEF cmdfor, cmdnext, cmdwhile, cmdwend, cmdif, cmdgoto, cmdgosub, cmdon, cmdreturn,
         cmdend, cmddata, cmdlet, cmdpunch, Fail
<1> QED
  BY <1>2, <1>3, <1>4, <1>5 DEF Statement

LEMMA StatementOut ==
  ASSUME BasicInv, Statement
  PROVE  out' \in Seq(Int)
<1>1. value \in [Vars -> Int] /\ out \in Seq(Int) /\ Stmt \in Statements
  BY StmtInProgram DEF BasicInv, BasicTypeOK
<1>2. CASE UNCHANGED out
  BY <1>1, <1>2
<1>3. CASE cmdpunch
  <2>1. Stmt.op = "PUNCH" /\ out' = Append(out, value[Stmt.var])
    BY <1>3 DEF cmdpunch, Executing
  <2>2. value[Stmt.var] \in Int
    BY <1>1, <2>1, StatementFields
  <2> QED
    BY <1>1, <2>1, <2>2, AppendProperties
<1>4. cmdfor \/ cmdnext \/ cmdwhile \/ cmdwend \/ cmdif \/ cmdgoto \/ cmdgosub \/ cmdon
        \/ cmdreturn \/ cmdend \/ cmdread \/ cmddata \/ cmdrestore \/ cmdlet => UNCHANGED out
  BY DEF cmdfor, cmdnext, cmdwhile, cmdwend, cmdif, cmdgoto, cmdgosub, cmdon, cmdreturn,
         cmdend, cmdread, cmddata, cmdrestore, cmdlet, Fail
<1> QED
  BY <1>2, <1>3, <1>4 DEF Statement

LEMMA ClearedTyped == Cleared \in [Vars -> Int] /\ RestoredData \in [line : Nat, read : Nat]
  BY DEF Cleared, RestoredData

LEMMA BasicInitInv == BasicInit => BasicInv
<1> SUFFICES ASSUME BasicInit PROVE BasicInv
  OBVIOUS
<1>1. linebase \in Seq(Statements) /\ linebase # <<>> /\ Len(linebase) \in Nat
  BY BasicAssumption, LenProperties DEF BasicInit
<1>2. BasicTypeOK
  BY <1>1, ClearedTyped, EmptySeq DEF BasicInit, NotRunYet, BasicTypeOK
<1>3. RecordsInPlace /\ DataInPlace
  BY <1>1 DEF BasicInit, NotRunYet, RecordsInPlace, DataInPlace
<1> QED
  BY <1>1, <1>2, <1>3 DEF BasicInv

LEMMA BasicInvKept ==
  ASSUME BasicInv, [BasicNext]_basicVars
  PROVE  BasicInv'
<1>1. /\ BasicTypeOK /\ RecordsInPlace /\ DataInPlace
      /\ linebase \in Seq(Statements) /\ Len(linebase) \in Nat /\ runs \in Nat
      /\ linebase # <<>>
  BY LenProperties DEF BasicInv, BasicTypeOK
<1>2. CASE Statement
  <2>1. UNCHANGED <<linebase, runs>>
    BY <1>1, <1>2, StmtInProgram
  <2>2. Placed /\ value' \in [Vars -> Int] /\ out' \in Seq(Int)
    BY <1>2, StatementPlaced, StatementValues, StatementOut
  <2>3. loops' \in Seq(LoopRecords) /\ \A i \in DOMAIN loops' : FitsItsLoop(loops'[i])
    BY <1>2, StatementLoops
  <2>4. data' \in [line : Nat, read : Nat] /\ DataInPlace'
    BY <1>2, StatementData
  <2>5. BasicTypeOK'
    BY <1>1, <2>1, <2>2, <2>3, <2>4 DEF BasicTypeOK, Placed
  <2>6. RecordsInPlace'
    BY <2>1, <2>3 DEF RecordsInPlace, FitsItsLoop
  <2> QED
    BY <1>1, <2>1, <2>4, <2>5, <2>6 DEF BasicInv
<1>3. CASE cmdrun \/ Cleanup
  <2>1. /\ linebase' = linebase /\ value' = Cleared /\ loops' = <<>> /\ data' = RestoredData
        /\ out' = <<>> \/ out' = out
    BY <1>3 DEF cmdrun, Cleanup
  <2>2. /\ runs' \in Nat /\ line' \in {0, 1}
        /\ status' \in {"idle", "running"} /\ (status' = "running" => line' = 1)
    BY <1>1, <1>3 DEF cmdrun, Cleanup
  <2>3. 1 \in 1..Len(linebase)
    BY <1>1, EmptySeq, LenProperties
  <2>4. BasicTypeOK'
    <3>1. <<>> \in Seq(LoopRecords) /\ <<>> \in Seq(Int)
      BY EmptySeq
    <3>2. out \in Seq(Int)
      BY <1>1 DEF BasicTypeOK
    <3>3. /\ value' \in [Vars -> Int] /\ loops' \in Seq(LoopRecords)
          /\ data' \in [line : Nat, read : Nat] /\ out' \in Seq(Int)
      BY <2>1, <3>1, <3>2, ClearedTyped
    <3>4. /\ status' \in {"idle", "running", "over", "error"} /\ line' \in Nat
          /\ status' = "running" => line' \in 1..Len(linebase)
      BY <2>2, <2>3
    <3> QED
      BY <1>1, <2>1, <2>2, <3>3, <3>4 DEF BasicTypeOK
  <2>5. RecordsInPlace'
    BY <2>1 DEF RecordsInPlace
  <2>6. DataInPlace'
    BY <1>1, <2>1 DEF DataInPlace, RestoredData
  <2> QED
    BY <1>1, <2>1, <2>4, <2>5, <2>6 DEF BasicInv
<1>4. CASE Stop \/ UNCHANGED basicVars
  <2>1. /\ UNCHANGED <<linebase, line, value, loops, data, out, runs>>
        /\ status' \in {"idle", status}
    BY <1>4 DEF Stop, basicVars
  <2>2. BasicTypeOK'
    BY <1>1, <2>1 DEF BasicTypeOK
  <2>3. RecordsInPlace'
    BY <1>1, <2>1 DEF RecordsInPlace, FitsItsLoop
  <2>4. DataInPlace'
    BY <1>1, <2>1 DEF DataInPlace
  <2> QED
    BY <1>1, <2>1, <2>2, <2>3, <2>4 DEF BasicInv
<1> QED
  BY <1>2, <1>3, <1>4 DEF BasicNext

LEMMA BasicInvAlways == BasicSpec => []BasicInv
  BY BasicInitInv, BasicInvKept, PTL DEF BasicSpec

\* For every program, with or without block structure, the interpreter executes only lines
\* that are there, and its variables and records keep their types: a jump to a line that is
\* missing fails, and no record leads to one (PBasic.cpp, mustfindline and exec).
THEOREM BasicTyped == BasicSpec => []BasicTypeOK
<1>1. BasicInv => BasicTypeOK
  BY DEF BasicInv
<1> QED
  BY <1>1, BasicInvAlways, PTL

\* A record on the stack is that of a FOR, a WHILE, a GOSUB or an ON of the program, whose
\* variable, limit and step NEXT reads and whose condition WEND evaluates, whatever jumps
\* have left behind (PBasic.cpp, cmdfor, cmdnext, cmdwend, cmdreturn); and the pointer of
\* READ is on a line of the program, past items only on a DATA line that has as many (cmdread).
THEOREM RecordsFitTheirLoops == BasicSpec => [](RecordsInPlace /\ DataInPlace)
<1>1. BasicInv => RecordsInPlace /\ DataInPlace
  BY DEF BasicInv
<1> QED
  BY <1>1, BasicInvAlways, PTL

--------------------------------------------------------------------------------
(* Nested programs: where their loops begin and end *)

\* A loop of a program lies in it.
LEMMA LoopFields ==
  ASSUME NEW P \in Seq(Statements), NEW b \in LoopsOf(P)
  PROVE  /\ b = [head |-> b.head, tail |-> b.tail]
         /\ b.head \in 1..Len(P) /\ b.tail \in 1..Len(P) /\ b.head < b.tail
         /\ P[b.head].op \in Begins
         /\ ClosedAt(P, b.head + 1, b.tail)
         /\ \A m \in b.head + 1..b.tail - 1 : ~ClosedAt(P, b.head + 1, m)
  BY DEF LoopsOf

\* A line begins one loop at most, and closes one.
LEMMA OneLoopAtLine ==
  ASSUME NEW P \in Seq(Statements), IsNested(P), NEW b \in LoopsOf(P), NEW c \in LoopsOf(P)
  PROVE  /\ b.head = c.head => b = c
         /\ b.tail = c.tail => b = c
         /\ b # c => \/ b.tail < c.head \/ c.tail < b.head
                     \/ b.head < c.head /\ c.tail < b.tail
                     \/ c.head < b.head /\ b.tail < c.tail
<1>1. Len(P) \in Nat
  BY LenProperties
<1>2. ASSUME NEW x \in LoopsOf(P), NEW y \in LoopsOf(P), x.head = y.head
      PROVE  ~(x.tail < y.tail)
  <2>1. SUFFICES ASSUME x.tail < y.tail PROVE FALSE
    OBVIOUS
  <2>2. x.tail \in y.head + 1..y.tail - 1
    BY <1>1, <1>2, <2>1, LoopFields
  <2> QED
    BY <1>2, <2>2, LoopFields
<1>3. b.head = c.head => b = c
  <2>1. SUFFICES ASSUME b.head = c.head PROVE b = c
    OBVIOUS
  <2>2. ~(b.tail < c.tail) /\ ~(c.tail < b.tail)
    BY <1>2, <2>1
  <2>3. b.tail \in Int /\ c.tail \in Int
    BY <1>1, LoopFields
  <2>4. b.tail = c.tail
    BY <2>2, <2>3
  <2> QED
    BY <2>1, <2>4, LoopFields
<1>4. b.head \in Int /\ b.tail \in Int /\ c.head \in Int /\ c.tail \in Int
      /\ b.head < b.tail /\ c.head < c.tail
  BY <1>1, LoopFields
<1>5. /\ b.head < c.head => b.tail < c.head \/ c.tail < b.tail
      /\ c.head < b.head => c.tail < b.head \/ b.tail < c.tail
  BY DEF IsNested
<1> QED
  BY <1>3, <1>4, <1>5

\* Each loop has the end of its kind.
LEMMA LoopEnds ==
  ASSUME NEW P \in Seq(Statements), IsNested(P), NEW b \in LoopsOf(P)
  PROVE  /\ Takes(P, b.tail, b.head)
         /\ P[b.tail].op \in Closes
         /\ P[b.head].op = "FOR" <=> P[b.tail].op = "NEXT"
  BY DEF IsNested, Takes, Closes

\* The lines behind a FOR or WHILE and up to its end are in one loop more than those
\* before and behind, any other line is in the loops of the next.
LEMMA AroundTheLoop ==
  ASSUME NEW P \in Seq(Statements), IsNested(P), NEW b \in LoopsOf(P)
  PROVE  /\ b \notin Around(P, b.head)
         /\ Around(P, b.head + 1) = Around(P, b.head) \cup {b}
         /\ Around(P, b.tail) = Around(P, b.head) \cup {b}
         /\ Around(P, b.tail + 1) = Around(P, b.head)
<1>1. Len(P) \in Nat
  BY LenProperties
<1>2. ASSUME NEW c \in LoopsOf(P)
      PROVE  /\ c.head \in Int /\ c.tail \in Int /\ c.head < c.tail
             /\ b # c => \/ b.tail < c.head \/ c.tail < b.head
                         \/ b.head < c.head /\ c.tail < b.tail
                         \/ c.head < b.head /\ b.tail < c.tail
  BY <1>1, LoopFields, OneLoopAtLine
<1>3. ASSUME NEW c \in LoopsOf(P), c # b
      PROVE  /\ c \in Around(P, b.head + 1) <=> c \in Around(P, b.head)
             /\ c \in Around(P, b.tail) <=> c \in Around(P, b.head)
             /\ c \in Around(P, b.tail + 1) <=> c \in Around(P, b.head)
  BY <1>2, <1>3 DEF Around
<1>4. /\ b \notin Around(P, b.head) /\ b \in Around(P, b.head + 1)
      /\ b \in Around(P, b.tail) /\ b \notin Around(P, b.tail + 1)
  BY <1>2 DEF Around
<1>5. \A l, c : c \in Around(P, l) => c \in LoopsOf(P)
  BY DEF Around
<1>6. \A c : /\ c \in Around(P, b.head + 1) <=> c \in Around(P, b.head) \/ c = b
             /\ c \in Around(P, b.tail) <=> c \in Around(P, b.head) \/ c = b
             /\ c \in Around(P, b.tail + 1) <=> c \in Around(P, b.head)
  BY <1>3, <1>4, <1>5, Zenon
<1> QED
  BY <1>4, <1>6

LEMMA AroundElsewhere ==
  ASSUME NEW P \in Seq(Statements), IsNested(P), NEW l \in 1..Len(P),
         P[l].op \notin Begins \cup Closes
  PROVE  Around(P, l + 1) = Around(P, l)
<1>1. Len(P) \in Nat
  BY LenProperties
<1>2. ASSUME NEW c \in LoopsOf(P)
      PROVE  c.head \in Int /\ c.tail \in Int /\ c.head # l /\ c.tail # l
  BY <1>1, LoopFields, LoopEnds
<1>3. ASSUME NEW c \in LoopsOf(P)
      PROVE  c \in Around(P, l + 1) <=> c \in Around(P, l)
  BY <1>1, <1>2 DEF Around
<1> QED
  BY <1>3 DEF Around

\* The loops that are around a line lie in each other.
LEMMA AroundInOrder ==
  ASSUME NEW P \in Seq(Statements), IsNested(P), NEW l \in Int,
         NEW b \in Around(P, l), NEW c \in Around(P, l)
  PROVE  \/ b = c
         \/ b.head < c.head /\ c.tail < b.tail
         \/ c.head < b.head /\ b.tail < c.tail
<1>1. Len(P) \in Nat
  BY LenProperties
<1>2. /\ b \in LoopsOf(P) /\ b.head < l /\ l <= b.tail
      /\ c \in LoopsOf(P) /\ c.head < l /\ l <= c.tail
  BY DEF Around
<1>3. b.head \in Int /\ b.tail \in Int /\ c.head \in Int /\ c.tail \in Int
  BY <1>1, <1>2, LoopFields
<1> QED
  BY <1>2, <1>3, OneLoopAtLine

--------------------------------------------------------------------------------
(* Nested programs: where a scan stops *)

\* Of some of the loops, those that begin and those that close at the lines given.
HeadsIn(C, where) == {n \in where : \E c \in C : c.head = n}
TailsIn(C, where) == {n \in where : \E c \in C : c.tail = n}

\* Within a loop no more loops are closed than were begun, of whatever sort they are,
LEMMA BegunBeforeClosed ==
  ASSUME NEW P \in Seq(Statements), IsNested(P), NEW b \in LoopsOf(P),
         NEW C \in SUBSET LoopsOf(P), NEW m \in b.head + 1..b.tail - 1
  PROVE  Cardinality(TailsIn(C, b.head + 1..m)) <= Cardinality(HeadsIn(C, b.head + 1..m))
<1> DEFINE S == TailsIn(C, b.head + 1..m)
           T == HeadsIn(C, b.head + 1..m)
           Own(n) == CHOOSE c \in C : c.tail = n
           f == [n \in S |-> Own(n).head]
<1>1. Len(P) \in Nat /\ b.head \in Int /\ b.tail \in Int /\ m \in Int
  BY LenProperties, LoopFields
<1>2. IsFiniteSet(T)
  <2>1. IsFiniteSet(b.head + 1..m)
    <3>1. b.head + 1 \in Int /\ m \in Int
      BY <1>1
    <3> QED
      BY <3>1, FS_Interval
  <2>2. T \subseteq b.head + 1..m
    BY DEF HeadsIn
  <2> QED
    BY <2>1, <2>2, FS_Subset
<1>3. ASSUME NEW n \in S
      PROVE  Own(n) \in C /\ Own(n).tail = n /\ Own(n).head \in T
  <2>1. Own(n) \in C /\ Own(n).tail = n /\ n \in b.head + 1..m
    BY DEF TailsIn
  <2>2. Own(n) \in LoopsOf(P)
    BY <2>1
  <2> HIDE DEF Own
  <2>3. Own(n).head \in Int /\ Own(n).head < Own(n).tail
    BY <1>1, <2>2, LoopFields
  <2>4. Own(n) # b
    BY <1>1, <2>1
  <2>5. b.head < Own(n).head
    BY <1>1, <2>1, <2>2, <2>3, <2>4, OneLoopAtLine
  <2>6. Own(n).head \in b.head + 1..m
    BY <1>1, <2>1, <2>3, <2>5
  <2> QED
    BY <2>1, <2>6 DEF HeadsIn
<1>4. f \in Injection(S, T)
  <2>1. f \in [S -> T]
    BY <1>3
  <2>2. ASSUME NEW n \in S, NEW k \in S, f[n] = f[k] PROVE n = k
    <3>1. /\ Own(n) \in LoopsOf(P) /\ Own(k) \in LoopsOf(P)
          /\ Own(n).head = Own(k).head
          /\ Own(n).tail = n /\ Own(k).tail = k
      BY <1>3, <2>2
    <3> HIDE DEF Own
    <3> QED
      BY <3>1, OneLoopAtLine
  <2>3. DOMAIN f = S
    OBVIOUS
  <2> HIDE DEF f, S, T
  <2>4. IsInjective(f)
    BY <2>2, <2>3 DEF IsInjective
  <2> QED
    BY <2>1, <2>4 DEF Injection
<1> QED
  BY <1>2, <1>4, FS_Injection

\* and one more at the end of a loop of that sort.
LEMMA ClosedAtItsEnd ==
  ASSUME NEW P \in Seq(Statements), IsNested(P), NEW b \in LoopsOf(P),
         NEW C \in SUBSET LoopsOf(P), b \in C
  PROVE  Cardinality(HeadsIn(C, b.head + 1..b.tail)) < Cardinality(TailsIn(C, b.head + 1..b.tail))
<1> DEFINE span == b.head + 1..b.tail
           S == HeadsIn(C, span)
           T == TailsIn(C, span) \ {b.tail}
           Own(n) == CHOOSE c \in C : c.head = n
           f == [n \in S |-> Own(n).tail]
<1>1. Len(P) \in Nat /\ b.head \in Int /\ b.tail \in Int /\ b.head < b.tail
  BY LenProperties, LoopFields
<1>2. /\ IsFiniteSet(TailsIn(C, span)) /\ b.tail \in TailsIn(C, span)
      /\ Cardinality(TailsIn(C, span)) \in Nat
  <2>1. IsFiniteSet(span)
    <3>1. b.head + 1 \in Int /\ b.tail \in Int
      BY <1>1
    <3> QED
      BY <3>1, FS_Interval
  <2>2. TailsIn(C, span) \subseteq span /\ b.tail \in TailsIn(C, span)
    BY <1>1 DEF TailsIn
  <2> QED
    BY <2>1, <2>2, FS_Subset, FS_CardinalityType
<1>3. IsFiniteSet(T) /\ Cardinality(T) = Cardinality(TailsIn(C, span)) - 1
  BY <1>2, FS_RemoveElement
<1>4. ASSUME NEW n \in S
      PROVE  Own(n) \in C /\ Own(n).head = n /\ Own(n).tail \in T
  <2>1. Own(n) \in C /\ Own(n).head = n /\ n \in span
    BY DEF HeadsIn
  <2>2. Own(n) \in LoopsOf(P)
    BY <2>1
  <2> HIDE DEF Own
  <2>3. Own(n).tail \in Int /\ Own(n).head < Own(n).tail
    BY <1>1, <2>2, LoopFields
  <2>4. Own(n) # b
    BY <1>1, <2>1
  <2>5. Own(n).tail < b.tail
    <3>1. b.head < Own(n).head /\ Own(n).head <= b.tail
      BY <1>1, <2>1
    <3>2. Own(n).head # b.tail
      <4>1. P[b.tail].op \in Closes /\ P[Own(n).head].op \in Begins
        BY <2>2, LoopFields, LoopEnds
      <4> QED
        BY <4>1 DEF Begins, Closes
    <3> QED
      BY <1>1, <2>1, <2>2, <2>3, <2>4, <3>1, <3>2, OneLoopAtLine
  <2>6. Own(n).tail \in span /\ Own(n).tail # b.tail
    BY <1>1, <2>1, <2>3, <2>5
  <2> QED
    BY <2>1, <2>6 DEF TailsIn
<1>5. f \in Injection(S, T)
  <2>1. f \in [S -> T]
    BY <1>4
  <2>2. ASSUME NEW n \in S, NEW k \in S, f[n] = f[k] PROVE n = k
    <3>1. /\ Own(n) \in LoopsOf(P) /\ Own(k) \in LoopsOf(P)
          /\ Own(n).tail = Own(k).tail
          /\ Own(n).head = n /\ Own(k).head = k
      BY <1>4, <2>2
    <3> HIDE DEF Own
    <3> QED
      BY <3>1, OneLoopAtLine
  <2>3. DOMAIN f = S
    OBVIOUS
  <2> HIDE DEF f, S, T
  <2>4. IsInjective(f)
    BY <2>2, <2>3 DEF IsInjective
  <2> QED
    BY <2>1, <2>4 DEF Injection
<1>6. IsFiniteSet(S) /\ Cardinality(S) <= Cardinality(T)
  BY <1>3, <1>5, FS_Injection
<1>7. Cardinality(S) \in Nat
  BY <1>6, FS_CardinalityType
<1> HIDE DEF S, T
<1>8. Cardinality(S) < Cardinality(TailsIn(C, span))
  BY <1>2, <1>3, <1>6, <1>7
<1> QED
  BY <1>8 DEF S

\* A loop that begins or ends within another lies in it.
LEMMA InsideOf ==
  ASSUME NEW P \in Seq(Statements), IsNested(P), NEW b \in LoopsOf(P), NEW c \in LoopsOf(P),
         \/ c.head \in b.head + 1..b.tail
         \/ c.tail \in b.head + 1..b.tail /\ c # b
  PROVE  /\ c # b /\ b.head < c.head /\ c.head < c.tail /\ c.tail < b.tail
         /\ P[b.head].op = "FOR" /\ P[c.head].op = "FOR" /\ P[b.head].var = P[c.head].var
              => P[c.tail].var # NoVar
<1>1. /\ Len(P) \in Nat /\ b.head \in Int /\ b.tail \in Int /\ c.head \in Int /\ c.tail \in Int
      /\ b.head < b.tail /\ c.head < c.tail
  BY LenProperties, LoopFields
<1>2. c.head # b.tail
  <2>1. P[b.tail].op \in Closes /\ P[c.head].op \in Begins
    BY LoopFields, LoopEnds
  <2> QED
    BY <2>1 DEF Begins, Closes
<1>3. c # b /\ b.head < c.head /\ c.tail < b.tail
  BY <1>1, <1>2, OneLoopAtLine
<1>4. ~(b.tail < c.head)
  BY <1>1, <1>3
<1> QED
  BY <1>1, <1>3, <1>4 DEF IsNested

\* The scan of cmdfor, in each of its two balances, counts loops of one sort.
SortOf(v, own) ==
  {c \in LoopsOf(linebase) : linebase[c.tail].op = "NEXT" /\ (linebase[c.tail].var = v) = own}

LEMMA ScanCountsLoops ==
  ASSUME BasicTypeOK, IsNested(linebase), NEW b \in LoopsOf(linebase), line = b.head,
         Stmt.op = "FOR", NEW own \in BOOLEAN, NEW m \in line + 1..b.tail
  PROVE  /\ Count("FOR", own, m) = Cardinality(HeadsIn(SortOf(Stmt.var, own), line + 1..m))
         /\ Count("NEXT", own, m) = Cardinality(TailsIn(SortOf(Stmt.var, own), line + 1..m))
<1> DEFINE P == linebase
           C == SortOf(Stmt.var, own)
<1>1. /\ P \in Seq(Statements) /\ Len(P) \in Nat
      /\ line \in Nat /\ b.head \in 1..Len(P) /\ b.tail \in 1..Len(P) /\ m \in Int
      /\ DOMAIN P = 1..Len(P) /\ Stmt = P[b.head]
  BY LenProperties, LoopFields DEF BasicTypeOK, Stmt
<1>2. Stmt.var \in Vars /\ Stmt.var # NoVar
  <2>1. Stmt \in Statements
    BY <1>1, ElementOfSeq
  <2> QED
    BY <2>1, StatementFields, BasicAssumption
<1>3. ASSUME NEW c \in LoopsOf(P), c.head \in line + 1..m, P[c.head].op = "FOR"
      PROVE  (P[c.tail].var = Stmt.var) <=> (P[c.head].var = Stmt.var)
  <2>1. c.head \in b.head + 1..b.tail
    BY <1>1, <1>3
  <2>2. Takes(P, c.tail, c.head)
    BY <1>1, LoopEnds
  <2>3. P[c.tail].var \in {NoVar, P[c.head].var}
    BY <1>3, <2>2 DEF Takes
  <2>4. P[b.head].var = P[c.head].var => P[c.tail].var # NoVar
    BY <1>1, <1>3, <2>1, InsideOf
  <2> QED
    BY <1>1, <1>2, <2>3, <2>4
<1>4. ASSUME NEW n \in line + 1..m
      PROVE  P[n].op = "FOR" /\ (P[n].var = Stmt.var) = own <=> \E c \in C : c.head = n
  <2>1. n \in 1..Len(P)
    BY <1>1
  <2>2. ASSUME P[n].op = "FOR", (P[n].var = Stmt.var) = own
        PROVE  \E c \in C : c.head = n
    <3>1. PICK c \in LoopsOf(P) : c.head = n
      BY <2>1, <2>2 DEF IsNested, Begins
    <3>2. P[c.tail].op = "NEXT"
      BY <1>1, <2>2, <3>1, LoopEnds
    <3>3. (P[c.tail].var = Stmt.var) <=> (P[n].var = Stmt.var)
      BY <1>3, <2>2, <3>1
    <3>4. c \in C
      BY <2>2, <3>2, <3>3 DEF SortOf
    <3> QED
      BY <3>1, <3>4
  <2>3. ASSUME NEW c \in C, c.head = n
        PROVE  P[n].op = "FOR" /\ (P[n].var = Stmt.var) = own
    <3>1. c \in LoopsOf(P) /\ P[c.tail].op = "NEXT" /\ (P[c.tail].var = Stmt.var) = own
      BY DEF SortOf
    <3>2. P[n].op = "FOR"
      BY <1>1, <2>3, <3>1, LoopEnds
    <3> QED
      BY <1>3, <2>3, <3>1, <3>2
  <2> QED
    BY <2>2, <2>3
<1>5. ASSUME NEW n \in line + 1..m
      PROVE  P[n].op = "NEXT" /\ (P[n].var = Stmt.var) = own <=> \E c \in C : c.tail = n
  <2>1. n \in 1..Len(P)
    BY <1>1
  <2>2. P[n].op = "NEXT" => \E c \in LoopsOf(P) : c.tail = n
    BY <2>1 DEF IsNested, Closes
  <2> QED
    BY <2>2 DEF SortOf
<1>6. {n \in line + 1..m : P[n].op = "FOR" /\ (P[n].var = Stmt.var) = own} = HeadsIn(C, line + 1..m)
  BY <1>4 DEF HeadsIn
<1>7. {n \in line + 1..m : P[n].op = "NEXT" /\ (P[n].var = Stmt.var) = own} = TailsIn(C, line + 1..m)
  BY <1>5 DEF TailsIn
<1> QED
  BY <1>6, <1>7 DEF Count

\* The scan of a FOR stops at its own NEXT.
LEMMA ScanOfFor ==
  ASSUME BasicTypeOK, IsNested(linebase), NEW b \in LoopsOf(linebase), line = b.head,
         Stmt.op = "FOR"
  PROVE  /\ EndOfFor(b.tail)
         /\ \A m \in line + 1..b.tail - 1 : ~EndOfFor(m)
<1> DEFINE P == linebase
<1>1. /\ P \in Seq(Statements) /\ Len(P) \in Nat
      /\ line \in Nat /\ b.head \in 1..Len(P) /\ b.tail \in 1..Len(P) /\ b.head < b.tail
      /\ Stmt = P[b.head]
  BY LenProperties, LoopFields DEF BasicTypeOK, Stmt
<1>2. \A own \in BOOLEAN : SortOf(Stmt.var, own) \in SUBSET LoopsOf(P)
  BY DEF SortOf
<1>3. EndOfFor(b.tail)
  <2> DEFINE own == (P[b.tail].var = Stmt.var)
  <2>1. P[b.tail].op = "NEXT"
    BY <1>1, LoopEnds
  <2>2. b \in SortOf(Stmt.var, own) /\ own \in BOOLEAN
    BY <2>1 DEF SortOf
  <2>3. b.tail \in line + 1..b.tail
    BY <1>1
  <2> HIDE DEF own
  <2>4. Count("FOR", own, b.tail) < Count("NEXT", own, b.tail)
    BY <1>1, <1>2, <2>2, <2>3, ScanCountsLoops, ClosedAtItsEnd
  <2> QED
    BY <2>2, <2>4 DEF EndOfFor
<1>4. ASSUME NEW m \in line + 1..b.tail - 1, NEW own \in BOOLEAN
      PROVE  ~(Count("FOR", own, m) < Count("NEXT", own, m))
  <2>1. m \in line + 1..b.tail /\ m \in b.head + 1..b.tail - 1
    BY <1>1
  <2> DEFINE C == SortOf(Stmt.var, own)
             begun == Cardinality(HeadsIn(C, line + 1..m))
             closed == Cardinality(TailsIn(C, line + 1..m))
  <2>2. closed <= begun
    BY <1>1, <1>2, <2>1, BegunBeforeClosed
  <2>3. begun \in Nat /\ closed \in Nat
    <3>1. line + 1 \in Int /\ m \in Int
      BY <1>1
    <3>2. IsFiniteSet(line + 1..m)
      BY <3>1, FS_Interval
    <3>3. HeadsIn(C, line + 1..m) \subseteq line + 1..m /\ TailsIn(C, line + 1..m) \subseteq line + 1..m
      BY DEF HeadsIn, TailsIn
    <3> QED
      BY <3>2, <3>3, FS_Subset, FS_CardinalityType
  <2>4. Count("FOR", own, m) = begun /\ Count("NEXT", own, m) = closed
    BY <2>1, ScanCountsLoops
  <2> HIDE DEF begun, closed
  <2> QED
    BY <2>2, <2>3, <2>4
<1> QED
  BY <1>3, <1>4 DEF EndOfFor

\* And that of a WHILE, which counts WHILE and WEND, at its own WEND.
LEMMA ScanOfWhile ==
  ASSUME BasicTypeOK, IsNested(linebase), NEW b \in LoopsOf(linebase), line = b.head,
         Stmt.op = "WHILE"
  PROVE  /\ EndOfWhile(b.tail)
         /\ \A m \in line + 1..b.tail - 1 : ~EndOfWhile(m)
<1> DEFINE P == linebase
           C == {c \in LoopsOf(P) : P[c.head].op = "WHILE"}
<1>1. /\ P \in Seq(Statements) /\ Len(P) \in Nat
      /\ line \in Nat /\ b.head \in 1..Len(P) /\ b.tail \in 1..Len(P) /\ b.head < b.tail
      /\ Stmt = P[b.head]
  BY LenProperties, LoopFields DEF BasicTypeOK, Stmt
<1>2. C \in SUBSET LoopsOf(P) /\ b \in C
  BY <1>1
<1>3. \A c \in LoopsOf(P) : P[c.head].op = "WHILE" <=> P[c.tail].op = "WEND"
  <2>1. \A c \in LoopsOf(P) : Takes(P, c.tail, c.head)
    BY <1>1, LoopEnds
  <2> QED
    BY <2>1 DEF Takes
<1>4. ASSUME NEW m \in line + 1..b.tail
      PROVE  /\ {n \in line + 1..m : P[n].op = "WHILE"} = HeadsIn(C, line + 1..m)
             /\ {n \in line + 1..m : P[n].op = "WEND"} = TailsIn(C, line + 1..m)
  <2>1. \A n \in line + 1..m : n \in 1..Len(P)
    BY <1>1
  <2>2. ASSUME NEW n \in line + 1..m
        PROVE  /\ P[n].op = "WHILE" <=> \E c \in C : c.head = n
               /\ P[n].op = "WEND" <=> \E c \in C : c.tail = n
    <3>1. /\ P[n].op = "WHILE" => \E c \in LoopsOf(P) : c.head = n
          /\ P[n].op = "WEND" => \E c \in LoopsOf(P) : c.tail = n
      BY <2>1 DEF IsNested, Begins, Closes
    <3> QED
      BY <1>3, <3>1
  <2> QED
    BY <2>2 DEF HeadsIn, TailsIn
<1>5. EndOfWhile(b.tail)
  <2>1. b.tail \in line + 1..b.tail
    BY <1>1
  <2>2. Cardinality(HeadsIn(C, line + 1..b.tail)) < Cardinality(TailsIn(C, line + 1..b.tail))
    <3> HIDE DEF C
    <3> QED
      BY <1>1, <1>2, ClosedAtItsEnd
  <2> HIDE DEF C
  <2> QED
    BY <1>4, <2>1, <2>2 DEF EndOfWhile
<1>6. ASSUME NEW m \in line + 1..b.tail - 1
      PROVE  ~EndOfWhile(m)
  <2>1. m \in line + 1..b.tail /\ m \in b.head + 1..b.tail - 1
    BY <1>1
  <2> HIDE DEF C
  <2> DEFINE begun == Cardinality(HeadsIn(C, line + 1..m))
             closed == Cardinality(TailsIn(C, line + 1..m))
  <2>2. closed <= begun
    BY <1>1, <1>2, <2>1, BegunBeforeClosed
  <2>3. begun \in Nat /\ closed \in Nat
    <3>1. line + 1 \in Int /\ m \in Int
      BY <1>1
    <3>2. IsFiniteSet(line + 1..m)
      BY <3>1, FS_Interval
    <3>3. HeadsIn(C, line + 1..m) \subseteq line + 1..m /\ TailsIn(C, line + 1..m) \subseteq line + 1..m
      BY DEF HeadsIn, TailsIn
    <3> QED
      BY <3>2, <3>3, FS_Subset, FS_CardinalityType
  <2>4. EndOfWhile(m) <=> begun < closed
    BY <1>4, <2>1 DEF EndOfWhile
  <2> HIDE DEF begun, closed
  <2> QED
    BY <2>2, <2>3, <2>4
<1> QED
  BY <1>5, <1>6

\* The first line that ends a loop is the one found.
LEMMA FoundIsFirst ==
  ASSUME BasicTypeOK, status = "running", NEW tail \in line + 1..Len(linebase),
         NEW ends \in SUBSET (line + 1..Len(linebase)), tail \in ends,
         \A n \in line + 1..tail - 1 : n \notin ends
  PROVE  \A m \in ends : Found(m, ends) => m = tail
<1>1. line \in Nat /\ Len(linebase) \in Nat
  BY LenProperties DEF BasicTypeOK
<1> QED
  BY <1>1 DEF Found

--------------------------------------------------------------------------------
(* Nested programs: the stack *)

HeadOf(r) == IF r.kind = "for" THEN r.home - 1 ELSE r.home

\* Entry m of a stack, above the record of b and below q, belongs to a loop within b.
\* Unless it is the record of a loop around the line, the end of b passes it over.
Inner(P, s, m, q, b, around) ==
  /\ s[m].kind # "gosub"
  /\ \E c \in LoopsOf(P) :
       /\ HeadOf(s[m]) = c.head /\ b.head < c.head /\ c.tail < b.tail
       /\ \/ c \in around /\ \A k \in m + 1..q - 1 : HeadOf(s[k]) # c.head
          \/ ~Takes(P, b.tail, c.head)

RecordAt(P, s, p, q, b, around) ==
  /\ s[p].kind # "gosub" /\ HeadOf(s[p]) = b.head
  /\ \A m \in p + 1..q - 1 : Inner(P, s, m, q, b, around)

\* The entries below q have a record for each of the loops around.
Stacks(P, s, q, around) ==
  \A b \in around : \E p \in 1..q - 1 : RecordAt(P, s, p, q, b, around)

\* So have those of the line that is executed, and below each call those of its line.
Stacked ==
  /\ Stacks(linebase, loops, Len(loops) + 1, Around(linebase, line))
  /\ \A q \in 1..Len(loops) :
       loops[q].kind = "gosub" => Stacks(linebase, loops, q, Around(linebase, loops[q].home))

\* Only the entries below q matter.
LEMMA StacksBelow ==
  ASSUME NEW P, NEW s, NEW t, NEW q \in Nat, NEW around,
         \A i \in 1..q - 1 : s[i] = t[i], Stacks(P, s, q, around)
  PROVE  Stacks(P, t, q, around)
<1> SUFFICES ASSUME NEW b \in around PROVE \E p \in 1..q - 1 : RecordAt(P, t, p, q, b, around)
  BY DEF Stacks
<1>1. PICK p \in 1..q - 1 : RecordAt(P, s, p, q, b, around)
  BY DEF Stacks
<1>2. ASSUME NEW m \in p + 1..q - 1 PROVE Inner(P, t, m, q, b, around)
  <2>1. Inner(P, s, m, q, b, around) /\ m \in 1..q - 1 /\ \A k \in m + 1..q - 1 : k \in 1..q - 1
    BY <1>1 DEF RecordAt
  <2> QED
    BY <2>1 DEF Inner
<1> QED
  BY <1>1, <1>2 DEF RecordAt

\* Loops that are left in the right way leave the records of the others.
LEMMA StacksFewer ==
  ASSUME NEW P, NEW s, NEW q \in Nat, NEW around, NEW fewer \in SUBSET around,
         Stacks(P, s, q, around),
         \A b \in fewer, c \in around \ fewer : ~Takes(P, b.tail, c.head)
  PROVE  Stacks(P, s, q, fewer)
<1> SUFFICES ASSUME NEW b \in fewer PROVE \E p \in 1..q - 1 : RecordAt(P, s, p, q, b, fewer)
  BY DEF Stacks
<1>1. PICK p \in 1..q - 1 : RecordAt(P, s, p, q, b, around)
  BY DEF Stacks
<1>2. ASSUME NEW m \in p + 1..q - 1 PROVE Inner(P, s, m, q, b, fewer)
  BY <1>1 DEF RecordAt, Inner
<1> QED
  BY <1>1, <1>2 DEF RecordAt

\* A loop that is entered has its record on top.
LEMMA StacksPushed ==
  ASSUME NEW P, NEW s, NEW t, NEW q \in Nat \ {0}, NEW around,
         NEW b \in LoopsOf(P), b \notin around,
         \A c \in around : c \in LoopsOf(P) /\ c.head < b.head /\ b.tail < c.tail,
         Stacks(P, s, q, around), \A i \in 1..q - 1 : s[i] = t[i],
         t[q].kind # "gosub", HeadOf(t[q]) = b.head
  PROVE  Stacks(P, t, q + 1, around \cup {b})
<1>1. RecordAt(P, t, q, q + 1, b, around \cup {b})
  <2>1. q + 1..q + 1 - 1 = {}
    OBVIOUS
  <2> QED
    BY <2>1 DEF RecordAt
<1>2. ASSUME NEW c \in around PROVE \E p \in 1..q : RecordAt(P, t, p, q + 1, c, around \cup {b})
  <2>1. PICK p \in 1..q - 1 : RecordAt(P, s, p, q, c, around)
    BY DEF Stacks
  <2>2. ASSUME NEW m \in p + 1..q PROVE Inner(P, t, m, q + 1, c, around \cup {b})
    <3>1. CASE m = q
      <4>1. q + 1..q + 1 - 1 = {}
        OBVIOUS
      <4>2. \A k \in m + 1..q + 1 - 1 : HeadOf(t[k]) # b.head
        BY <3>1, <4>1
      <4> QED
        BY <3>1, <4>2 DEF Inner
    <3>2. CASE m # q
      <4>1. m \in p + 1..q - 1 /\ m \in 1..q - 1
        BY <3>2
      <4>2. Inner(P, s, m, q, c, around)
        BY <2>1, <4>1 DEF RecordAt
      <4>3. PICK d \in LoopsOf(P) :
              /\ HeadOf(s[m]) = d.head /\ c.head < d.head /\ d.tail < c.tail
              /\ \/ d \in around /\ \A k \in m + 1..q - 1 : HeadOf(s[k]) # d.head
                 \/ ~Takes(P, c.tail, d.head)
        BY <4>2 DEF Inner
      <4>4. d \in around => HeadOf(t[q]) # d.head
        <5>1. SUFFICES ASSUME d \in around PROVE b.head # d.head
          OBVIOUS
        <5>2. b.head \in 1..Len(P) /\ d.head \in 1..Len(P) /\ d.head < b.head
          BY <5>1 DEF LoopsOf
        <5> QED
          BY <5>2
      <4>5. \A k \in m + 1..q + 1 - 1 : k = q \/ (k \in m + 1..q - 1 /\ k \in 1..q - 1)
        BY <4>1
      <4>6. \/ d \in around \cup {b} /\ \A k \in m + 1..q + 1 - 1 : HeadOf(t[k]) # d.head
            \/ ~Takes(P, c.tail, d.head)
        BY <4>3, <4>4, <4>5
      <4>7. s[m] = t[m] /\ s[m].kind # "gosub"
        BY <4>1, <4>2 DEF Inner
      <4> QED
        BY <4>3, <4>6, <4>7 DEF Inner
    <3> QED
      BY <3>1, <3>2
  <2>3. t[p].kind # "gosub" /\ HeadOf(t[p]) = c.head /\ p \in 1..q
    BY <2>1 DEF RecordAt
  <2>4. \A m \in p + 1..q + 1 - 1 : m \in p + 1..q
    OBVIOUS
  <2>5. RecordAt(P, t, p, q + 1, c, around \cup {b})
    BY <2>2, <2>3, <2>4 DEF RecordAt
  <2> QED
    BY <2>3, <2>5
<1>3. q + 1 - 1 = q /\ q \in 1..q
  OBVIOUS
<1> SUFFICES ASSUME NEW c \in around \cup {b}
             PROVE  \E p \in 1..q + 1 - 1 : RecordAt(P, t, p, q + 1, c, around \cup {b})
  BY DEF Stacks
<1> QED
  BY <1>1, <1>2, <1>3

\* The innermost loop has its record on top of those of the others, with or without it.
LEMMA StacksAtEnd ==
  ASSUME NEW P, NEW s, NEW q \in Nat \ {0}, NEW around, NEW b \in around,
         \A c \in around : c \in LoopsOf(P) /\ (c = b \/ (c.head < b.head /\ b.tail < c.tail)),
         Stacks(P, s, q, around), NEW p \in 1..q - 1, RecordAt(P, s, p, q, b, around)
  PROVE  Stacks(P, s, p + 1, around) /\ Stacks(P, s, p, around \ {b})
<1>1. HeadOf(s[p]) = b.head /\ s[p].kind # "gosub"
  BY DEF RecordAt
<1>2. \A c \in LoopsOf(P) : c.head \in Int
  BY DEF LoopsOf
<1>3. ASSUME NEW c \in around, c # b
      PROVE  \E r \in 1..p - 1 :
               RecordAt(P, s, r, p + 1, c, around) /\ RecordAt(P, s, r, p, c, around \ {b})
  <2>1. PICK r \in 1..q - 1 : RecordAt(P, s, r, q, c, around)
    BY DEF Stacks
  <2>2. c.head < b.head /\ HeadOf(s[r]) = c.head /\ s[r].kind # "gosub"
    BY <1>3, <2>1 DEF RecordAt
  <2>3. r # p
    BY <1>1, <1>2, <2>2
  <2>4. ~(p < r)
    <3>1. SUFFICES ASSUME p < r PROVE FALSE
      OBVIOUS
    <3>2. r \in p + 1..q - 1
      BY <3>1
    <3>3. Inner(P, s, r, q, b, around)
      BY <3>2 DEF RecordAt
    <3>4. PICK d \in LoopsOf(P) : HeadOf(s[r]) = d.head /\ b.head < d.head
      BY <3>3 DEF Inner
    <3> QED
      BY <1>2, <2>2, <3>4
  <2>5. r \in 1..p - 1
    BY <2>3, <2>4
  <2>6. ASSUME NEW m \in r + 1..p
        PROVE  /\ Inner(P, s, m, p + 1, c, around)
               /\ m # p => Inner(P, s, m, p, c, around \ {b})
    <3>1. m \in r + 1..q - 1 /\ m \in Int
      BY <2>5
    <3>2. s[m].kind # "gosub" /\ Inner(P, s, m, q, c, around)
      BY <2>1, <3>1 DEF RecordAt, Inner
    <3>3. PICK d \in LoopsOf(P) :
            /\ HeadOf(s[m]) = d.head /\ c.head < d.head /\ d.tail < c.tail
            /\ \/ d \in around /\ \A k \in m + 1..q - 1 : HeadOf(s[k]) # d.head
               \/ ~Takes(P, c.tail, d.head)
      BY <3>2 DEF Inner
    <3>4. /\ \A k \in m + 1..p + 1 - 1 : k \in m + 1..q - 1
          /\ \A k \in m + 1..p - 1 : k \in m + 1..q - 1
      BY <3>1
    <3>5. m # p => p \in m + 1..q - 1
      BY <3>1
    <3>6. ASSUME m # p, d \in around, \A k \in m + 1..q - 1 : HeadOf(s[k]) # d.head
          PROVE  d # b
      BY <1>1, <3>5, <3>6
    <3> QED
      BY <3>2, <3>3, <3>4, <3>6 DEF Inner
  <2>7. /\ \A m \in r + 1..p + 1 - 1 : m \in r + 1..p
        /\ \A m \in r + 1..p - 1 : m \in r + 1..p /\ m # p
    OBVIOUS
  <2>8. RecordAt(P, s, r, p + 1, c, around) /\ RecordAt(P, s, r, p, c, around \ {b})
    BY <2>2, <2>6, <2>7 DEF RecordAt
  <2> QED
    BY <2>5, <2>8
<1>4. RecordAt(P, s, p, p + 1, b, around)
  <2>1. p + 1..p + 1 - 1 = {}
    OBVIOUS
  <2> QED
    BY <1>1, <2>1 DEF RecordAt
<1>5. /\ p \in 1..p + 1 - 1
      /\ \A r \in 1..p - 1 : r \in 1..p + 1 - 1
  OBVIOUS
<1>6. \A c \in around : \E r \in 1..p + 1 - 1 : RecordAt(P, s, r, p + 1, c, around)
  BY <1>3, <1>4, <1>5
<1>7. \A c \in around \ {b} : \E r \in 1..p - 1 : RecordAt(P, s, r, p, c, around \ {b})
  BY <1>3
<1> QED
  BY <1>6, <1>7 DEF Stacks

--------------------------------------------------------------------------------
(* Nested programs: NEXT and WEND find the record of their loop *)

\* What is needed of a step in a nested program.
Nesting ==
  /\ BasicInv /\ Statement
  /\ linebase \in NestedPrograms /\ Stacked

LEMMA NestingFacts ==
  ASSUME Nesting
  PROVE  /\ BasicTypeOK /\ RecordsInPlace /\ IsNested(linebase) /\ linebase \in Seq(Statements)
         /\ linebase' = linebase /\ status = "running" /\ line \in 1..Len(linebase)
         /\ Len(linebase) \in Nat /\ Stmt \in Statements /\ Stmt = linebase[line]
         /\ loops \in Seq(LoopRecords) /\ Len(loops) \in Nat
         /\ \A i \in 1..Len(loops) : loops[i] \in LoopRecords /\ FitsItsLoop(loops[i])
<1>1. BasicTypeOK /\ RecordsInPlace /\ IsNested(linebase)
  BY DEF Nesting, BasicInv, NestedPrograms
<1>2. /\ linebase' = linebase /\ status = "running" /\ line \in 1..Len(linebase)
      /\ Len(linebase) \in Nat /\ Stmt \in Statements
  BY <1>1, StmtInProgram DEF Nesting
<1>3. loops \in Seq(LoopRecords) /\ Len(loops) \in Nat /\ DOMAIN loops = 1..Len(loops)
  BY <1>1, LenProperties DEF BasicTypeOK
<1>4. \A i \in 1..Len(loops) : loops[i] \in LoopRecords /\ FitsItsLoop(loops[i])
  BY <1>1, <1>3, ElementOfSeq DEF RecordsInPlace
<1> QED
  BY <1>1, <1>2, <1>3, <1>4 DEF BasicTypeOK, Stmt

\* A record on the stack and the loop whose head it has
LEMMA RecordOfLoop ==
  ASSUME Nesting, NEW i \in 1..Len(loops), NEW b \in LoopsOf(linebase),
         loops[i].kind # "gosub", HeadOf(loops[i]) = b.head
  PROVE  LET r == loops[i]
             s == linebase[b.head]
         IN /\ s.op = "FOR" <=> r.kind = "for"
            /\ s.op = "WHILE" <=> r.kind = "while"
            /\ s.op = "FOR" => /\ r.var = s.var /\ r.max = s.to /\ r.step = s.step
                               /\ r.home = b.head + 1
            /\ s.op = "WHILE" => r.home = b.head
<1>1. loops[i] \in LoopRecords /\ FitsItsLoop(loops[i]) /\ Len(linebase) \in Nat
  BY NestingFacts
<1>2. loops[i].home \in Nat /\ loops[i].kind \in {"for", "while"}
  BY <1>1, RecordFields
<1>3. CASE loops[i].kind = "for"
  <2>1. loops[i].home - 1 = b.head /\ loops[i].home = b.head + 1
    BY <1>2, <1>3 DEF HeadOf
  <2> QED
    BY <1>1, <1>3, <2>1 DEF FitsItsLoop
<1>4. CASE loops[i].kind = "while"
  BY <1>1, <1>4 DEF FitsItsLoop, HeadOf
<1> QED
  BY <1>2, <1>3, <1>4

\* At its end the loop is the innermost, and NEXT or WEND passes over what is above its record.
LEMMA EndFindsRecord ==
  ASSUME Nesting, NEW b \in LoopsOf(linebase), line = b.tail
  PROVE  \E p \in 1..Len(loops) :
           /\ RecordAt(linebase, loops, p, Len(loops) + 1, b, Around(linebase, line))
           /\ \A n \in 1..Len(loops) :
                 /\ Stmt.op = "NEXT" =>
                      (Matching(n, {i \in Open("for") : Stmt.var \in {NoVar, loops[i].var}}) <=> n = p)
                 /\ Stmt.op = "WEND" => (Matching(n, Open("while")) <=> n = p)
<1> DEFINE P == linebase
           A == Around(P, line)
           q == Len(loops) + 1
<1>1. /\ P \in Seq(Statements) /\ IsNested(P) /\ Len(P) \in Nat /\ Len(loops) \in Nat
      /\ line \in 1..Len(P) /\ Stmt = P[b.tail]
  BY NestingFacts
<1>2. b \in A
  BY <1>1, AroundTheLoop
<1>3. PICK p \in 1..q - 1 : RecordAt(P, loops, p, q, b, A)
  BY <1>2 DEF Nesting, Stacked, Stacks
<1>4. p \in 1..Len(loops) /\ loops[p].kind # "gosub" /\ HeadOf(loops[p]) = b.head
  BY <1>1, <1>3 DEF RecordAt
<1>5. Takes(P, b.tail, b.head)
  BY <1>1, LoopEnds
<1>6. ASSUME NEW m \in 1..Len(loops), m > p
      PROVE  /\ loops[m].kind # "gosub"
             /\ Stmt.op = "NEXT" /\ loops[m].kind = "for" => Stmt.var \notin {NoVar, loops[m].var}
             /\ Stmt.op = "WEND" => loops[m].kind # "while"
  <2>1. m \in p + 1..q - 1
    BY <1>1, <1>4, <1>6
  <2>2. Inner(P, loops, m, q, b, A)
    BY <1>3, <2>1 DEF RecordAt
  <2>3. PICK c \in LoopsOf(P) :
          /\ HeadOf(loops[m]) = c.head /\ b.head < c.head /\ c.tail < b.tail
          /\ c \in A \/ ~Takes(P, b.tail, c.head)
    BY <2>2 DEF Inner
  <2>4. c \notin A
    BY <1>1, <2>3, LoopFields DEF Around
  <2>5. ~Takes(P, b.tail, c.head) /\ loops[m].kind # "gosub"
    BY <2>2, <2>3, <2>4 DEF Inner
  <2>6. /\ P[c.head].op = "FOR" <=> loops[m].kind = "for"
        /\ P[c.head].op = "WHILE" <=> loops[m].kind = "while"
        /\ P[c.head].op = "FOR" => loops[m].var = P[c.head].var
    BY <2>3, <2>5, RecordOfLoop
  <2> QED
    BY <1>1, <2>5, <2>6 DEF Takes
<1>7. /\ Stmt.op = "NEXT" => loops[p].kind = "for" /\ Stmt.var \in {NoVar, loops[p].var}
      /\ Stmt.op = "WEND" => loops[p].kind = "while"
  <2>1. /\ P[b.head].op = "FOR" <=> loops[p].kind = "for"
        /\ P[b.head].op = "WHILE" <=> loops[p].kind = "while"
        /\ P[b.head].op = "FOR" => loops[p].var = P[b.head].var
    BY <1>4, RecordOfLoop
  <2> QED
    BY <1>1, <1>5, <2>1 DEF Takes
<1>8. ASSUME Stmt.op = "NEXT", NEW n \in 1..Len(loops)
      PROVE  Matching(n, {i \in Open("for") : Stmt.var \in {NoVar, loops[i].var}}) <=> n = p
  <2> DEFINE own == {i \in Open("for") : Stmt.var \in {NoVar, loops[i].var}}
  <2>1. \A i \in 1..Len(loops) :
          i \in own <=> loops[i].kind = "for" /\ Stmt.var \in {NoVar, loops[i].var}
    BY DEF Open
  <2>2. p \in own /\ \A m \in 1..Len(loops) : m > p => m \notin own /\ loops[m].kind # "gosub"
    BY <1>4, <1>6, <1>7, <1>8, <2>1
  <2> HIDE DEF own
  <2>3. Matching(n, own) <=> n = p
    BY <1>1, <1>4, <2>2 DEF Matching
  <2> QED
    BY <2>3 DEF own
<1>9. ASSUME Stmt.op = "WEND", NEW n \in 1..Len(loops)
      PROVE  Matching(n, Open("while")) <=> n = p
  <2>1. \A i \in 1..Len(loops) : i \in Open("while") <=> loops[i].kind = "while"
    BY DEF Open
  <2>2. /\ p \in Open("while")
        /\ \A m \in 1..Len(loops) : m > p => m \notin Open("while") /\ loops[m].kind # "gosub"
    BY <1>4, <1>6, <1>7, <1>9, <2>1
  <2> QED
    BY <1>1, <1>4, <2>2 DEF Matching
<1> QED
  BY <1>3, <1>4, <1>8, <1>9

--------------------------------------------------------------------------------
(* Nested programs: what a step makes of the stack and of the calls *)

\* The entries up to k stay.
UpTo(k) == Len(loops') = k /\ \A i \in 1..k : loops'[i] = loops[i]

LEMMA StackCut ==
  ASSUME Nesting, NEW k \in 0..Len(loops), UpTo(k),
         Stacks(linebase, loops, k + 1, Around(linebase, line'))
  PROVE  Stacked'
<1>1. linebase' = linebase /\ Len(loops) \in Nat
  BY NestingFacts
<1>2. Stacks(linebase, loops', k + 1, Around(linebase, line'))
  <2>1. \A i \in 1..k + 1 - 1 : loops[i] = loops'[i]
    BY <1>1 DEF UpTo
  <2>2. k + 1 \in Nat
    BY <1>1
  <2> QED
    BY <2>1, <2>2, StacksBelow
<1>3. ASSUME NEW q \in 1..k, loops'[q].kind = "gosub"
      PROVE  Stacks(linebase, loops', q, Around(linebase, loops'[q].home))
  <2>1. q \in 1..Len(loops) /\ loops'[q] = loops[q] /\ \A i \in 1..q - 1 : loops[i] = loops'[i]
    BY <1>1 DEF UpTo
  <2>2. Stacks(linebase, loops, q, Around(linebase, loops[q].home))
    BY <1>3, <2>1 DEF Nesting, Stacked
  <2>3. Stacks(linebase, loops', q, Around(linebase, loops[q].home))
    BY <2>1, <2>2, StacksBelow
  <2> QED
    BY <2>1, <2>3
<1> QED
  BY <1>1, <1>2, <1>3 DEF Stacked, UpTo

\* One entry more
LEMMA AppendedRecord ==
  ASSUME Nesting, NEW r \in LoopRecords, loops' = Append(loops, r)
  PROVE  /\ Len(loops') = Len(loops) + 1 /\ loops'[Len(loops) + 1] = r
         /\ \A i \in 1..Len(loops) : loops'[i] = loops[i]
<1>1. loops \in Seq(LoopRecords)
  BY NestingFacts
<1> QED
  BY <1>1, AppendProperties

LEMMA StackOfCallers ==
  ASSUME Nesting, NEW r \in LoopRecords, loops' = Append(loops, r),
         NEW q \in 1..Len(loops), loops'[q].kind = "gosub"
  PROVE  Stacks(linebase, loops', q, Around(linebase, loops'[q].home))
<1>1. Len(loops) \in Nat
  BY NestingFacts
<1>2. loops'[q] = loops[q] /\ \A i \in 1..q - 1 : loops[i] = loops'[i]
  BY <1>1, AppendedRecord
<1>3. Stacks(linebase, loops, q, Around(linebase, loops[q].home))
  BY <1>2 DEF Nesting, Stacked
<1>4. q \in Nat
  BY <1>1
<1>5. Stacks(linebase, loops', q, Around(linebase, loops[q].home))
  BY <1>2, <1>3, <1>4, StacksBelow
<1> QED
  BY <1>2, <1>5

LEMMA StackEntered ==
  ASSUME Nesting, NEW b \in LoopsOf(linebase), line = b.head, line' = b.head + 1,
         NEW r \in LoopRecords, loops' = Append(loops, r),
         r.kind # "gosub", HeadOf(r) = b.head
  PROVE  Stacked'
<1> DEFINE P == linebase
           q == Len(loops) + 1
<1>1. /\ P \in Seq(Statements) /\ IsNested(P) /\ linebase' = P /\ Len(P) \in Nat
      /\ Len(loops) \in Nat
  BY NestingFacts
<1>2. /\ Len(loops') = q /\ loops'[q] = r
      /\ \A i \in 1..Len(loops) : loops'[i] = loops[i]
  BY AppendedRecord
<1>3. /\ b \notin Around(P, line)
      /\ Around(P, line') = Around(P, line) \cup {b}
  BY <1>1, AroundTheLoop
<1>4. ASSUME NEW c \in Around(P, line)
      PROVE  c \in LoopsOf(P) /\ c.head < b.head /\ b.tail < c.tail
  <2>1. c \in LoopsOf(P) /\ c # b /\ c.head < b.head /\ b.head <= c.tail
    BY <1>3 DEF Around
  <2>2. c.head \in Int /\ c.tail \in Int /\ b.head \in Int /\ b.tail \in Int
    BY <1>1, <2>1, LoopFields
  <2> QED
    BY <1>1, <2>1, <2>2, OneLoopAtLine
<1>5. Stacks(P, loops, q, Around(P, line))
  BY DEF Nesting, Stacked
<1>6. Stacks(P, loops', q + 1, Around(P, line'))
  <2>1. /\ q \in Nat \ {0} /\ \A i \in 1..q - 1 : loops[i] = loops'[i]
        /\ loops'[q].kind # "gosub" /\ HeadOf(loops'[q]) = b.head
    BY <1>1, <1>2
  <2> HIDE DEF q, P
  <2>2. b \in LoopsOf(P)
    BY DEF P
  <2>3. Stacks(P, loops', q + 1, Around(P, line) \cup {b})
    BY <1>3, <1>4, <1>5, <2>1, <2>2, StacksPushed
  <2> QED
    BY <1>3, <2>3
<1>7. ASSUME NEW n \in 1..q, loops'[n].kind = "gosub"
      PROVE  Stacks(P, loops', n, Around(P, loops'[n].home))
  <2>1. n \in 1..Len(loops)
    BY <1>1, <1>2, <1>7
  <2> QED
    BY <1>7, <2>1, StackOfCallers
<1> QED
  BY <1>1, <1>2, <1>6, <1>7 DEF Stacked

LEMMA StackCalled ==
  ASSUME Nesting, loops' = Called, Around(linebase, line') = {}
  PROVE  Stacked'
<1> DEFINE P == linebase
           q == Len(loops) + 1
           r == [kind |-> "gosub", home |-> line]
<1>1. linebase' = P /\ Len(loops) \in Nat /\ line \in Nat
  BY NestingFacts
<1>2. r \in LoopRecords /\ loops' = Append(loops, r)
  BY <1>1 DEF LoopRecords, Called
<1>3. /\ Len(loops') = q /\ loops'[q] = r
      /\ \A i \in 1..Len(loops) : loops'[i] = loops[i]
  BY <1>2, AppendedRecord
<1>4. Stacks(P, loops', q + 1, Around(P, line'))
  BY DEF Stacks
<1>5. Stacks(P, loops', q, Around(P, line))
  <2>1. Stacks(P, loops, q, Around(P, line))
    BY DEF Nesting, Stacked
  <2>2. q \in Nat /\ \A i \in 1..q - 1 : loops[i] = loops'[i]
    BY <1>1, <1>3
  <2> HIDE DEF q
  <2> QED
    BY <2>1, <2>2, StacksBelow
<1>6. ASSUME NEW n \in 1..q, loops'[n].kind = "gosub"
      PROVE  Stacks(P, loops', n, Around(P, loops'[n].home))
  <2>1. CASE n = q
    BY <1>3, <1>5, <2>1
  <2>2. CASE n # q
    <3>1. n \in 1..Len(loops)
      BY <1>1, <2>2
    <3> HIDE DEF r
    <3> QED
      BY <1>2, <1>6, <3>1, StackOfCallers
  <2> QED
    BY <2>1, <2>2
<1> QED
  BY <1>1, <1>3, <1>4, <1>6 DEF Stacked

\* The calls are those of the entries that stay,
LEMMA CallsCut ==
  ASSUME Nesting, NEW k \in 0..Len(loops), UpTo(k),
         \A m \in k + 1..Len(loops) : loops[m].kind # "gosub"
  PROVE  UNCHANGED Calls
<1>1. Len(loops) \in Nat
  BY NestingFacts
<1>2. \A i \in 1..k : loops'[i] = loops[i]
  BY DEF UpTo
<1>3. Open("gosub")' = Open("gosub")
  <2>1. Open("gosub")' = {n \in 1..k : loops'[n].kind = "gosub"}
    BY DEF Open, UpTo
  <2>2. Open("gosub") = {n \in 1..k : loops[n].kind = "gosub"}
    BY <1>1 DEF Open
  <2> QED
    BY <1>2, <2>1, <2>2
<1>4. \A p \in Open("gosub") : loops'[p] = loops[p]
  BY <1>1, <1>2 DEF Open
<1> QED
  BY <1>3, <1>4 DEF Calls

\* and the record of a loop is none.
LEMMA CallsEntered ==
  ASSUME Nesting, NEW r \in LoopRecords, loops' = Append(loops, r), r.kind # "gosub"
  PROVE  UNCHANGED Calls
<1>1. Len(loops) \in Nat
  BY NestingFacts
<1>2. /\ Len(loops') = Len(loops) + 1 /\ loops'[Len(loops) + 1] = r
      /\ \A i \in 1..Len(loops) : loops'[i] = loops[i]
  BY AppendedRecord
<1>3. Open("gosub")' = Open("gosub")
  <2>1. Open("gosub")' = {n \in 1..Len(loops) + 1 : loops'[n].kind = "gosub"}
    BY <1>2 DEF Open
  <2> QED
    BY <1>1, <1>2, <2>1 DEF Open
<1>4. \A p \in Open("gosub") : loops'[p] = loops[p]
  BY <1>2 DEF Open
<1> QED
  BY <1>3, <1>4 DEF Calls

LEMMA CallsCalled ==
  ASSUME Nesting, loops' = Called
  PROVE  CallStep
<1> DEFINE p == Len(loops) + 1
           r == [kind |-> "gosub", home |-> line]
<1>1. Len(loops) \in Nat /\ line \in Nat
  BY NestingFacts
<1>2. r \in LoopRecords /\ loops' = Append(loops, r)
  BY <1>1 DEF LoopRecords, Called
<1>3. /\ Len(loops') = p /\ loops'[p] = r
      /\ \A i \in 1..Len(loops) : loops'[i] = loops[i]
  BY <1>2, AppendedRecord
<1>4. Open("gosub")' = Open("gosub") \cup {p} /\ \A q \in Open("gosub") : q \in 1..Len(loops)
  <2>1. Open("gosub")' = {n \in 1..p : loops'[n].kind = "gosub"}
    BY <1>3 DEF Open
  <2> QED
    BY <1>1, <1>3, <2>1 DEF Open
<1>5. DOMAIN Calls = Open("gosub") /\ DOMAIN (Calls') = Open("gosub")'
  BY DEF Calls
<1>6. Calls' = [q \in DOMAIN Calls \cup {p} |-> IF q = p THEN line ELSE Calls[q]]
  <2>1. \A q \in Open("gosub") : q # p /\ loops'[q] = loops[q]
    BY <1>1, <1>3, <1>4
  <2>2. Calls' = [q \in Open("gosub") \cup {p} |-> loops'[q].home]
    BY <1>4 DEF Calls
  <2>3. \A q \in Open("gosub") \cup {p} :
          loops'[q].home = IF q = p THEN line ELSE Calls[q]
    BY <1>3, <2>1 DEF Calls
  <2> QED
    BY <1>5, <2>2, <2>3
<1>7. \A q \in DOMAIN Calls : q < p
  BY <1>1, <1>4, <1>5
<1> QED
  BY <1>4, <1>5, <1>6, <1>7 DEF CallStep

LEMMA UptoKeeps ==
  ASSUME Nesting, NEW k \in 0..Len(loops), loops' = Upto(k)
  PROVE  UpTo(k)
<1>1. loops \in Seq(LoopRecords) /\ Len(loops) \in Nat
  BY NestingFacts
<1> QED
  BY <1>1, SubSeqProperties DEF Upto, UpTo

\* Behind a loop, or again in it, the stack is that of the line.
LEMMA LoopEnded ==
  ASSUME Nesting, NEW b \in LoopsOf(linebase), line = b.tail, NEW p \in 1..Len(loops),
         RecordAt(linebase, loops, p, Len(loops) + 1, b, Around(linebase, line)),
         NEW k \in {p - 1, p}, UpTo(k)
  PROVE  /\ line' = (IF k = p THEN b.head + 1 ELSE b.tail + 1) => Stacked'
         /\ UNCHANGED Calls
<1> DEFINE P == linebase
           A == Around(P, line)
           q == Len(loops) + 1
<1>1. /\ P \in Seq(Statements) /\ IsNested(P) /\ Len(P) \in Nat /\ Len(loops) \in Nat
      /\ line \in 1..Len(P)
  BY NestingFacts
<1>2. /\ b \in A /\ A = Around(P, b.head + 1) /\ Around(P, b.tail + 1) = A \ {b}
  <2>1. /\ b \notin Around(P, b.head) /\ Around(P, b.tail) = Around(P, b.head) \cup {b}
        /\ Around(P, b.head + 1) = Around(P, b.head) \cup {b}
        /\ Around(P, b.tail + 1) = Around(P, b.head)
    BY <1>1, AroundTheLoop
  <2>2. A = Around(P, b.tail)
    OBVIOUS
  <2> HIDE DEF A, P
  <2> QED
    BY <2>1, <2>2
<1>3. ASSUME NEW c \in A
      PROVE  c \in LoopsOf(P) /\ (c = b \/ (c.head < b.head /\ b.tail < c.tail))
  <2>1. c \in LoopsOf(P) /\ b.tail <= c.tail /\ line \in Int
    BY <1>1 DEF Around
  <2>2. c.head \in Int /\ c.tail \in Int /\ b.head \in Int /\ b.tail \in Int
    BY <1>1, <2>1, LoopFields
  <2> QED
    BY <1>1, <1>2, <2>1, <2>2, AroundInOrder
<1>4. Stacks(P, loops, q, A) /\ q \in Nat \ {0} /\ p \in 1..q - 1
  BY <1>1 DEF Nesting, Stacked
<1>5. Stacks(P, loops, p + 1, A) /\ Stacks(P, loops, p, A \ {b})
  <2>1. RecordAt(P, loops, p, q, b, A)
    OBVIOUS
  <2> HIDE DEF P, A, q
  <2> QED
    BY <1>2, <1>3, <1>4, <2>1, StacksAtEnd
<1>6. k \in 0..Len(loops) /\ p - 1 + 1 = p /\ p - 1 # p
  BY <1>1
<1>7. ASSUME line' = (IF k = p THEN b.head + 1 ELSE b.tail + 1) PROVE Stacked'
  <2>1. Stacks(P, loops, k + 1, Around(P, line'))
    BY <1>2, <1>5, <1>6, <1>7
  <2> QED
    BY <1>6, <2>1, StackCut
<1>8. UNCHANGED Calls
  <2>1. ASSUME NEW m \in k + 1..Len(loops) PROVE loops[m].kind # "gosub"
    <3>1. CASE m = p
      BY <3>1 DEF RecordAt
    <3>2. CASE m # p
      <4>1. m \in p + 1..q - 1
        BY <1>1, <3>2
      <4> QED
        BY <4>1 DEF RecordAt, Inner
    <3> QED
      BY <3>1, <3>2
  <2> QED
    BY <1>6, <2>1, CallsCut
<1> QED
  BY <1>7, <1>8

\* What is behind a loop that is not entered, and every jump, leaves the stack as it is.
LEMMA StackStays ==
  ASSUME Nesting, UNCHANGED loops, Around(linebase, line') \subseteq Around(linebase, line),
         \A b \in Around(linebase, line'), c \in Around(linebase, line) \ Around(linebase, line') :
            ~Takes(linebase, b.tail, c.head)
  PROVE  Stacked'
<1>1. Len(loops) \in Nat /\ Len(loops) + 1 \in Nat
  BY NestingFacts
<1>2. Stacks(linebase, loops, Len(loops) + 1, Around(linebase, line))
  BY DEF Nesting, Stacked
<1>3. Stacks(linebase, loops, Len(loops) + 1, Around(linebase, line'))
  BY <1>1, <1>2, StacksFewer
<1>4. Len(loops) \in 0..Len(loops) /\ UpTo(Len(loops))
  BY <1>1 DEF UpTo
<1> QED
  BY <1>3, <1>4, StackCut

LEMMA CallsStay ==
  ASSUME UNCHANGED loops
  PROVE  UNCHANGED Calls
  BY DEF Calls, Open

\* A step of a nested program does what its text says and leaves the stack in order.
Orderly == NestedStep /\ (status' = "running" => Stacked')

LEMMA ForNested ==
  ASSUME Nesting, cmdfor
  PROVE  Orderly
<1> DEFINE P == linebase
<1>1. /\ BasicTypeOK /\ P \in Seq(Statements) /\ IsNested(P) /\ status = "running"
      /\ line \in 1..Len(P) /\ Len(P) \in Nat /\ Stmt \in Statements /\ Stmt = P[line]
      /\ Len(loops) \in Nat
  BY NestingFacts
<1>2. Stmt.op = "FOR" /\ Stmt.op \in Begins
  BY DEF cmdfor, Executing, Begins
<1>3. PICK b \in LoopsOf(P) : line = b.head
  BY <1>1, <1>2 DEF IsNested
<1>4. ~IsCall(Stmt) /\ Stmt.op # "RETURN"
  BY <1>2 DEF IsCall
<1>5. CASE ~Beyond(Stmt.from, Stmt.to, Stmt.step)
  <2> DEFINE r == [kind |-> "for", var |-> Stmt.var, max |-> Stmt.to, step |-> Stmt.step,
                   home |-> line + 1]
  <2>1. /\ value' = [value EXCEPT ![Stmt.var] = Stmt.from]
        /\ loops' = Append(loops, r) /\ GoOn(line + 1)
    BY <1>5 DEF cmdfor
  <2>2. r \in LoopRecords /\ r.kind # "gosub" /\ HeadOf(r) = b.head
    <3>1. Stmt.var \in Vars /\ Stmt.to \in Int /\ Stmt.step \in Int
      BY <1>1, <1>2, StatementFields
    <3> QED
      BY <1>1, <1>3, <3>1 DEF LoopRecords, HeadOf
  <2>3. Again(b, ~Beyond(Stmt.from, Stmt.to, Stmt.step))
    BY <1>3, <1>5, <2>1 DEF Again
  <2> HIDE DEF r
  <2>4. UNCHANGED Calls
    BY <2>1, <2>2, CallsEntered
  <2>5. LoopStep
    BY <1>1, <1>2, <1>3, <2>1, <2>3, <2>4 DEF LoopStep
  <2>6. status' = "running" => line' = b.head + 1
    BY <1>3, <2>1 DEF GoOn
  <2>7. status' = "running" => Stacked'
    BY <1>3, <2>1, <2>2, <2>6, StackEntered
  <2> QED
    BY <1>2, <1>4, <2>5, <2>7 DEF Orderly, NestedStep
<1>6. CASE Beyond(Stmt.from, Stmt.to, Stmt.step)
  <2> DEFINE ends == {m \in line + 1..Len(P) : EndOfFor(m)}
  <2>1. b.tail \in line + 1..Len(P) /\ Len(P) \in Nat
    BY <1>1, <1>3, LoopFields
  <2>2. b.tail \in ends /\ \A n \in line + 1..b.tail - 1 : n \notin ends
    BY <1>1, <1>2, <1>3, <2>1, ScanOfFor
  <2>3. \/ \E m \in ends : /\ Found(m, ends) /\ GoOn(m + 1)
                           /\ value' = [value EXCEPT ![Stmt.var] = Stmt.from]
                           /\ UNCHANGED <<loops, data, out>>
        \/ ends = {}
    BY <1>6 DEF cmdfor
  <2> HIDE DEF ends
  <2>4. /\ GoOn(b.tail + 1) /\ value' = [value EXCEPT ![Stmt.var] = Stmt.from]
        /\ UNCHANGED loops
    <3>1. ends \in SUBSET (line + 1..Len(P))
      BY DEF ends
    <3> QED
      BY <1>1, <2>1, <2>2, <2>3, <3>1, FoundIsFirst
  <2>5. Again(b, ~Beyond(Stmt.from, Stmt.to, Stmt.step))
    BY <1>6, <2>4 DEF Again
  <2>6. LoopStep
    BY <1>1, <1>2, <1>3, <2>4, <2>5, CallsStay DEF LoopStep
  <2>7. status' = "running" => Stacked'
    <3>1. SUFFICES ASSUME status' = "running" PROVE Stacked'
      OBVIOUS
    <3>2. line' = b.tail + 1
      BY <2>4, <3>1 DEF GoOn
    <3>3. Around(P, line') = Around(P, line)
      BY <1>1, <1>3, <3>2, AroundTheLoop
    <3> QED
      BY <2>4, <3>3, StackStays
  <2> QED
    BY <1>2, <1>4, <2>6, <2>7 DEF Orderly, NestedStep
<1> QED
  BY <1>5, <1>6

LEMMA NextNested ==
  ASSUME Nesting, cmdnext
  PROVE  Orderly
<1> DEFINE P == linebase
           own == {i \in Open("for") : Stmt.var \in {NoVar, loops[i].var}}
<1>1. /\ P \in Seq(Statements) /\ IsNested(P) /\ line \in 1..Len(P) /\ Stmt = P[line]
      /\ Len(loops) \in Nat
  BY NestingFacts
<1>2. Stmt.op = "NEXT" /\ Stmt.op \in Closes
  BY DEF cmdnext, Executing, Closes
<1>3. PICK b \in LoopsOf(P) : line = b.tail
  BY <1>1, <1>2 DEF IsNested
<1>4. PICK p \in 1..Len(loops) :
        /\ RecordAt(P, loops, p, Len(loops) + 1, b, Around(P, line))
        /\ \A n \in 1..Len(loops) : Matching(n, own) <=> n = p
  BY <1>2, <1>3, EndFindsRecord
<1> HIDE DEF own
<1> DEFINE r == loops[p]
           s == P[b.head]
           v == value[s.var] + s.step
           again == (s.step < 0 \/ v <= s.to) /\ (s.step > 0 \/ v >= s.to)
<1>5. s.op = "FOR" /\ r.var = s.var /\ r.max = s.to /\ r.step = s.step /\ r.home = b.head + 1
  <2>1. s.op = "FOR"
    BY <1>1, <1>2, <1>3, LoopEnds
  <2>2. r.kind # "gosub" /\ HeadOf(r) = b.head
    BY <1>4 DEF RecordAt
  <2> QED
    BY <2>1, <2>2, RecordOfLoop
<1>6. /\ value' = [value EXCEPT ![s.var] = v]
      /\ IF again THEN loops' = Upto(p) /\ GoOn(b.head + 1)
                  ELSE loops' = Upto(p - 1) /\ GoOn(b.tail + 1)
  <2>1. PICK n \in 1..Len(loops) :
          /\ Matching(n, own)
          /\ value' = [value EXCEPT ![loops[n].var] = value[loops[n].var] + loops[n].step]
          /\ IF /\ loops[n].step < 0 \/ value[loops[n].var] + loops[n].step <= loops[n].max
                /\ loops[n].step > 0 \/ value[loops[n].var] + loops[n].step >= loops[n].max
               THEN loops' = Upto(n) /\ GoOn(loops[n].home)
               ELSE loops' = Upto(n - 1) /\ GoOn(line + 1)
    BY <1>4 DEF cmdnext, own
  <2>2. n = p
    BY <1>4, <2>1
  <2> QED
    BY <1>3, <1>5, <2>1, <2>2
<1>7. PICK k \in {p - 1, p} : UpTo(k) /\ (k = p <=> again)
  <2>1. p \in 0..Len(loops) /\ p - 1 \in 0..Len(loops) /\ p - 1 # p
    BY <1>1
  <2> HIDE DEF again
  <2> QED
    BY <1>6, <2>1, UptoKeeps
<1> HIDE DEF again
<1>8. UNCHANGED Calls /\ (status' = "running" => Stacked')
  <2>1. status' = "running" => line' = (IF k = p THEN b.head + 1 ELSE b.tail + 1)
    BY <1>6, <1>7 DEF GoOn
  <2>2. UpTo(k)
    BY <1>7
  <2> QED
    BY <1>3, <1>4, <2>1, <2>2, LoopEnded
<1>9. LoopStep
  <2>1. Again(b, again)
    BY <1>6 DEF Again
  <2> QED
    BY <1>3, <1>5, <1>6, <1>8, <2>1 DEF LoopStep, again
<1> QED
  BY <1>2, <1>8, <1>9 DEF Orderly, NestedStep, IsCall, Closes

LEMMA WhileNested ==
  ASSUME Nesting, cmdwhile
  PROVE  Orderly
<1> DEFINE P == linebase
<1>1. /\ BasicTypeOK /\ P \in Seq(Statements) /\ IsNested(P) /\ status = "running"
      /\ line \in 1..Len(P) /\ Len(P) \in Nat /\ Stmt = P[line]
  BY NestingFacts
<1>2. Stmt.op = "WHILE" /\ Stmt.op \in Begins
  BY DEF cmdwhile, Executing, Begins
<1>3. PICK b \in LoopsOf(P) : line = b.head
  BY <1>1, <1>2 DEF IsNested
<1>4. ~IsCall(Stmt) /\ Stmt.op # "RETURN"
  BY <1>2 DEF IsCall
<1>5. CASE Holds(Stmt.cond)
  <2> DEFINE r == [kind |-> "while", home |-> line]
  <2>1. UNCHANGED value /\ loops' = Append(loops, r) /\ GoOn(line + 1)
    BY <1>5 DEF cmdwhile
  <2>2. r \in LoopRecords /\ r.kind # "gosub" /\ HeadOf(r) = b.head
    BY <1>1, <1>3 DEF LoopRecords, HeadOf
  <2>3. Again(b, Holds(Stmt.cond))
    BY <1>3, <1>5, <2>1 DEF Again
  <2> HIDE DEF r
  <2>4. LoopStep
    BY <1>1, <1>2, <1>3, <2>1, <2>2, <2>3, CallsEntered DEF LoopStep
  <2>5. status' = "running" => line' = b.head + 1
    BY <1>3, <2>1 DEF GoOn
  <2>6. status' = "running" => Stacked'
    BY <1>3, <2>1, <2>2, <2>5, StackEntered
  <2> QED
    BY <1>2, <1>4, <2>4, <2>6 DEF Orderly, NestedStep
<1>6. CASE ~Holds(Stmt.cond)
  <2> DEFINE ends == {m \in line + 1..Len(P) : EndOfWhile(m)}
  <2>1. b.tail \in line + 1..Len(P) /\ Len(P) \in Nat
    BY <1>1, <1>3, LoopFields
  <2>2. b.tail \in ends /\ \A n \in line + 1..b.tail - 1 : n \notin ends
    BY <1>1, <1>2, <1>3, <2>1, ScanOfWhile
  <2>3. \/ \E m \in ends : Found(m, ends) /\ GoOn(m + 1) /\ UNCHANGED <<value, loops, data, out>>
        \/ ends = {}
    BY <1>6 DEF cmdwhile
  <2> HIDE DEF ends
  <2>4. GoOn(b.tail + 1) /\ UNCHANGED <<value, loops>>
    <3>1. ends \in SUBSET (line + 1..Len(P))
      BY DEF ends
    <3> QED
      BY <1>1, <2>1, <2>2, <2>3, <3>1, FoundIsFirst
  <2>5. Again(b, Holds(Stmt.cond))
    BY <1>6, <2>4 DEF Again
  <2>6. LoopStep
    BY <1>1, <1>2, <1>3, <2>4, <2>5, CallsStay DEF LoopStep
  <2>7. status' = "running" => Stacked'
    <3>1. SUFFICES ASSUME status' = "running" PROVE Stacked'
      OBVIOUS
    <3>2. line' = b.tail + 1
      BY <2>4, <3>1 DEF GoOn
    <3>3. Around(P, line') = Around(P, line)
      BY <1>1, <1>3, <3>2, AroundTheLoop
    <3> QED
      BY <2>4, <3>3, StackStays
  <2> QED
    BY <1>2, <1>4, <2>6, <2>7 DEF Orderly, NestedStep
<1> QED
  BY <1>5, <1>6

LEMMA WendNested ==
  ASSUME Nesting, cmdwend
  PROVE  Orderly
<1> DEFINE P == linebase
<1>1. /\ P \in Seq(Statements) /\ IsNested(P) /\ line \in 1..Len(P) /\ Stmt = P[line]
      /\ Len(loops) \in Nat
  BY NestingFacts
<1>2. Stmt.op = "WEND" /\ Stmt.op \in Closes
  BY DEF cmdwend, Executing, Closes
<1>3. PICK b \in LoopsOf(P) : line = b.tail
  BY <1>1, <1>2 DEF IsNested
<1>4. PICK p \in 1..Len(loops) :
        /\ RecordAt(P, loops, p, Len(loops) + 1, b, Around(P, line))
        /\ \A n \in 1..Len(loops) : Matching(n, Open("while")) <=> n = p
  BY <1>2, <1>3, EndFindsRecord
<1> DEFINE s == P[b.head]
           again == (Stmt.cond = NoCond \/ ~Holds(Stmt.cond)) /\ Holds(s.cond)
<1>5. s.op = "WHILE" /\ loops[p].home = b.head
  <2>1. s.op = "WHILE"
    BY <1>1, <1>2, <1>3, LoopEnds DEF Takes
  <2>2. loops[p].kind # "gosub" /\ HeadOf(loops[p]) = b.head
    BY <1>4 DEF RecordAt
  <2> QED
    BY <2>1, <2>2, RecordOfLoop
<1>6. /\ UNCHANGED value
      /\ IF again THEN loops' = Upto(p) /\ GoOn(b.head + 1)
                  ELSE loops' = Upto(p - 1) /\ GoOn(b.tail + 1)
  <2>1. PICK n \in 1..Len(loops) :
          /\ Matching(n, Open("while"))
          /\ IF (Stmt.cond = NoCond \/ ~Holds(Stmt.cond)) /\ Holds(linebase[loops[n].home].cond)
               THEN loops' = Upto(n) /\ GoOn(loops[n].home + 1)
               ELSE loops' = Upto(n - 1) /\ GoOn(line + 1)
          /\ UNCHANGED value
    BY <1>4 DEF cmdwend
  <2>2. n = p
    BY <1>4, <2>1
  <2> QED
    BY <1>3, <1>5, <2>1, <2>2
<1>7. PICK k \in {p - 1, p} : UpTo(k) /\ (k = p <=> again)
  <2>1. p \in 0..Len(loops) /\ p - 1 \in 0..Len(loops) /\ p - 1 # p
    BY <1>1
  <2> HIDE DEF again
  <2> QED
    BY <1>6, <2>1, UptoKeeps
<1> HIDE DEF again
<1>8. UNCHANGED Calls /\ (status' = "running" => Stacked')
  <2>1. status' = "running" => line' = (IF k = p THEN b.head + 1 ELSE b.tail + 1)
    BY <1>6, <1>7 DEF GoOn
  <2>2. UpTo(k)
    BY <1>7
  <2> QED
    BY <1>3, <1>4, <2>1, <2>2, LoopEnded
<1>9. LoopStep
  <2>1. Again(b, again)
    BY <1>6 DEF Again
  <2>2. Stmt = P[b.tail]
    BY <1>1, <1>3
  <2> QED
    BY <1>3, <1>5, <1>6, <1>8, <2>1, <2>2 DEF LoopStep, again
<1> QED
  BY <1>2, <1>8, <1>9 DEF Orderly, NestedStep, IsCall, Closes

\* A statement that is no loop and no call goes on to the next line or jumps.
LEMMA JumpNested ==
  ASSUME Nesting, UNCHANGED loops, Stmt.op \notin Begins \cup Closes, ~IsCall(Stmt),
         GoOn(line + 1) \/ status' # "running" \/ \E t \in Targets(Stmt) : GoTo(t)
  PROVE  /\ status' = "running" => Stacked'
         /\ Stmt.op # "RETURN" => Orderly
<1> DEFINE P == linebase
<1>1. /\ P \in Seq(Statements) /\ IsNested(P) /\ line \in 1..Len(P) /\ Stmt = P[line]
  BY NestingFacts
<1>2. ASSUME status' = "running", GoOn(line + 1) PROVE Stacked'
  <2>1. line' = line + 1
    BY <1>2 DEF GoOn
  <2>2. Around(P, line') = Around(P, line)
    BY <1>1, <2>1, AroundElsewhere
  <2> QED
    BY <2>2, StackStays
<1>3. ASSUME status' = "running", NEW t \in Targets(Stmt), GoTo(t) PROVE Stacked'
  <2>1. line' = t /\ t \in 1..Len(P)
    BY <1>3 DEF GoTo
  <2>2. StaysWithin(P, line, t)
    BY <1>1, <2>1 DEF IsNested
  <2> QED
    BY <2>1, <2>2, StackStays DEF StaysWithin
<1>4. status' = "running" => Stacked'
  BY <1>2, <1>3
<1> QED
  BY <1>4, CallsStay DEF Orderly, NestedStep

LEMMA GosubNested ==
  ASSUME Nesting, cmdgosub
  PROVE  Orderly
<1>1. /\ IsNested(linebase) /\ line \in 1..Len(linebase) /\ Stmt = linebase[line]
  BY NestingFacts
<1>2. Stmt.op = "GOSUB" /\ loops' = Called /\ GoTo(Stmt.line)
  BY DEF cmdgosub, Executing
<1>3. IsCall(Stmt) /\ Stmt.line \in Targets(Stmt)
  BY <1>2 DEF IsCall, Targets
<1>4. ASSUME status' = "running" PROVE Stacked'
  <2>1. line' = Stmt.line /\ Stmt.line \in 1..Len(linebase)
    BY <1>2, <1>4 DEF GoTo
  <2>2. Around(linebase, line') = {}
    BY <1>1, <1>3, <2>1 DEF IsNested
  <2> QED
    BY <1>2, <2>2, StackCalled
<1> QED
  BY <1>2, <1>3, <1>4, CallsCalled DEF Orderly, NestedStep, Begins, Closes

LEMMA OnNested ==
  ASSUME Nesting, cmdon
  PROVE  Orderly
<1>1. /\ linebase \in Seq(Statements) /\ IsNested(linebase) /\ line \in 1..Len(linebase)
      /\ Stmt = linebase[line] /\ Stmt \in Statements
  BY NestingFacts
<1>2. /\ Stmt.op = "ON" /\ Stmt.op \notin Begins \cup Closes
      /\ loops' = IF Stmt.gosub THEN Called ELSE loops
  BY DEF cmdon, Executing, Begins, Closes
<1>3. GoOn(line + 1) \/ \E t \in Targets(Stmt) : GoTo(t)
  BY <1>2 DEF cmdon, Targets
<1>4. CASE ~Stmt.gosub
  BY <1>2, <1>3, <1>4, JumpNested DEF IsCall
<1>5. CASE Stmt.gosub
  <2>1. IsCall(Stmt) /\ loops' = Called
    BY <1>2, <1>5 DEF IsCall
  <2>2. Around(linebase, line) = {}
    BY <1>1, <1>2, <1>5 DEF IsNested
  <2>3. ASSUME status' = "running", GoOn(line + 1) PROVE Around(linebase, line') = {}
    <3>1. line' = line + 1
      BY <2>3 DEF GoOn
    <3> QED
      BY <1>1, <1>2, <2>2, <3>1, AroundElsewhere
  <2>4. ASSUME status' = "running", NEW t \in Targets(Stmt), GoTo(t)
        PROVE  Around(linebase, line') = {}
    <3>1. line' = t /\ t \in 1..Len(linebase)
      BY <2>4 DEF GoTo
    <3> QED
      BY <1>1, <2>1, <3>1 DEF IsNested
  <2>5. status' = "running" => Stacked'
    BY <1>3, <2>1, <2>3, <2>4, StackCalled
  <2> QED
    BY <1>2, <2>1, <2>5, CallsCalled DEF Orderly, NestedStep
<1> QED
  BY <1>4, <1>5

\* Of some positions one is the last.
LEMMA LastPosition ==
  ASSUME NEW n \in Nat, NEW S \in SUBSET (1..n), S # {}
  PROVE  \E x \in S : \A y \in S : y <= x
<1> DEFINE T == {k \in Nat : n - k \in S}
<1>1. T \subseteq Nat /\ T # {}
  <2>1. PICK x \in S : x \in 1..n
    OBVIOUS
  <2>2. n - x \in Nat /\ n - (n - x) = x
    BY <2>1
  <2> QED
    BY <2>1, <2>2
<1>2. PICK k \in T : \A j \in T : ~(<<j, k>> \in OpToRel(<, Nat))
  <2> HIDE DEF T
  <2> QED
    BY <1>1, NatLessThanWellFounded, WFMin
<1>3. \A j \in T : ~(j < k)
  BY <1>2 DEF OpToRel
<1>4. \A y \in S : n - y \in T /\ y \in Int
  <2>1. \A y \in S : y \in 1..n /\ n - y \in Nat /\ n - (n - y) = y
    OBVIOUS
  <2> QED
    BY <2>1
<1>5. k \in Nat /\ n - k \in S
  BY <1>2
<1>6. \A y \in S : y <= n - k
  <2> HIDE DEF T
  <2> TAKE y \in S
  <2>1. ~(n - y < k) /\ y \in Int
    BY <1>3, <1>4
  <2> QED
    BY <1>5, <2>1
<1> QED
  BY <1>5, <1>6

LEMMA ReturnNested ==
  ASSUME Nesting, cmdreturn
  PROVE  Orderly
<1> DEFINE P == linebase
<1>1. /\ P \in Seq(Statements) /\ IsNested(P) /\ Len(loops) \in Nat /\ Len(P) \in Nat
      /\ \A i \in 1..Len(loops) : loops[i] \in LoopRecords /\ FitsItsLoop(loops[i])
  BY NestingFacts
<1>2. /\ Stmt.op = "RETURN" /\ ~IsCall(Stmt) /\ Stmt.op \notin Begins \cup Closes
  BY DEF cmdreturn, Executing, IsCall, Begins, Closes
<1>3. DOMAIN Calls = Open("gosub") /\ \A p \in Open("gosub") : Calls[p] = loops[p].home
  BY DEF Calls
<1>4. ASSUME NEW n \in 1..Len(loops), Matching(n, Open("gosub")),
             loops' = Upto(n - 1), GoOn(loops[n].home + 1)
      PROVE  Orderly
  <2>1. /\ n \in Open("gosub") /\ loops[n].kind = "gosub"
        /\ \A m \in n + 1..Len(loops) : loops[m].kind # "gosub"
    BY <1>4 DEF Matching, Open
  <2>2. n - 1 \in 0..Len(loops) /\ n \in Nat /\ n - 1 + 1 = n
    BY <1>1
  <2>3. UpTo(n - 1)
    BY <1>4, <2>2, UptoKeeps
  <2>4. Open("gosub")' = Open("gosub") \ {n} /\ \A q \in Open("gosub") : q <= n
    <3>1. Open("gosub")' = {q \in 1..n - 1 : loops[q].kind = "gosub"}
      BY <2>3 DEF Open, UpTo
    <3>2. \A q \in Open("gosub") : q <= n
      BY <1>1, <2>1 DEF Open
    <3>3. \A q \in Open("gosub") : q # n => q \in 1..n - 1
      BY <1>1, <3>2 DEF Open
    <3>4. \A q \in 1..n - 1 : q \in 1..Len(loops) /\ q # n
      BY <1>1
    <3>5. \A q : q \in Open("gosub")' <=> q \in Open("gosub") /\ q # n
      BY <3>1, <3>3, <3>4 DEF Open
    <3> QED
      BY <3>2, <3>5
  <2>5. Calls' = [q \in DOMAIN Calls \ {n} |-> Calls[q]]
    <3>1. Calls' = [q \in Open("gosub")' |-> loops'[q].home]
      BY DEF Calls
    <3>2. \A q \in Open("gosub") \ {n} : q \in 1..n - 1
      BY <1>1, <2>4 DEF Open
    <3>3. \A q \in Open("gosub") \ {n} : loops'[q] = loops[q]
      BY <2>3, <3>2 DEF UpTo
    <3> QED
      BY <1>3, <2>4, <3>1, <3>3
  <2>6. ReturnsFromCall
    <3>1. n \in DOMAIN Calls /\ Calls[n] = loops[n].home
      BY <1>3, <2>1
    <3> QED
      BY <1>3, <1>4, <2>4, <2>5, <3>1 DEF ReturnsFromCall
  <2>7. ASSUME status' = "running" PROVE Stacked'
    <3>1. line' = loops[n].home + 1
      BY <1>4, <2>7 DEF GoOn
    <3>2. loops[n].home \in 1..Len(P) /\ P[loops[n].home].op \notin Begins \cup Closes
      BY <1>1, <2>1 DEF FitsItsLoop, Begins, Closes
    <3>3. Around(P, line') = Around(P, loops[n].home)
      BY <1>1, <3>1, <3>2, AroundElsewhere
    <3>4. Stacks(P, loops, n, Around(P, line'))
      BY <2>1, <3>3 DEF Nesting, Stacked
    <3> QED
      BY <2>2, <2>3, <3>4, StackCut
  <2> QED
    BY <1>2, <2>6, <2>7 DEF Orderly, NestedStep
<1>5. ASSUME \A n \in 1..Len(loops) : ~Matching(n, Open("gosub")), Fail
      PROVE  Orderly
  <2>1. Open("gosub") = {}
    <3>1. SUFFICES ASSUME NEW i \in Open("gosub") PROVE FALSE
      OBVIOUS
    <3>2. Open("gosub") \in SUBSET (1..Len(loops))
      BY DEF Open
    <3>3. PICK n \in Open("gosub") : \A m \in Open("gosub") : m <= n
      BY <1>1, <3>2, LastPosition
    <3>4. n \in 1..Len(loops) /\ \A m \in n + 1..Len(loops) : m \notin Open("gosub")
      BY <1>1, <3>3 DEF Open
    <3>5. Matching(n, Open("gosub"))
      BY <1>1, <3>3, <3>4 DEF Matching, Open
    <3> QED
      BY <1>5, <3>4, <3>5
  <2>2. status' = "error"
    BY <1>5 DEF Fail
  <2> QED
    BY <1>2, <1>3, <2>1, <2>2 DEF Orderly, NestedStep, ReturnsFromCall
<1> QED
  BY <1>4, <1>5 DEF cmdreturn, AfterReturn

\* Statements that are neither loop nor call.
LEMMA OthersNested ==
  ASSUME Nesting,
         cmdif \/ cmdgoto \/ cmdend \/ cmdread \/ cmddata \/ cmdrestore \/ cmdlet \/ cmdpunch
  PROVE  Orderly
<1>1. /\ Stmt.op \in {"IF", "GOTO", "END", "READ", "DATA", "RESTORE", "LET", "PUNCH"}
      /\ UNCHANGED loops
  BY DEF cmdif, cmdgoto, cmdend, cmdread, cmddata, cmdrestore, cmdlet, cmdpunch, Executing, Fail
<1>2. Stmt.op \notin Begins \cup Closes /\ ~IsCall(Stmt) /\ Stmt.op # "RETURN"
  BY <1>1 DEF Begins, Closes, IsCall
<1>3. GoOn(line + 1) \/ status' # "running" \/ \E t \in Targets(Stmt) : GoTo(t)
  <2>1. CASE cmdif \/ cmdgoto
    BY <2>1 DEF cmdif, cmdgoto, Targets, Executing
  <2>2. CASE cmdend \/ cmdread \/ cmddata
    BY <2>2 DEF cmdend, cmdread, cmddata, Fail
  <2>3. CASE cmdrestore \/ cmdlet \/ cmdpunch
    BY <2>3 DEF cmdrestore, cmdlet, cmdpunch, Fail
  <2> QED
    BY <2>1, <2>2, <2>3
<1> QED
  BY <1>1, <1>2, <1>3, JumpNested

\* Every statement of a nested program.
LEMMA StatementNested ==
  ASSUME Nesting
  PROVE  Orderly
<1>1. Statement
  BY DEF Nesting
<1> QED
  BY <1>1, ForNested, NextNested, WhileNested, WendNested, GosubNested, OnNested,
     ReturnNested, OthersNested DEF Statement

NestedInv == BasicInv /\ (status = "running" /\ linebase \in NestedPrograms => Stacked)

LEMMA StatementRunning ==
  ASSUME Statement
  PROVE  status = "running" /\ UNCHANGED linebase
  BY DEF Statement, Executing, cmdfor, cmdnext, cmdwhile, cmdwend, cmdif, cmdgoto, cmdgosub,
         cmdon, cmdreturn, cmdend, cmdread, cmddata, cmdrestore, cmdlet, cmdpunch

\* The first line is in no loop.
LEMMA NestedRunBegins ==
  ASSUME BasicInv, cmdrun
  PROVE  Stacked'
<1>1. line' = 1 /\ loops' = <<>> /\ linebase' = linebase /\ linebase \in Seq(Statements)
  BY DEF cmdrun, BasicInv, BasicTypeOK
<1>2. Around(linebase, 1) = {}
  BY <1>1, LoopFields DEF Around
<1>3. Len(loops') = 0
  BY <1>1
<1> QED
  BY <1>1, <1>2, <1>3 DEF Stacked, Stacks

LEMMA NestedInvNext ==
  ASSUME NestedInv, [BasicNext]_basicVars
  PROVE  NestedInv'
<1>1. BasicInv'
  BY BasicInvKept DEF NestedInv
<1>2. CASE Statement
  <2>1. status = "running" /\ UNCHANGED linebase
    BY <1>2, StatementRunning
  <2>2. NestedPrograms' = NestedPrograms
    BY DEF NestedPrograms
  <2>3. linebase \in NestedPrograms => Nesting
    BY <1>2, <2>1 DEF NestedInv, Nesting
  <2> QED
    BY <1>1, <2>1, <2>2, <2>3, StatementNested DEF NestedInv, Orderly
<1>3. CASE cmdrun
  BY <1>1, <1>3, NestedRunBegins DEF NestedInv
<1>4. CASE Cleanup \/ Stop
  BY <1>1, <1>4 DEF NestedInv, Cleanup, Stop
<1>5. CASE UNCHANGED basicVars
  BY <1>1, <1>5 DEF NestedInv, basicVars, Stacked, Stacks, RecordAt, Inner
<1> QED
  BY <1>2, <1>3, <1>4, <1>5 DEF BasicNext

\* In a program of nested loops every loop around the line that runs has its record on the
\* stack, above the records of the caller and with no record over it but of loops within
\* that a jump has left, and the records of a caller are those of the loops around its
\* GOSUB: what cmdnext and cmdwend rely on when they drop records until one fits.
THEOREM NestedProgramsKeepTheirStack ==
  BasicSpec => [](status = "running" /\ linebase \in NestedPrograms => Stacked)
<1>1. BasicInit => NestedInv
  BY BasicInitInv DEF NestedInv, BasicInit, NotRunYet
<1>2. NestedInv /\ [BasicNext]_basicVars => NestedInv'
  BY NestedInvNext
<1>3. NestedInv => (status = "running" /\ linebase \in NestedPrograms => Stacked)
  BY DEF NestedInv
<1> QED
  BY <1>1, <1>2, <1>3, PTL DEF BasicSpec

\* In a program of nested loops every FOR, NEXT, WHILE, WEND and RETURN goes where the
\* text says: NEXT and WEND find the record of their own loop, the scan of a loop that is
\* not entered its own end, and RETURN the call that is under way.
THEOREM NestedRunsByBlocks == BasicSpec => RunsByBlocks
<1>1. BasicInit => NestedInv
  BY BasicInitInv DEF NestedInv, BasicInit, NotRunYet
<1>2. NestedInv /\ [BasicNext]_basicVars => NestedInv'
  BY NestedInvNext
<1>3. NestedInv /\ [BasicNext]_basicVars =>
        [status = "running" /\ status' # "idle" /\ linebase \in NestedPrograms
           => NestedStep]_basicVars
  <2> SUFFICES ASSUME NestedInv, BasicNext, status = "running", status' # "idle",
                      linebase \in NestedPrograms
               PROVE  NestedStep
    OBVIOUS
  <2>1. Statement
    BY DEF BasicNext, cmdrun, Cleanup, Stop
  <2> QED
    BY <2>1, StatementNested DEF NestedInv, Nesting, Orderly
<1> QED
  BY <1>1, <1>2, <1>3, PTL DEF BasicSpec, RunsByBlocks
================================================================================
