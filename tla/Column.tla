--------------------------------- MODULE Column ---------------------------------
(***************************************************************************)
(* What a transport calculation does to a column, in the terms in which    *)
(* its equations are written: a mixing step gives every cell a new water   *)
(* from the waters that it and its neighbours had before the step, all at  *)
(* once.  Nothing is said of the order of the cells or of where results    *)
(* are kept meanwhile; ColumnTransport implements it.                      *)
(***************************************************************************)
EXTENDS ColumnCells

VARIABLES
  column,   \* the column
  running,  \* ADVECTION or TRANSPORT is being calculated
  water,    \* the solution of each cell
  solids    \* the other reactants of each cell

vars == <<column, running, water, solids>>

TypeOK ==
  /\ column \in Columns
  /\ running \in BOOLEAN
  /\ water \in [CellsOf(column) -> Waters \cup {NoWater}]
  /\ solids \in [CellsOf(column) -> Solids]

Init ==
  /\ column \in Columns
  /\ running = FALSE
  /\ water = column.water
  /\ solids = column.solids

\* Boundary solutions that are missing become those of the cells beside them.
Start ==
  /\ ~running /\ running' = TRUE
  /\ \E copied \in SUBSET Boundaries(column) :
       water' = [c \in CellsOf(column) |->
                   IF c \in copied /\ water[c] = NoWater
                     THEN water[IF c = 0 THEN 1 ELSE column.cells] ELSE water[c]]
  /\ UNCHANGED <<column, solids>>

\* All cells of a set are calculated anew, each with the water that came to it.
Calculate(cells, came, kinetic) ==
  /\ running /\ UNCHANGED <<column, running>>
  /\ LET done == [c \in cells |-> Calculated(column, c, came[c], solids[c], kinetic[c])]
     IN /\ water' = [c \in CellsOf(column) |-> IF c \in cells THEN done[c].water ELSE water[c]]
        /\ solids' = [c \in CellsOf(column) |-> IF c \in cells THEN done[c].solids ELSE solids[c]]

Alone(c) ==
  \E kinetic \in BOOLEAN :
    Calculate({c}, [b \in {c} |-> water[b]], [b \in {c} |-> kinetic])

\* Advection moves the water, the solids stay.
Flow ==
  /\ running
  /\ water' = [c \in CellsOf(column) |->
                 IF c \in Mobile(column) THEN water[c - column.flow] ELSE water[c]]
  /\ UNCHANGED <<column, running, solids>>

Disperse ==
  Calculate(Mobile(column),
            [c \in Mobile(column) |->
               IF column.kind = "advection" /\ c \notin column.mixing THEN water[c]
               ELSE Mixed(water[c - 1], water[c], water[c + 1])],
            [c \in Mobile(column) |-> TRUE])

\* A mobile cell exchanges with the stagnant water beside it.  It has had its kinetics.
Exchange(i) ==
  LET first == Immobile(column, i, 1)
      cells == Beside(column, i) \cup (IF first \in Beside(column, i) THEN {i} ELSE {})
      \* the next cell towards the mobile one
      Towards(k) == IF k = first THEN i ELSE k - column.cells
      came == [c \in cells |->
                 IF c = i THEN Exchanged(water[i], water[first])
                 ELSE IF Towards(c) \in CellsOf(column) THEN Exchanged(water[c], water[Towards(c)])
                 ELSE water[c]]
  IN Calculate(cells, came, [c \in cells |-> c # i])

End ==
  /\ running /\ running' = FALSE
  /\ UNCHANGED <<column, water, solids>>

\* After an error the column is what it is.
Fail ==
  /\ running /\ running' = FALSE
  /\ water' \in [CellsOf(column) -> Waters \cup {NoWater}]
  /\ solids' \in [CellsOf(column) -> Solids]
  /\ UNCHANGED column

Next ==
  \/ Start \/ Flow \/ Disperse \/ End \/ Fail
  \/ \E c \in CellsOf(column) : Alone(c)
  \/ \E i \in Mobile(column) : Exchange(i)

Spec == Init /\ [][Next]_vars
===============================================================================
