-------------------------- MODULE ColumnTransportProofs --------------------------
(***************************************************************************)
(* Calculating a column cell by cell, in place and with results that wait  *)
(* in temporary solutions, implements Column, which mixes all cells at     *)
(* once, for columns of any length, with any layers and any calculations.  *)
(* The invariant says of every cell which solution stands in its place and *)
(* where its result is, in terms of the column as the loop has found it.   *)
(* The second part accounts for the time of the kinetics and the REACTION. *)
(***************************************************************************)
EXTENDS ColumnTransport, TLAPS

\* The column before the loop under way.
Water(c) == settled.water[c]

Solid(c) == settled.solids[c]

\* Where the result of a cell of mix_stag() waits.
Slot(c) == IF c = beside THEN -2 ELSE Waiting(c)

Dispersed(c) ==
  IF column.kind = "advection" /\ c \notin column.mixing THEN Water(c)
  ELSE Mixed(Water(c - 1), Water(c), Water(c + 1))

Towards(i, c) ==
  IF c = i THEN Immobile(column, i, 1)
  ELSE IF c = Immobile(column, i, 1) THEN i ELSE c - Last

ExchangedWith(i, c) ==
  IF Towards(i, c) \in Cells THEN Exchanged(Water(c), Water(Towards(i, c))) ELSE Water(c)

\* What comes to a cell, and where its result goes.
CameTo(c) ==
  IF pc = "mix" THEN Dispersed(c) ELSE IF pc = "stagnant" THEN ExchangedWith(beside, c) ELSE Water(c)

Target(c) == IF pc = "mix" THEN -2 ELSE IF pc = "stagnant" THEN Slot(c) ELSE c

\* May a calculation have kinetics (kin = TRUE), or none?
Allowed(c, kin) == (pc = "mix" => kin) /\ (pc = "stagnant" => (kin <=> c # beside))

New(c) == Calculated(column, c, CameTo(c), Solid(c), IF pc = "mix" THEN TRUE ELSE c # beside)

\* The cells that may be calculated now, and those whose results wait.
Doing ==
  IF pc \in {"first", "cells"} THEN todo
  ELSE IF pc = "half" THEN {FirstCell}
  ELSE IF pc = "mix" THEN Lowest(todo)
  ELSE IF pc = "stagnant" THEN left ELSE {}

Done ==
  IF pc = "mix" THEN Mobile(column) \ todo
  ELSE IF pc = "stagnant" /\ beside # 0 THEN Group(beside) \ left ELSE {}

\* A result of a mixing run has moved to its place when the next one is there.
InPlace(c) == pc = "mix" /\ c \in Done /\ c + 1 \in Done

Wet == Mobile(column) \cup Stagnant(column)

WetColumn(u) ==
  [water : [CellsOf(u) -> Waters \cup {NoWater}], solids : [CellsOf(u) -> Solids]]

Typed ==
  /\ column \in Columns
  /\ pc \in {"idle", "first", "step", "half", "flow", "cells", "mix", "stagnant"}
  /\ stage \in {"none", "mixed", "integrated", "done"}
  /\ sol \in [Slots -> Waters \cup {NoWater}]
  /\ solids \in [Cells -> Solids]
  /\ settled \in WetColumn(column)
  /\ \A c \in Wet : sol[c] \in Waters /\ Water(c) \in Waters

Loops ==
  /\ todo \subseteq Cells
  /\ pc \in {"cells", "mix", "stagnant"} => todo \subseteq Mobile(column)
  /\ pc = "mix" => \A c \in todo : \A b \in Mobile(column) : c <= b => b \in todo
  /\ pc \notin {"idle", "stagnant"} => beside = 0
  /\ pc # "idle" /\ beside = 0 => left = {}
  /\ pc = "stagnant" /\ beside # 0 => beside \in Mobile(column) /\ left \subseteq Group(beside)
  /\ pc \in {"half", "flow", "cells", "mix", "stagnant"} =>
       \A c \in Inflow : sol[c] \in Waters /\ Water(c) \in Waters

\* Cells that are not being calculated.
Others == IF stage = "none" THEN Cells ELSE Cells \ {calc.cell}

Contained ==
  /\ \A c \in Others :
       /\ sol[c] = IF InPlace(c) THEN New(c).water ELSE Water(c)
       /\ solids[c] = IF c \in Done THEN New(c).solids ELSE Solid(c)
  /\ \A c \in Done : pc = "stagnant" => sol[Slot(c)] = New(c).water
  /\ \A c \in Done : pc = "mix" /\ c + 1 \notin Done => sol[-2] = New(c).water

First1(c) == Equilibrated(CameTo(c), Solid(c))

Then1(c) == Integrated(First1(c).water, First1(c).solids)

\* The calculation under way.
Calculation ==
  stage # "none" =>
    /\ calc.to = Target(calc.cell)
    /\ calc.cell \in Doing /\ CameTo(calc.cell) \in Waters
    /\ stage \in {"mixed", "integrated"} =>
         /\ calc.cell \in column.kinetics /\ Allowed(calc.cell, TRUE)
         /\ calc.to # calc.cell => sol[SaveOld] = Water(calc.cell)
    /\ stage = "mixed" =>
         /\ sol[calc.cell] = First1(calc.cell).water
         /\ solids[calc.cell] = First1(calc.cell).solids
    /\ stage = "integrated" =>
         /\ sol[calc.cell] = Then1(calc.cell).water
         /\ solids[calc.cell] = Then1(calc.cell).solids
    /\ stage = "done" =>
         /\ \E kin \in BOOLEAN :
              /\ Allowed(calc.cell, kin)
              /\ result = Calculated(column, calc.cell, CameTo(calc.cell), Solid(calc.cell), kin)
         /\ calc.to # calc.cell => sol[calc.cell] = Water(calc.cell)

Kept == Typed /\ Loops /\ Contained /\ Calculation

--------------------------------------------------------------------------------
(* Places, calculations and times *)

LEMMA Product == ASSUME NEW m \in Nat, NEW n \in Nat, NEW k \in Nat, m <= n PROVE m * k <= n * k
OBVIOUS

LEMMA Quotient == ASSUME NEW a \in Nat, NEW b \in Nat, b > 0, a >= b PROVE a \div b > 0
OBVIOUS

LEMMA Multiple == ASSUME NEW a \in Nat, NEW b \in Nat, b > 0 PROVE (a * b) \div b = a
OBVIOUS

LEMMA Numbers ==
  ASSUME column \in Columns
  PROVE  /\ Last \in Nat \ {0} /\ column.layers \in Nat /\ column.mixes \in Nat
         /\ column.flow \in {-1, 0, 1}
         /\ column.kinetics \subseteq Mobile(column) \cup Stagnant(column)
         /\ Mobile(column) = 1..Last /\ Boundaries(column) = {0, Last + 1}
         /\ column.kind \in {"advection", "transport"}
BY ColumnsAssumption DEF IsColumn, Last, Mobile, Boundaries

LEMMA Layers ==
  ASSUME column \in Columns, NEW i \in Mobile(column), NEW n \in 1..column.layers
  PROVE  /\ Immobile(column, i, n) \in Nat
         /\ Immobile(column, i, n) > Last + 1
         /\ Immobile(column, i, n) < -2 - SaveOld
<1> DEFINE k == column.layers
<1> DEFINE l == Last
<1>1. k \in Nat /\ l \in Nat /\ l > 0 /\ i \in 1..l /\ n \in 1..k
  BY Numbers
<1>2. n * l \in Nat /\ k * l \in Nat /\ l * (1 + k) = l + k * l
  BY <1>1
<1>3. 1 * l <= n * l /\ n * l <= k * l
  BY <1>1, Product
<1>4. Immobile(column, i, n) = i + 1 + n * l /\ SaveOld = -2 - (l * (1 + k) + 2)
  BY DEF Immobile, SaveOld, Last
<1> HIDE DEF k, l
<1>5. Immobile(column, i, n) \in Nat /\ Immobile(column, i, n) > l + 1
  BY <1>1, <1>2, <1>3, <1>4
<1>6. Immobile(column, i, n) < -2 - SaveOld
  BY <1>1, <1>2, <1>3, <1>4
<1> QED
  BY <1>5, <1>6 DEF l

LEMMA StagnantCells ==
  ASSUME column \in Columns, NEW c \in Stagnant(column)
  PROVE  c \in Nat /\ c > Last + 1 /\ c < -2 - SaveOld
BY Layers DEF Stagnant

LEMMA Places ==
  ASSUME column \in Columns
  PROVE  /\ Cells \subseteq Nat /\ Cells \subseteq Slots
         /\ Mobile(column) \subseteq Cells /\ Stagnant(column) \subseteq Cells /\ Wet \subseteq Cells
         /\ 0 \in Cells /\ Last + 1 \in Cells
         /\ \A c \in Cells : c \in Wet \/ c = 0 \/ c = Last + 1
         /\ \A c \in Cells : c > Last + 1 => c \in Stagnant(column)
<1>1. \A c \in Stagnant(column) : c \in Nat
  BY StagnantCells
<1> QED
  BY <1>1, Numbers DEF Cells, CellsOf, Slots, Wet

LEMMA Temporary ==
  ASSUME column \in Columns
  PROVE  /\ -2 \in Slots /\ SaveOld \in Slots /\ SaveOld \notin Cells /\ -2 \notin Cells
         /\ SaveOld # -2
         /\ \A c \in Stagnant(column) :
              /\ Waiting(c) \in Slots /\ Waiting(c) \notin Cells
              /\ Waiting(c) # -2 /\ Waiting(c) # SaveOld
         /\ \A b, c \in Stagnant(column) : Waiting(b) = Waiting(c) => b = c
<1> DEFINE save == SaveOld
<1>1. save \in Int /\ save < -2
  BY Numbers DEF SaveOld, Last
<1>2. \A c \in Stagnant(column) : c \in Nat /\ c > 0 /\ c < -2 - save /\ Waiting(c) = -2 - c
  BY StagnantCells, Numbers DEF Waiting
<1>3. /\ -2 \in Slots /\ save \in Slots
      /\ \A c \in Stagnant(column) : Waiting(c) \in Slots
  BY DEF Slots
<1> HIDE DEF save
<1>4. save \notin Cells /\ -2 \notin Cells /\ save # -2
  BY <1>1, Places
<1>5. \A c \in Stagnant(column) : Waiting(c) \notin Cells /\ Waiting(c) # -2 /\ Waiting(c) # save
  BY <1>1, <1>2, Places
<1>6. \A b, c \in Stagnant(column) : Waiting(b) = Waiting(c) => b = c
  BY <1>2
<1> QED
  BY <1>3, <1>4, <1>5, <1>6 DEF save

LEMMA Groups ==
  ASSUME column \in Columns, NEW i \in Mobile(column)
  PROVE  /\ i \in Nat /\ i \notin Stagnant(column)
         /\ Beside(column, i) \subseteq Stagnant(column)
         /\ Group(i) \subseteq Wet /\ Group(i) \subseteq Stagnant(column) \cup {i}
         /\ \A c \in Group(i) : c \in Stagnant(column) <=> c # i
         /\ i \in Group(i) => Immobile(column, i, 1) \in Stagnant(column)
<1>1. Beside(column, i) \subseteq Stagnant(column)
  BY DEF Beside, Stagnant
<1>2. i \in Nat /\ i <= Last
  BY Numbers
<1>3. i \notin Stagnant(column)
  BY <1>2, StagnantCells, Numbers
<1> QED
  BY <1>1, <1>2, <1>3 DEF Group, Wet

LEMMA Neighbours ==
  ASSUME column \in Columns, NEW i \in Mobile(column), NEW c \in Group(i), Towards(i, c) \in Cells
  PROVE  Towards(i, c) \in Wet
<1>1. CASE c = i
  BY <1>1, Groups DEF Towards, Wet
<1>2. CASE c # i /\ c = Immobile(column, i, 1)
  BY <1>2 DEF Towards, Wet
<1>3. CASE c # i /\ c # Immobile(column, i, 1)
  <2>1. PICK n \in 1..column.layers : c = Immobile(column, i, n)
    BY <1>3 DEF Group, Beside
  <2>2. column.layers \in Nat /\ n \in 1..column.layers /\ n # 1
    BY <2>1, <1>3, Numbers
  <2>3. n - 1 \in 1..column.layers
    BY <2>2
  <2>4. Immobile(column, i, n) - Last = Immobile(column, i, n - 1)
    <3> DEFINE l == Last
    <3>1. l \in Nat /\ n \in Nat /\ i \in Nat /\ n * l = (n - 1) * l + l
      BY Numbers, <2>2
    <3>2. Immobile(column, i, n) = i + 1 + n * l /\ Immobile(column, i, n - 1) = i + 1 + (n - 1) * l
      BY DEF Immobile, Last
    <3> HIDE DEF l
    <3>3. n * l \in Nat /\ (n - 1) * l \in Int
      BY <3>1
    <3>4. Immobile(column, i, n) - l = Immobile(column, i, n - 1)
      BY <3>1, <3>2, <3>3
    <3> QED
      BY <3>4 DEF l
  <2>5. Towards(i, c) > Last + 1
    BY <1>3, <2>1, <2>3, <2>4, Layers DEF Towards
  <2> QED
    BY <2>5, Places DEF Wet
<1> QED
  BY <1>1, <1>2, <1>3

LEMMA Calculations ==
  ASSUME NEW w \in Waters, NEW s \in Solids
  PROVE  /\ Equilibrated(w, s) \in [water : Waters, solids : Solids]
         /\ Integrated(w, s) \in [water : Waters, solids : Solids]
BY ColumnsAssumption

LEMMA CalculatedTyped ==
  ASSUME NEW c, NEW w \in Waters, NEW s \in Solids, NEW kin \in BOOLEAN
  PROVE  Calculated(column, c, w, s, kin) \in [water : Waters, solids : Solids]
BY Calculations DEF Calculated

LEMMA KineticTimes ==
  ASSUME column \in Columns
  PROVE  /\ KinTime \in Int /\ KinTime > 0
         /\ column.kind = "transport" => StagnantTime \in Int /\ StagnantTime > 0
<1> DEFINE m == column.mixes
<1> DEFINE s == Shift
<1>1. m \in Nat /\ column.kind \in {"advection", "transport"}
  BY Numbers
<1>2. CASE column.kind = "advection" \/ m = 0
  BY <1>1, <1>2, Quotient DEF Shift, KinTime, StagnantTime
<1>3. CASE column.kind = "transport" /\ m >= 1
  <2>1. s = 2 * m * (m + 1)
    BY <1>3 DEF Shift
  <2>2. StagnantTime = (IF m < 2 THEN s ELSE s \div m)
    BY DEF StagnantTime
  <2>3. KinTime = (IF column.flow # 0 THEN s \div (1 + m) ELSE StagnantTime)
    BY <1>3 DEF KinTime
  <2> HIDE DEF s, m
  <2>4. 1 * (m + 1) <= (2 * m) * (m + 1)
    BY <1>3, <1>1, Product
  <2>5. s \in Nat /\ s >= m + 1 /\ s > 0
    BY <2>1, <2>4, <1>1
  <2>6. s \div (1 + m) > 0 /\ s \div (1 + m) \in Int
    BY <2>5, <1>1, Quotient
  <2>7. s \div m > 0 /\ s \div m \in Int
    BY <2>5, <1>1, <1>3, Quotient
  <2> QED
    BY <2>2, <2>3, <2>5, <2>6, <2>7
<1> QED
  BY <1>1, <1>2, <1>3

--------------------------------------------------------------------------------
(* Calculations keep the invariant *)

\* What the invariant speaks of depends on the place and the column before the loop only.
LEMMA SamePlace ==
  ASSUME UNCHANGED <<column, pc, todo, beside, left, settled>>
  PROVE  /\ Cells' = Cells /\ Slots' = Slots /\ Wet' = Wet /\ Done' = Done /\ Doing' = Doing
         /\ Inflow' = Inflow /\ SaveOld' = SaveOld
         /\ \A c : /\ Water(c)' = Water(c) /\ Solid(c)' = Solid(c)
                   /\ Slot(c)' = Slot(c) /\ Target(c)' = Target(c)
                   /\ CameTo(c)' = CameTo(c) /\ New(c)' = New(c)
                   /\ First1(c)' = First1(c) /\ Then1(c)' = Then1(c)
                   /\ InPlace(c)' = InPlace(c)
         /\ \A c : Allowed(c, TRUE)' = Allowed(c, TRUE)
         /\ \A c : Allowed(c, FALSE)' = Allowed(c, FALSE)
<1>1. Cells' = Cells /\ Slots' = Slots /\ Wet' = Wet /\ Inflow' = Inflow /\ SaveOld' = SaveOld
  BY DEF Cells, Slots, Wet, Inflow, SaveOld, Last
<1>2. Done' = Done
  BY DEF Done, Group
<1>3. Doing' = Doing
  BY DEF Doing, FirstCell, Last
<1>4. \A c : /\ Water(c)' = Water(c) /\ Solid(c)' = Solid(c)
            /\ Slot(c)' = Slot(c) /\ Target(c)' = Target(c)
  BY DEF Water, Solid, Slot, Target
<1>5. \A c : CameTo(c)' = CameTo(c)
  BY DEF CameTo, Dispersed, ExchangedWith, Towards, Water, Cells, Last
<1>6. \A c : New(c)' = New(c)
  BY <1>4, <1>5 DEF New, Calculated
<1>7. \A c : First1(c)' = First1(c) /\ Then1(c)' = Then1(c)
  BY <1>4, <1>5 DEF First1, Then1
<1>8. \A c : InPlace(c)' = InPlace(c)
  BY <1>2 DEF InPlace
<1>9. \A c : Allowed(c, TRUE)' = Allowed(c, TRUE)
  BY DEF Allowed
<1>10. \A c : Allowed(c, FALSE)' = Allowed(c, FALSE)
  BY DEF Allowed
<1> QED
  BY <1>1, <1>2, <1>3, <1>4, <1>5, <1>6, <1>7, <1>8, <1>9, <1>10

LEMMA DoingAreCells ==
  ASSUME Typed, Loops, NEW c \in Doing
  PROVE  c \in Cells /\ (pc # "first" => c \in Wet)
<1>1. CASE pc \in {"first", "cells"}
  BY <1>1 DEF Typed, Loops, Doing, Wet
<1>2. CASE pc = "half"
  BY <1>2, Numbers, Places DEF Typed, Doing, FirstCell, Wet
<1>3. CASE pc = "mix"
  BY <1>3 DEF Loops, Doing, Lowest, Wet
<1>4. CASE pc = "stagnant"
  <2>1. left \subseteq Group(beside) /\ beside \in Mobile(column)
    BY <1>4 DEF Loops, Doing
  <2> QED
    BY <1>4, <2>1, Groups, Places DEF Typed, Doing
<1> QED
  BY <1>1, <1>2, <1>3, <1>4, Places DEF Doing, Typed

\* The waters that come to a cell are all there.
LEMMA WatersDisperse ==
  ASSUME Typed, NEW c \in Mobile(column)
  PROVE  Dispersed(c) \in Waters
<1>1. Water(c) \in Waters
  BY DEF Typed, Wet
<1>2. c - 1 \in Cells /\ c + 1 \in Cells
  BY Numbers, Places DEF Typed
<1>3. Water(c - 1) \in Waters \cup {NoWater} /\ Water(c + 1) \in Waters \cup {NoWater}
  BY <1>2 DEF Typed, WetColumn, Water, Cells
<1> QED
  BY <1>1, <1>3, ColumnsAssumption DEF Dispersed

LEMMA WatersExchange ==
  ASSUME Typed, NEW i \in Mobile(column), NEW c \in Group(i)
  PROVE  ExchangedWith(i, c) \in Waters
<1>1. Water(c) \in Waters
  BY Groups DEF Typed
<1>2. Towards(i, c) \in Cells => Water(Towards(i, c)) \in Waters
  BY Neighbours DEF Typed
<1> QED
  BY <1>1, <1>2, ColumnsAssumption DEF ExchangedWith

LEMMA WatersCome ==
  ASSUME Typed, Loops, NEW c \in Doing, pc = "first" => Water(c) \in Waters
  PROVE  CameTo(c) \in Waters
<1>1. CASE pc = "mix"
  BY <1>1, WatersDisperse DEF Loops, Doing, Lowest, CameTo
<1>2. CASE pc = "stagnant"
  BY <1>2, WatersExchange DEF Loops, Doing, CameTo
<1>3. CASE pc \notin {"mix", "stagnant"}
  BY <1>3, DoingAreCells DEF CameTo, Typed
<1> QED
  BY <1>1, <1>2, <1>3

LEMMA ResultsTyped ==
  ASSUME Typed, Loops, NEW c \in Done
  PROVE  c \in Cells /\ New(c).water \in Waters /\ New(c).solids \in Solids
<1>1. c \in Wet /\ CameTo(c) \in Waters
  <2>1. CASE pc = "mix"
    BY <2>1, WatersDisperse DEF Done, CameTo, Wet
  <2>2. CASE pc = "stagnant"
    BY <2>2, WatersExchange, Groups DEF Loops, Done, CameTo, Typed
  <2> QED
    BY <2>1, <2>2 DEF Done
<1>2. c \in Cells /\ Solid(c) \in Solids
  BY <1>1, Places DEF Typed, WetColumn, Solid, Cells
<1>3. New(c) \in [water : Waters, solids : Solids]
  BY <1>1, <1>2, CalculatedTyped DEF New
<1> QED
  BY <1>2, <1>3

\* Steps that change the cell under way only, and perhaps save_old.
LEMMA OthersKept ==
  ASSUME Typed, Loops, NEW c \in Cells,
         UNCHANGED <<column, pc, place, settled>>,
         stage' \in {"mixed", "integrated", "done"}, calc'.cell = c,
         sol' \in [Slots -> Waters \cup {NoWater}], solids' \in [Cells -> Solids],
         sol'[c] = sol[c] \/ sol'[c] \in Waters,
         \A d \in Slots \ {c, SaveOld} : sol'[d] = sol[d],
         \A d \in Cells \ {c} : solids'[d] = solids[d],
         Contained, Cells \ {c} \subseteq Others
  PROVE  Typed' /\ Loops' /\ Contained'
<1>1. UNCHANGED <<todo, beside, left>>
  BY DEF place
<1>2. column \in Columns
  BY DEF Typed
<1>3. Typed'
  BY <1>1, <1>2, SamePlace, Places, Temporary DEF Typed, WetColumn
<1>4. Inflow \subseteq Cells
  BY <1>2, Numbers, Places DEF Inflow
<1>5. \A b \in Inflow : sol[b] \in Waters => sol'[b] \in Waters
  BY <1>2, <1>4, Temporary, Places
<1>6. Loops'
  BY <1>1, <1>5, SamePlace DEF Loops, Group
<1>7. Others' = Cells \ {c}
  BY SamePlace, <1>1 DEF Others
<1>8. ASSUME NEW d \in Others'
      PROVE  /\ sol'[d] = IF InPlace(d)' THEN New(d)'.water ELSE Water(d)'
             /\ solids'[d] = IF d \in Done' THEN New(d)'.solids ELSE Solid(d)'
  <2>1. d \in Cells /\ d # c /\ d # SaveOld /\ d \in Others /\ d \in Slots
    BY <1>2, <1>7, Temporary, Places
  <2>2. sol'[d] = sol[d] /\ solids'[d] = solids[d]
    BY <2>1
  <2>3. /\ sol[d] = IF InPlace(d) THEN New(d).water ELSE Water(d)
        /\ solids[d] = IF d \in Done THEN New(d).solids ELSE Solid(d)
    BY <2>1 DEF Contained
  <2>4. InPlace(d)' = InPlace(d) /\ New(d)' = New(d) /\ Water(d)' = Water(d)
    BY <1>1, SamePlace
  <2>5. Done' = Done /\ Solid(d)' = Solid(d)
    BY <1>1, SamePlace
  <2> QED
    BY <2>2, <2>3, <2>4, <2>5
<1>9. ASSUME NEW d \in Done', pc' = "stagnant" PROVE sol'[Slot(d)'] = New(d)'.water
  <2>1. d \in Done /\ Slot(d)' = Slot(d) /\ New(d)' = New(d) /\ pc = "stagnant"
    BY <1>1, <1>9, SamePlace
  <2>2. beside \in Mobile(column) /\ d \in Group(beside)
    BY <2>1 DEF Done, Loops
  <2>3. Slot(d) \in Slots \ {c, SaveOld}
    BY <1>2, <2>2, Groups, Temporary, Places DEF Slot
  <2> QED
    BY <2>1, <2>3 DEF Contained
<1>10. ASSUME NEW d \in Done', pc' = "mix", d + 1 \notin Done' PROVE sol'[-2] = New(d)'.water
  <2>1. Done' = Done /\ New(d)' = New(d) /\ pc = "mix"
    BY <1>1, <1>10, SamePlace
  <2>2. -2 \in Slots \ {c, SaveOld}
    BY <1>2, Temporary
  <2> QED
    BY <1>10, <2>1, <2>2 DEF Contained
<1>11. Contained'
  BY <1>8, <1>9, <1>10 DEF Contained
<1> QED
  BY <1>3, <1>6, <1>11

\* The cell a calculation begins with has what the loop has found.
LEMMA NotYetDone ==
  ASSUME Typed, Loops, Contained, stage = "none", NEW c \in Doing
  PROVE  c \in Cells /\ c \notin Done /\ sol[c] = Water(c) /\ solids[c] = Solid(c)
<1>1. c \in Cells /\ c \in Others
  BY DoingAreCells DEF Others
<1>2. c \notin Done
  BY DEF Doing, Done, Lowest
<1> QED
  BY <1>1, <1>2 DEF Contained, InPlace

LEMMA Targets ==
  ASSUME Typed, Loops, NEW c \in Doing
  PROVE  /\ Target(c) \in Slots /\ Target(c) # SaveOld
         /\ Target(c) \in Cells => Target(c) = c
         /\ Target(c) # c <=> pc \in {"mix", "stagnant"}
<1>1. c \in Cells /\ column \in Columns
  BY DoingAreCells DEF Typed
<1>2. CASE pc = "stagnant"
  <2>1. beside \in Mobile(column) /\ c \in Group(beside)
    BY <1>2 DEF Loops, Doing
  <2> QED
    BY <1>1, <1>2, <2>1, Groups, Temporary, Places DEF Target, Slot
<1>3. CASE pc # "stagnant"
  BY <1>1, <1>3, Temporary, Places DEF Target
<1> QED
  BY <1>2, <1>3

LEMMA BeginKept ==
  ASSUME Kept, NEW c \in Doing, CameTo(c) \in Waters, NEW time, NEW fraction,
         Begin(c, CameTo(c), Target(c), time, fraction),
         c \in column.kinetics /\ time > 0 => Allowed(c, TRUE),
         c \notin column.kinetics \/ time = 0 =>
           Allowed(c, FALSE) \/ (c \notin column.kinetics /\ Allowed(c, TRUE))
  PROVE  Kept' /\ UNCHANGED <<column, pc, settled>>
<1>1. Typed /\ Loops /\ Contained
  BY DEF Kept
<1>2. stage = "none" /\ calc' = [cell |-> c, to |-> Target(c)] /\ UNCHANGED <<column, pc, place, settled>>
  BY DEF Begin
<1>3. UNCHANGED <<todo, beside, left>>
  BY <1>2 DEF place
<1>4. c \in Cells /\ sol[c] = Water(c) /\ solids[c] = Solid(c) /\ c \in Slots /\ SaveOld \in Slots /\ c # SaveOld
  BY <1>1, <1>2, NotYetDone, Places, Temporary DEF Typed
<1>5. solids[c] \in Solids
  BY <1>1, <1>4 DEF Typed
<1>6. First1(c) = Equilibrated(CameTo(c), solids[c]) /\ First1(c) \in [water : Waters, solids : Solids]
  BY <1>4, <1>5, Calculations DEF First1
<1>7. Cells \ {c} \subseteq Others
  BY <1>2 DEF Others
<1>8. sol \in [Slots -> Waters \cup {NoWater}] /\ solids \in [Cells -> Solids]
  BY <1>1 DEF Typed
<1>9. calc'.cell = c /\ calc'.to = Target(c)
  BY <1>2
<1>10. CASE /\ c \notin column.kinetics \/ time = 0
            /\ stage' = "done" /\ result' = First1(c)
            /\ UNCHANGED <<sol, solids>>
  <2>1. Typed' /\ Loops' /\ Contained'
    BY <1>1, <1>2, <1>4, <1>7, <1>8, <1>9, <1>10, OthersKept
  <2>2. PICK kin \in BOOLEAN :
          /\ Allowed(c, kin)
          /\ First1(c) = Calculated(column, c, CameTo(c), Solid(c), kin)
    <3>1. CASE Allowed(c, FALSE)
      <4>1. First1(c) = Calculated(column, c, CameTo(c), Solid(c), FALSE)
        BY <1>4, <1>6 DEF Calculated
      <4> QED
        BY <3>1, <4>1
    <3>2. CASE c \notin column.kinetics /\ Allowed(c, TRUE)
      <4>1. First1(c) = Calculated(column, c, CameTo(c), Solid(c), TRUE)
        BY <1>4, <1>6, <3>2 DEF Calculated
      <4> QED
        BY <3>2, <4>1
    <3> QED
      BY <1>10, <3>1, <3>2
  <2>3. Allowed(c, kin)' = Allowed(c, kin)
    BY <1>2, <1>3 DEF Allowed
  <2>4. Calculated(column, c, CameTo(c), Solid(c), kin)' = Calculated(column, c, CameTo(c), Solid(c), kin)
    BY <1>2, <1>3, SamePlace DEF Calculated
  <2>5. /\ c \in Doing' /\ CameTo(c)' \in Waters /\ Target(c)' = Target(c)
        /\ Water(c)' = Water(c)
    BY <1>2, <1>3, SamePlace
  <2>6. Calculation'
    <3>1. \E k \in BOOLEAN :
            Allowed(c, k)' /\ result' = Calculated(column, c, CameTo(c), Solid(c), k)'
      BY <1>10, <2>2, <2>3, <2>4
    <3> QED
      BY <1>4, <1>9, <1>10, <1>2, <2>5, <3>1 DEF Calculation
  <2> QED
    BY <1>2, <2>1, <2>6 DEF Kept
<1>11. CASE /\ c \in column.kinetics /\ time > 0
            /\ stage' = "mixed"
            /\ sol' = [PutAside(c, Target(c)) EXCEPT ![c] = First1(c).water]
            /\ solids' = [solids EXCEPT ![c] = First1(c).solids]
  <2>1. sol' = IF Target(c) = c THEN [sol EXCEPT ![c] = First1(c).water]
               ELSE [[sol EXCEPT ![SaveOld] = sol[c]] EXCEPT ![c] = First1(c).water]
    BY <1>11 DEF PutAside
  <2>2. First1(c).water \in Waters /\ First1(c).solids \in Solids
    BY <1>6
  <2>3. /\ sol' \in [Slots -> Waters \cup {NoWater}] /\ sol'[c] = First1(c).water
        /\ \A d \in Slots \ {c, SaveOld} : sol'[d] = sol[d]
        /\ Target(c) # c => sol'[SaveOld] = sol[c]
    BY <1>4, <1>8, <2>1, <2>2
  <2>4. /\ solids' \in [Cells -> Solids] /\ solids'[c] = First1(c).solids
        /\ \A d \in Cells \ {c} : solids'[d] = solids[d]
    BY <1>4, <1>8, <1>11, <2>2
  <2>5. Typed' /\ Loops' /\ Contained'
    BY <1>1, <1>2, <1>4, <1>7, <1>9, <1>11, <2>2, <2>3, <2>4, OthersKept
  <2>6. /\ c \in Doing' /\ CameTo(c)' \in Waters /\ Target(c)' = Target(c)
        /\ Water(c)' = Water(c) /\ First1(c)' = First1(c)
        /\ Allowed(c, TRUE)' = Allowed(c, TRUE) /\ SaveOld' = SaveOld
    BY <1>2, <1>3, SamePlace
  <2>7. Calculation'
    BY <1>2, <1>4, <1>9, <1>11, <2>3, <2>4, <2>6 DEF Calculation
  <2> QED
    BY <1>2, <2>5, <2>7 DEF Kept
<1> QED
  BY <1>2, <1>6, <1>10, <1>11 DEF Begin

LEMMA IntegrateKept ==
  ASSUME Kept, Integrate
  PROVE  Kept' /\ UNCHANGED <<column, pc, settled>>
<1> PICK c : c = calc.cell
  OBVIOUS
<1> DEFINE done == Integrated(sol[c], solids[c])
<1>1. Typed /\ Loops /\ Contained /\ Calculation
  BY DEF Kept
<1>2. /\ stage = "mixed" /\ stage' = "integrated" /\ calc' = calc
      /\ UNCHANGED <<column, pc, place, settled>>
      /\ sol' = [sol EXCEPT ![c] = done.water] /\ solids' = [solids EXCEPT ![c] = done.solids]
  BY DEF Integrate
<1>3. UNCHANGED <<todo, beside, left>>
  BY <1>2 DEF place
<1>4. /\ c \in Doing /\ CameTo(c) \in Waters /\ calc.to = Target(c)
      /\ c \in column.kinetics /\ Allowed(c, TRUE)
      /\ Target(c) # c => sol[SaveOld] = Water(c)
      /\ sol[c] = First1(c).water /\ solids[c] = First1(c).solids
  BY <1>1, <1>2 DEF Calculation
<1>5. c \in Cells /\ c \in Slots /\ c # SaveOld /\ Solid(c) \in Solids /\ SaveOld \in Slots
  BY <1>1, <1>4, DoingAreCells, Places, Temporary DEF Typed, WetColumn, Solid, Cells
<1>6. First1(c) \in [water : Waters, solids : Solids]
  BY <1>4, <1>5, Calculations DEF First1
<1>7. done = Then1(c) /\ Then1(c) \in [water : Waters, solids : Solids]
  BY <1>4, <1>6, Calculations DEF Then1
<1>8. sol \in [Slots -> Waters \cup {NoWater}] /\ solids \in [Cells -> Solids]
  BY <1>1 DEF Typed
<1> HIDE DEF done
<1>9. Then1(c).water \in Waters /\ Then1(c).solids \in Solids
  BY <1>7
<1>10. /\ sol' \in [Slots -> Waters \cup {NoWater}] /\ sol'[c] = Then1(c).water
       /\ \A d \in Slots \ {c} : sol'[d] = sol[d]
       /\ solids' \in [Cells -> Solids] /\ solids'[c] = Then1(c).solids
       /\ \A d \in Cells \ {c} : solids'[d] = solids[d]
  BY <1>2, <1>5, <1>7, <1>8, <1>9
<1>11. Cells \ {c} \subseteq Others
  BY DEF Others
<1>12. calc.cell = c /\ calc'.cell = c /\ calc'.to = Target(c)
  BY <1>2, <1>4
<1>13. Typed' /\ Loops' /\ Contained'
  BY <1>1, <1>2, <1>5, <1>9, <1>10, <1>11, <1>12, OthersKept
<1>14. /\ c \in Doing' /\ CameTo(c)' \in Waters /\ Target(c)' = Target(c)
       /\ Water(c)' = Water(c) /\ Then1(c)' = Then1(c)
       /\ Allowed(c, TRUE)' = Allowed(c, TRUE) /\ SaveOld' = SaveOld
  BY <1>2, <1>3, <1>4, SamePlace
<1>15. Calculation'
  BY <1>2, <1>4, <1>5, <1>10, <1>12, <1>14 DEF Calculation
<1> QED
  BY <1>2, <1>13, <1>15 DEF Kept

LEMMA LastCalculationKept ==
  ASSUME Kept, LastCalculation
  PROVE  Kept' /\ UNCHANGED <<column, pc, settled>>
<1> PICK c : c = calc.cell
  OBVIOUS
<1>1. Typed /\ Loops /\ Contained /\ Calculation
  BY DEF Kept
<1>2. /\ stage = "integrated" /\ stage' = "done" /\ calc' = calc
      /\ UNCHANGED <<column, pc, place, settled, solids>>
      /\ result' = Equilibrated(sol[c], solids[c])
      /\ sol' = IF calc.to = c THEN sol ELSE [sol EXCEPT ![c] = sol[SaveOld]]
  BY DEF LastCalculation
<1>3. UNCHANGED <<todo, beside, left>>
  BY <1>2 DEF place
<1>4. /\ c \in Doing /\ CameTo(c) \in Waters /\ calc.to = Target(c)
      /\ c \in column.kinetics /\ Allowed(c, TRUE)
      /\ Target(c) # c => sol[SaveOld] = Water(c)
      /\ sol[c] = Then1(c).water /\ solids[c] = Then1(c).solids
  BY <1>1, <1>2 DEF Calculation
<1>5. c \in Cells /\ c \in Slots /\ c # SaveOld /\ SaveOld \in Slots
  BY <1>1, <1>4, DoingAreCells, Places, Temporary DEF Typed
<1>6. result' = Calculated(column, c, CameTo(c), Solid(c), TRUE)
  BY <1>2, <1>4 DEF Calculated, Then1, First1
<1>7. sol \in [Slots -> Waters \cup {NoWater}] /\ solids \in [Cells -> Solids]
  BY <1>1 DEF Typed
<1>8. Target(c) # c => Water(c) \in Waters
  BY <1>1, <1>4, Targets, DoingAreCells DEF Typed
<1>9. /\ sol' \in [Slots -> Waters \cup {NoWater}]
      /\ sol'[c] = sol[c] \/ sol'[c] \in Waters
      /\ Target(c) # c => sol'[c] = Water(c)
      /\ \A d \in Slots \ {c} : sol'[d] = sol[d]
  BY <1>2, <1>4, <1>5, <1>7, <1>8
<1>10. Cells \ {c} \subseteq Others
  BY DEF Others
<1>11. calc.cell = c /\ calc'.cell = c /\ calc'.to = Target(c)
  BY <1>2, <1>4
<1>12. Typed' /\ Loops' /\ Contained'
  BY <1>1, <1>2, <1>5, <1>7, <1>9, <1>10, <1>11, OthersKept
<1>13. /\ c \in Doing' /\ CameTo(c)' \in Waters /\ Target(c)' = Target(c)
       /\ Water(c)' = Water(c) /\ Allowed(c, TRUE)' = Allowed(c, TRUE)
  BY <1>2, <1>3, <1>4, SamePlace
<1>14. Calculated(column, c, CameTo(c), Solid(c), TRUE)' = Calculated(column, c, CameTo(c), Solid(c), TRUE)
  BY <1>2, <1>3, SamePlace DEF Calculated
<1>15. Calculation'
  <2>1. \E kin \in BOOLEAN :
          Allowed(c, kin)' /\ result' = Calculated(column, c, CameTo(c), Solid(c), kin)'
    BY <1>4, <1>6, <1>13, <1>14
  <2> QED
    BY <1>2, <1>4, <1>9, <1>11, <1>13, <2>1 DEF Calculation
<1> QED
  BY <1>2, <1>12, <1>15 DEF Kept

--------------------------------------------------------------------------------
(* A loop that ends does a step of Column *)

LEMMA SameGeometry ==
  /\ Col!CellsOf(column) = Cells
  /\ Col!Mobile(column) = Mobile(column)
  /\ Col!Boundaries(column) = Boundaries(column)
  /\ \A i : Col!Beside(column, i) = Beside(column, i)
  /\ \A i, n : Col!Immobile(column, i, n) = Immobile(column, i, n)
BY DEF Cells, Col!CellsOf, CellsOf, Col!Mobile, Mobile, Col!Boundaries, Boundaries,
       Col!Beside, Beside, Col!Stagnant, Stagnant, Col!Immobile, Immobile

LEMMA SameCalculations ==
  \A c, w, s, kin : Col!Calculated(column, c, w, s, kin) = Calculated(column, c, w, s, kin)
BY DEF Col!Calculated, Calculated

LEMMA AllAtOnce ==
  ASSUME NEW set, NEW came, NEW kin, set \subseteq Cells,
         pc # "idle", pc' # "idle", column' = column, Settle, solids' \in [Cells -> Solids],
         \A d \in set : /\ sol'[d] = Calculated(column, d, came[d], Solid(d), kin[d]).water
                       /\ solids'[d] = Calculated(column, d, came[d], Solid(d), kin[d]).solids,
         \A d \in Cells \ set : sol'[d] = Water(d) /\ solids'[d] = Solid(d)
  PROVE  Col!Calculate(set, came, kin)
<1> DEFINE done == [d \in set |-> Calculated(column, d, came[d], settled.solids[d], kin[d])]
<1>1. settled'.water = [d \in Cells |-> IF d \in set THEN done[d].water ELSE settled.water[d]]
  BY DEF Settle, Contents, Water, Solid
<1>2. settled'.solids = [d \in Cells |-> IF d \in set THEN done[d].solids ELSE settled.solids[d]]
  BY DEF Settle, Contents, Water, Solid
<1> QED
  BY <1>1, <1>2, SameGeometry, SameCalculations DEF Col!Calculate

LEMMA LoopEnded ==
  ASSUME Typed, column' = column,
         pc' \in {"idle", "first", "step", "half", "flow", "cells", "mix", "stagnant"},
         stage' = "none", Done' = {}, Settle,
         sol' \in [Slots -> Waters \cup {NoWater}], solids' \in [Cells -> Solids],
         \A c \in Wet : sol'[c] \in Waters
  PROVE  Typed' /\ Contained' /\ Calculation'
<1>1. Cells' = Cells /\ Slots' = Slots /\ Wet' = Wet /\ column \in Columns
  BY DEF Cells, Slots, Wet, SaveOld, Last, Typed
<1>2. Cells \subseteq Slots /\ Wet \subseteq Cells
  BY <1>1, Places
<1>3. settled' = [water |-> [c \in Cells |-> sol'[c]], solids |-> solids']
  BY DEF Settle, Contents
<1>4. \A c \in Cells : Water(c)' = sol'[c] /\ Solid(c)' = solids'[c]
  BY <1>3 DEF Water, Solid
<1>5. Typed'
  <2>1. settled' \in WetColumn(column)
    BY <1>2, <1>3 DEF WetColumn, Cells
  <2>2. \A c \in Wet : Water(c)' \in Waters
    BY <1>2, <1>4
  <2>3. settled' \in WetColumn(column)'
    BY <2>1 DEF WetColumn
  <2> QED
    BY <1>1, <2>2, <2>3 DEF Typed
<1>6. Contained'
  BY <1>1, <1>4 DEF Contained, Others, InPlace
<1>7. Calculation'
  BY DEF Calculation
<1> QED
  BY <1>5, <1>6, <1>7

LEMMA InflowStays ==
  ASSUME Typed, column' = column, Settle, \A c \in Inflow : sol'[c] \in Waters
  PROVE  \A c \in Inflow' : sol'[c] \in Waters /\ Water(c)' \in Waters
<1>1. Inflow' = Inflow /\ Inflow \subseteq Cells
  BY Numbers, Places DEF Inflow, Last, Typed
<1> QED
  BY <1>1 DEF Settle, Contents, Water

\* The result of a cell goes to its place.
LEMMA SavedAlone ==
  ASSUME Kept, pc \in {"first", "half", "cells"}, Saver(sol), Settle
  PROVE  /\ calc.cell \in Doing /\ calc.cell \in Cells /\ stage' = "none" /\ column' = column
         /\ sol' \in [Slots -> Waters \cup {NoWater}] /\ solids' \in [Cells -> Solids]
         /\ \A c \in Wet : sol'[c] \in Waters
         /\ \A c \in Inflow : sol[c] \in Waters => sol'[c] \in Waters
         /\ pc' # "idle" => Col!Alone(calc.cell)
<1> PICK c : c = calc.cell
  OBVIOUS
<1>1. Typed /\ Loops /\ Contained /\ Calculation
  BY DEF Kept
<1>2. stage = "done" /\ stage' = "none" /\ column' = column
  BY DEF Saver
<1>3. c \in Doing /\ calc.to = c /\ CameTo(c) = Water(c) /\ Water(c) \in Waters
  BY <1>1, <1>2 DEF Calculation, Target, CameTo
<1>4. PICK kin \in BOOLEAN : result = Calculated(column, c, Water(c), Solid(c), kin)
  BY <1>1, <1>2, <1>3 DEF Calculation
<1>5. c \in Cells /\ c \in Slots /\ Wet \subseteq Slots /\ Cells \subseteq Slots
  BY <1>1, <1>3, DoingAreCells, Places DEF Typed
<1>6. Solid(c) \in Solids
  BY <1>1, <1>5 DEF Typed, WetColumn, Solid, Cells
<1>7. result.water \in Waters /\ result.solids \in Solids
  BY <1>3, <1>4, <1>6, CalculatedTyped
<1>8. /\ sol' = [sol EXCEPT ![c] = result.water] /\ solids' = [solids EXCEPT ![c] = result.solids]
      /\ sol \in [Slots -> Waters \cup {NoWater}] /\ solids \in [Cells -> Solids]
  BY <1>1, <1>3 DEF Saver, Typed
<1>9. /\ sol' \in [Slots -> Waters \cup {NoWater}] /\ solids' \in [Cells -> Solids]
      /\ sol'[c] = result.water /\ solids'[c] = result.solids
      /\ \A d \in Slots \ {c} : sol'[d] = sol[d]
      /\ \A d \in Cells \ {c} : solids'[d] = solids[d]
  BY <1>5, <1>7, <1>8
<1>10. \A d \in Wet : sol'[d] \in Waters
  BY <1>1, <1>5, <1>7, <1>9 DEF Typed
<1>11. Inflow \subseteq Slots
  BY <1>1, <1>5, Numbers, Places DEF Inflow, Typed
<1>12. \A d \in Inflow : sol[d] \in Waters => sol'[d] \in Waters
  BY <1>7, <1>9, <1>11
<1>13. ASSUME pc' # "idle" PROVE Col!Alone(c)
  <2>1. \A d \in Cells \ {c} : sol[d] = Water(d) /\ solids[d] = Solid(d)
    BY <1>1 DEF Contained, Others, InPlace, Done
  <2>2. \A d \in Cells \ {c} : sol'[d] = Water(d) /\ solids'[d] = Solid(d)
    BY <1>5, <1>9, <2>1
  <2> DEFINE came == [b \in {c} |-> settled.water[b]]
  <2> DEFINE k == [b \in {c} |-> kin]
  <2>3. came[c] = Water(c) /\ k[c] = kin
    BY DEF Water
  <2> HIDE DEF came, k
  <2>4. \A d \in {c} : /\ sol'[d] = Calculated(column, d, came[d], Solid(d), k[d]).water
                       /\ solids'[d] = Calculated(column, d, came[d], Solid(d), k[d]).solids
    BY <1>4, <1>9, <2>3
  <2>5. Col!Calculate({c}, came, k)
    BY <1>2, <1>5, <1>9, <1>13, <2>2, <2>4, AllAtOnce
  <2> QED
    BY <2>5 DEF Col!Alone, came, k
<1> QED
  BY <1>2, <1>3, <1>5, <1>9, <1>10, <1>12, <1>13

LEMMA FirstDoneKept ==
  ASSUME Kept, FirstDone
  PROVE  Kept' /\ Col!Alone(calc.cell) /\ calc.cell \in Cells
<1>1. pc = "first" /\ pc' \in {"first", "step"} /\ Saver(sol) /\ Settle /\ todo' = todo \ {calc.cell}
      /\ UNCHANGED <<beside, left>>
  BY DEF FirstDone
<1>2. Typed /\ Loops
  BY DEF Kept
<1>3. Done' = {}
  BY <1>1 DEF Done
<1>4. Typed' /\ Contained' /\ Calculation'
  BY <1>1, <1>2, <1>3, SavedAlone, LoopEnded
<1>5. Cells' = Cells
  BY <1>1, SavedAlone DEF Cells
<1>6. Loops'
  BY <1>1, <1>2, <1>5 DEF Loops
<1> QED
  BY <1>1, <1>4, <1>6, SavedAlone DEF Kept

LEMMA HalfDoneKept ==
  ASSUME Kept, HalfDone
  PROVE  Kept' /\ Col!Alone(calc.cell) /\ calc.cell \in Cells
<1>1. pc = "half" /\ pc' = "flow" /\ Saver(sol) /\ Settle /\ UNCHANGED <<todo, beside, left>>
  BY DEF HalfDone, place
<1>2. Typed /\ Loops
  BY DEF Kept
<1>3. Done' = {}
  BY <1>1 DEF Done
<1>4. Typed' /\ Contained' /\ Calculation'
  BY <1>1, <1>2, <1>3, SavedAlone, LoopEnded
<1>5. Cells' = Cells /\ column' = column
  BY <1>1, SavedAlone DEF Cells
<1>6. \A c \in Inflow' : sol'[c] \in Waters /\ Water(c)' \in Waters
  BY <1>1, <1>2, <1>5, SavedAlone, InflowStays DEF Loops
<1>7. Loops'
  BY <1>1, <1>2, <1>5, <1>6 DEF Loops
<1> QED
  BY <1>1, <1>4, <1>7, SavedAlone DEF Kept

LEMMA OneCellDoneKept ==
  ASSUME Kept, OneCellDone
  PROVE  Kept' /\ Col!Alone(calc.cell) /\ calc.cell \in Cells
<1>1. /\ pc = "cells" /\ Saver(sol) /\ Settle /\ todo' = todo \ {calc.cell}
      /\ \/ pc' = "stagnant" /\ beside' = calc.cell /\ left' = Group(calc.cell)
         \/ UNCHANGED <<pc, beside, left>>
  BY DEF OneCellDone
<1>2. Typed /\ Loops
  BY DEF Kept
<1>3. calc.cell \in Mobile(column) /\ column' = column
  BY <1>1, <1>2, SavedAlone DEF Doing, Loops
<1>4. pc' = "stagnant" => left' = Group(beside)' /\ beside' \in Mobile(column)
  BY <1>1, <1>3 DEF Group
<1>5. Done' = {}
  BY <1>1, <1>4 DEF Done
<1>6. pc' \in {"cells", "stagnant"}
  BY <1>1
<1>7. Typed' /\ Contained' /\ Calculation'
  BY <1>1, <1>2, <1>5, <1>6, SavedAlone, LoopEnded
<1>8. Cells' = Cells
  BY <1>3 DEF Cells
<1>9. \A c \in Inflow' : sol'[c] \in Waters /\ Water(c)' \in Waters
  BY <1>1, <1>2, <1>3, SavedAlone, InflowStays DEF Loops
<1>10. beside' \in Mobile(column) => beside' # 0
  BY <1>2, Numbers DEF Typed
<1>11. Loops'
  BY <1>1, <1>2, <1>3, <1>4, <1>6, <1>8, <1>9, <1>10 DEF Loops
<1> QED
  BY <1>1, <1>6, <1>7, <1>11, SavedAlone DEF Kept

--------------------------------------------------------------------------------
(* The steps of a loop *)

LEMMA FirstKept ==
  ASSUME Kept, First
  PROVE  Kept' /\ UNCHANGED <<column, pc, settled>>
<1>1. PICK c \in Lowest(todo) : pc = "first" /\ sol[c] # NoWater /\ Begin(c, sol[c], c, 0, 0)
  BY DEF First
<1>2. Typed /\ Loops /\ Contained /\ stage = "none" /\ c \in Doing
  BY <1>1 DEF Kept, Begin, Doing, Lowest
<1>3. sol[c] = CameTo(c) /\ Target(c) = c /\ sol[c] = Water(c) /\ c \in Cells
  BY <1>1, <1>2, NotYetDone DEF CameTo, Target
<1>4. sol[c] \in Waters
  BY <1>1, <1>2, <1>3, Places DEF Typed
<1>5. Allowed(c, FALSE)
  BY <1>1 DEF Allowed
<1>6. PICK zero : zero = 0
  OBVIOUS
<1>7. Begin(c, CameTo(c), Target(c), zero, zero) /\ ~(zero > 0)
  BY <1>1, <1>3, <1>6
<1> QED
  BY <1>2, <1>3, <1>4, <1>5, <1>7, BeginKept

LEMMA OneCellKept ==
  ASSUME Kept, OneCell
  PROVE  Kept' /\ UNCHANGED <<column, pc, settled>>
<1>1. PICK c \in Lowest(todo) : \E time :
        pc = "cells" /\ Begin(c, sol[c], c, time, Fraction)
  BY DEF OneCell
<1>2. PICK time : Begin(c, sol[c], c, time, Fraction)
  BY <1>1
<1>3. Typed /\ Loops /\ Contained /\ stage = "none" /\ c \in Doing
  BY <1>1, <1>2 DEF Kept, Begin, Doing, Lowest
<1>4. sol[c] = CameTo(c) /\ Target(c) = c /\ CameTo(c) \in Waters
  BY <1>1, <1>3, NotYetDone, WatersCome DEF CameTo, Target
<1>5. Allowed(c, FALSE) /\ Allowed(c, TRUE)
  BY <1>1 DEF Allowed
<1> QED
  BY <1>2, <1>3, <1>4, <1>5, BeginKept

LEMMA DisperseKept ==
  ASSUME Kept, Disperse
  PROVE  Kept' /\ UNCHANGED <<column, pc, settled>>
<1>1. /\ pc = "mix"
      /\ \E c \in Lowest(todo) :
           Begin(c, IF column.kind = "advection" /\ c \notin column.mixing THEN sol[c]
                    ELSE Mixed(sol[c - 1], sol[c], sol[c + 1]), -2, KinTime, Fraction)
  BY DEF Disperse
<1>2. PICK c \in Lowest(todo) :
        Begin(c, IF column.kind = "advection" /\ c \notin column.mixing THEN sol[c]
                 ELSE Mixed(sol[c - 1], sol[c], sol[c + 1]), -2, KinTime, Fraction)
  BY <1>1
<1>3. Typed /\ Loops /\ Contained /\ stage = "none" /\ c \in Doing /\ c \in Mobile(column)
  BY <1>1, <1>2 DEF Kept, Begin, Doing, Lowest, Loops
<1>4. c - 1 \in Cells /\ c + 1 \in Cells /\ c \in Int
  BY <1>3, Numbers, Places DEF Typed
<1>5. c \notin Done /\ c + 1 \notin Done
  <2>1. c \in todo /\ \A b \in Mobile(column) : c <= b => b \in todo
    BY <1>1, <1>2, <1>3 DEF Loops, Lowest
  <2> QED
    BY <1>1, <1>4, <2>1 DEF Done
<1>6. ~InPlace(c - 1) /\ ~InPlace(c) /\ ~InPlace(c + 1)
  <2>1. (c - 1) + 1 = c
    BY <1>4
  <2> QED
    BY <1>5, <2>1 DEF InPlace
<1>7. sol[c] = Water(c) /\ sol[c - 1] = Water(c - 1) /\ sol[c + 1] = Water(c + 1)
  BY <1>3, <1>4, <1>6, NotYetDone DEF Contained, Others
<1>8. /\ CameTo(c) = IF column.kind = "advection" /\ c \notin column.mixing THEN sol[c]
                     ELSE Mixed(sol[c - 1], sol[c], sol[c + 1])
      /\ Target(c) = -2 /\ CameTo(c) \in Waters
  BY <1>1, <1>3, <1>7, WatersCome DEF CameTo, Dispersed, Target
<1>9. Begin(c, CameTo(c), Target(c), KinTime, Fraction)
  BY <1>2, <1>8
<1>10. Allowed(c, TRUE) /\ KinTime # 0
  BY <1>1, <1>3, KineticTimes DEF Allowed, Typed
<1> QED
  BY <1>3, <1>8, <1>9, <1>10, BeginKept

LEMMA StagnantCellKept ==
  ASSUME Kept, StagnantCell
  PROVE  Kept' /\ UNCHANGED <<column, pc, settled>>
<1>1. PICK c \in Lowest(left) :
        /\ pc = "stagnant"
        /\ IF c = beside THEN Begin(c, Came(beside, c), -2, 0, 0)
           ELSE Begin(c, Came(beside, c), Waiting(c), StagnantTime, Fraction)
  BY DEF StagnantCell
<1>2. stage = "none"
  BY <1>1 DEF Begin
<1>3. Typed /\ Loops /\ Contained /\ c \in Doing /\ c \in left
  BY <1>1 DEF Kept, Doing, Lowest
<1>4. beside \in Mobile(column) /\ c \in Group(beside)
  BY <1>1, <1>3 DEF Loops, Doing
<1>5. CameTo(c) = Came(beside, c)
  <2>1. \A d \in Cells : sol[d] = Water(d)
    BY <1>1, <1>2, <1>3 DEF Contained, InPlace, Others
  <2>2. c \in Cells
    BY <1>3, DoingAreCells
  <2> QED
    BY <1>1, <2>1, <2>2 DEF CameTo, ExchangedWith, Towards, Came
<1>6. CameTo(c) \in Waters
  BY <1>1, <1>3, WatersCome
<1>7. CASE c = beside
  <2>1. Target(c) = -2 /\ Allowed(c, FALSE)
    BY <1>1, <1>7 DEF Target, Slot, Allowed
  <2>2. PICK zero : zero = 0
    OBVIOUS
  <2>3. Begin(c, CameTo(c), Target(c), zero, zero) /\ ~(zero > 0)
    BY <1>1, <1>5, <1>7, <2>1, <2>2
  <2> QED
    BY <1>3, <1>6, <2>1, <2>3, BeginKept
<1>8. CASE c # beside
  <2>1. Target(c) = Waiting(c) /\ Allowed(c, TRUE)
    BY <1>1, <1>8 DEF Target, Slot, Allowed
  <2>2. StagnantTime # 0
    <3>1. column.kind = "transport"
      <4>1. c \in Beside(column, beside)
        BY <1>4, <1>8 DEF Group
      <4>2. PICK n \in 1..column.layers : TRUE
        BY <4>1 DEF Beside
      <4>3. column.layers # 0 /\ column \in Columns
        BY <1>3, <4>2, Numbers DEF Typed
      <4> QED
        BY <4>3, ColumnsAssumption DEF IsColumn
    <3> QED
      BY <1>3, <3>1, KineticTimes DEF Typed
  <2> QED
    BY <1>1, <1>3, <1>5, <1>6, <1>8, <2>1, <2>2, BeginKept
<1> QED
  BY <1>7, <1>8

\* While a loop goes on, results mean the same.
LEMMA SameLoop ==
  ASSUME UNCHANGED <<column, pc, beside, settled>>
  PROVE  /\ Cells' = Cells /\ Slots' = Slots /\ Wet' = Wet /\ Inflow' = Inflow
         /\ \A d : Water(d)' = Water(d) /\ Solid(d)' = Solid(d)
         /\ \A d : New(d)' = New(d) /\ Slot(d)' = Slot(d)
<1>1. Cells' = Cells /\ Slots' = Slots /\ Wet' = Wet /\ Inflow' = Inflow
  BY DEF Cells, Slots, Wet, Inflow, SaveOld, Last
<1>2. \A d : Water(d)' = Water(d) /\ Solid(d)' = Solid(d) /\ Slot(d)' = Slot(d)
  BY DEF Water, Solid, Slot
<1>3. \A d : CameTo(d)' = CameTo(d)
  BY DEF CameTo, Dispersed, ExchangedWith, Towards, Water, Cells, Last
<1>4. \A d : New(d)' = New(d)
  BY <1>2, <1>3 DEF New, Calculated
<1> QED
  BY <1>1, <1>2, <1>4

\* Of the mixing run, each result goes to -2, the one before it to its place.
LEMMA DisperseDoneKept ==
  ASSUME Kept, DisperseDone
  PROVE  Kept' /\ UNCHANGED <<column, pc, settled>>
<1> PICK c : c = calc.cell
  OBVIOUS
<1>1. /\ pc = "mix" /\ UNCHANGED <<pc, beside, left, settled, column>> /\ todo' = todo \ {c}
      /\ stage = "done" /\ stage' = "none"
      /\ sol' = [Passed(c) EXCEPT ![calc.to] = result.water]
      /\ solids' = [solids EXCEPT ![c] = result.solids]
  BY DEF DisperseDone, Saver, Unsettled
<1>2. Typed /\ Loops /\ Contained /\ Calculation /\ column \in Columns
  BY DEF Kept, Typed
<1>3. c \in Doing /\ calc.to = -2 /\ CameTo(c) \in Waters /\ c \in Cells
  BY <1>1, <1>2, DoingAreCells DEF Calculation, Target
<1>4. result = New(c)
  <2>1. PICK kin \in BOOLEAN :
          /\ Allowed(c, kin) /\ result = Calculated(column, c, CameTo(c), Solid(c), kin)
    BY <1>1, <1>2 DEF Calculation
  <2>2. kin = TRUE
    BY <1>1, <2>1 DEF Allowed
  <2> QED
    BY <1>1, <2>1, <2>2 DEF New
<1>5. result \in [water : Waters, solids : Solids]
  <2>1. Solid(c) \in Solids
    BY <1>2, <1>3 DEF Typed, WetColumn, Solid, Cells
  <2> QED
    BY <1>1, <1>3, <1>4, <2>1, CalculatedTyped DEF New
<1>6. /\ c \in todo /\ todo \subseteq Mobile(column) /\ c \in Mobile(column)
      /\ \A b \in Mobile(column) : b \in todo <=> c <= b
  <2>1. c \in todo /\ todo \subseteq Mobile(column) /\ \A b \in todo : c <= b
    BY <1>1, <1>2, <1>3 DEF Doing, Lowest, Loops
  <2> QED
    BY <1>1, <1>2, <2>1 DEF Loops
<1>7. Mobile(column) \subseteq Int /\ c \in Int
  BY <1>2, <1>6, Numbers
<1>8. Done = {b \in Mobile(column) : b < c} /\ Done' = {b \in Mobile(column) : b <= c}
  BY <1>1, <1>6, <1>7 DEF Done
<1>9. sol \in [Slots -> Waters \cup {NoWater}] /\ solids \in [Cells -> Solids]
  BY <1>2 DEF Typed
<1>10. /\ -2 \in Slots /\ -2 \notin Cells /\ Cells \subseteq Slots /\ Wet \subseteq Cells
       /\ Cells \subseteq Nat /\ Mobile(column) \subseteq Cells
  BY <1>2, Temporary, Places
<1>11. c > 1 => c - 1 \in Done /\ c - 1 \in Cells /\ c - 1 \in Slots /\ c - 1 \in Wet
  BY <1>2, <1>6, <1>7, <1>8, <1>10, Numbers DEF Wet
<1>12. c > 1 => sol[-2] = New(c - 1).water
  <2>1. (c - 1) + 1 = c /\ c \notin Done
    BY <1>7, <1>8
  <2> QED
    BY <1>1, <1>2, <1>11, <2>1 DEF Contained
<1>13. c > 1 => sol[-2] \in Waters
  BY <1>2, <1>11, <1>12, ResultsTyped
<1>14. Passed(c) \in [Slots -> Waters \cup {NoWater}]
  BY <1>9, <1>11, <1>13 DEF Passed
<1>15. result.water \in Waters /\ result.solids \in Solids
  BY <1>5
<1>16. /\ sol' \in [Slots -> Waters \cup {NoWater}] /\ sol'[-2] = New(c).water
       /\ c > 1 => sol'[c - 1] = New(c - 1).water
       /\ \A d \in Slots : d # -2 /\ ~(c > 1 /\ d = c - 1) => sol'[d] = sol[d]
  <2>1. sol' = [Passed(c) EXCEPT ![-2] = result.water]
    BY <1>1, <1>3
  <2>2. /\ c > 1 => Passed(c)[c - 1] = sol[-2]
        /\ \A d \in Slots : ~(c > 1 /\ d = c - 1) => Passed(c)[d] = sol[d]
    BY <1>9, <1>11 DEF Passed
  <2>3. c > 1 => c - 1 # -2
    BY <1>10, <1>11
  <2> QED
    BY <1>4, <1>10, <1>11, <1>12, <1>14, <1>15, <2>1, <2>2, <2>3
<1>17. /\ solids' \in [Cells -> Solids] /\ solids'[c] = New(c).solids
       /\ \A d \in Cells \ {c} : solids'[d] = solids[d]
  BY <1>1, <1>3, <1>4, <1>9, <1>15
<1>18. /\ Cells' = Cells /\ Slots' = Slots /\ Wet' = Wet /\ Inflow' = Inflow
       /\ \A d : Water(d)' = Water(d) /\ Solid(d)' = Solid(d)
       /\ \A d : New(d)' = New(d)
  BY <1>1, SameLoop
<1>19. Typed'
  <2>1. \A d \in Wet : sol'[d] \in Waters
    <3>1. ASSUME NEW d \in Wet PROVE sol'[d] \in Waters
      <4>1. d \in Slots /\ d # -2 /\ sol[d] \in Waters
        BY <1>2, <1>10 DEF Typed
      <4> QED
        BY <1>12, <1>13, <1>16, <4>1
    <3> QED
      BY <3>1
  <2> QED
    BY <1>1, <1>2, <1>16, <1>17, <1>18, <2>1 DEF Typed, WetColumn
<1>20. Loops'
  <2>1. \A b \in Inflow : sol'[b] \in Waters
    <3>1. \A b \in Inflow : b = 0 \/ b = Last + 1
      BY <1>2, Numbers DEF Inflow
    <3>2. \A b \in Inflow : b \in Slots /\ b # -2 /\ ~(c > 1 /\ b = c - 1)
      BY <1>2, <1>6, <1>10, <3>1, Numbers, Places
    <3> QED
      BY <1>1, <1>2, <1>16, <3>2 DEF Loops
  <2>2. \A d \in todo' : \A b \in Mobile(column) : d <= b => b \in todo'
    BY <1>1, <1>6, <1>7
  <2> QED
    BY <1>1, <1>2, <1>18, <2>1, <2>2 DEF Loops
<1>21. ASSUME NEW d \in Cells
       PROVE  /\ sol'[d] = IF InPlace(d)' THEN New(d).water ELSE Water(d)
              /\ solids'[d] = IF d \in Done' THEN New(d).solids ELSE Solid(d)
  <2>1. d \in Slots /\ d # -2 /\ d \in Nat
    BY <1>10
  <2>2. InPlace(d)' <=> d \in Mobile(column) /\ d < c
    <3>1. InPlace(d)' <=> d \in Done' /\ d + 1 \in Done'
      BY <1>1 DEF InPlace
    <3>2. d \in Mobile(column) /\ d < c => d + 1 \in Mobile(column)
      BY <1>2, <1>6, <1>7, Numbers
    <3> QED
      BY <1>7, <1>8, <2>1, <3>1, <3>2
  <2>3. InPlace(d) <=> d \in Mobile(column) /\ d < c - 1
    <3>1. InPlace(d) <=> d \in Done /\ d + 1 \in Done
      BY <1>1 DEF InPlace
    <3>2. d \in Mobile(column) /\ d < c => d + 1 \in Mobile(column)
      BY <1>2, <1>6, <1>7, Numbers
    <3> QED
      BY <1>7, <1>8, <2>1, <3>1, <3>2
  <2>4. d # c => /\ sol[d] = IF InPlace(d) THEN New(d).water ELSE Water(d)
                 /\ solids[d] = IF d \in Done THEN New(d).solids ELSE Solid(d)
    BY <1>2 DEF Contained, Others
  <2>5. sol[c] = Water(c)
    BY <1>1, <1>2, <1>3, Temporary DEF Calculation
  <2>6. CASE d = c
    <3>1. ~InPlace(d)' /\ d \in Done'
      BY <1>6, <1>7, <1>8, <2>2, <2>6
    <3>2. sol'[d] = sol[d]
      BY <1>7, <1>16, <2>1, <2>6
    <3> QED
      BY <1>17, <2>5, <2>6, <3>1, <3>2
  <2>7. CASE c > 1 /\ d = c - 1
    <3>1. InPlace(d)' /\ d \in Done /\ d \in Done' /\ d # c
      BY <1>7, <1>8, <1>11, <2>2, <2>7
    <3> QED
      BY <1>16, <1>17, <2>4, <2>7, <3>1
  <2>8. CASE d # c /\ ~(c > 1 /\ d = c - 1)
    <3>1. InPlace(d)' <=> InPlace(d)
      BY <1>2, <1>6, <1>7, <2>1, <2>2, <2>3, <2>8, Numbers
    <3>2. d \in Done' <=> d \in Done
      BY <1>7, <1>8, <2>1, <2>8
    <3> QED
      BY <1>16, <1>17, <2>1, <2>4, <2>8, <3>1, <3>2
  <2> QED
    BY <2>6, <2>7, <2>8
<1>22. \A d \in Done' : d + 1 \notin Done' => d = c
  <2>1. \A d \in Done' : d < c => d + 1 \in Mobile(column)
    BY <1>2, <1>6, <1>7, <1>8, Numbers
  <2> QED
    BY <1>7, <1>8, <2>1
<1>23. Contained'
  <2>1. Others' = Cells
    BY <1>1, <1>18 DEF Others
  <2> QED
    BY <1>1, <1>16, <1>18, <1>21, <1>22, <2>1 DEF Contained
<1> QED
  BY <1>1, <1>19, <1>20, <1>23 DEF Kept, Calculation

\* Results of stagnant cells wait in solutions of their own.
LEMMA StagnantCellDoneKept ==
  ASSUME Kept, StagnantCellDone
  PROVE  Kept' /\ UNCHANGED <<column, pc, settled>>
<1> PICK c : c = calc.cell
  OBVIOUS
<1>1. /\ pc = "stagnant" /\ UNCHANGED <<pc, beside, todo, settled, column>> /\ left' = left \ {c}
      /\ stage = "done" /\ stage' = "none"
      /\ sol' = [sol EXCEPT ![calc.to] = result.water]
      /\ solids' = [solids EXCEPT ![c] = result.solids]
  BY DEF StagnantCellDone, Saver, Unsettled
<1>2. Typed /\ Loops /\ Contained /\ Calculation /\ column \in Columns
  BY DEF Kept, Typed
<1>3. c \in Doing /\ calc.to = Slot(c) /\ CameTo(c) \in Waters /\ c \in Cells
  BY <1>1, <1>2, DoingAreCells DEF Calculation, Target
<1>4. beside \in Mobile(column) /\ beside # 0 /\ left \subseteq Group(beside) /\ c \in left
  BY <1>1, <1>2, <1>3, Numbers DEF Loops, Doing
<1>5. result = New(c) /\ result \in [water : Waters, solids : Solids]
  <2>1. PICK kin \in BOOLEAN :
          /\ Allowed(c, kin) /\ result = Calculated(column, c, CameTo(c), Solid(c), kin)
    BY <1>1, <1>2 DEF Calculation
  <2>2. kin = (c # beside)
    BY <1>1, <2>1 DEF Allowed
  <2>3. Solid(c) \in Solids
    BY <1>2, <1>3 DEF Typed, WetColumn, Solid, Cells
  <2> QED
    BY <1>1, <1>3, <2>1, <2>2, <2>3, CalculatedTyped DEF New
<1>6. Done = Group(beside) \ left /\ Done' = Done \cup {c}
  BY <1>1, <1>4 DEF Done, Group
<1>7. /\ Slot(c) \in Slots /\ Slot(c) \notin Cells
      /\ \A d \in Group(beside) : Slot(d) \in Slots /\ (Slot(d) = Slot(c) => d = c)
  BY <1>2, <1>4, Groups, Temporary DEF Slot
<1>8. sol \in [Slots -> Waters \cup {NoWater}] /\ solids \in [Cells -> Solids]
  BY <1>2 DEF Typed
<1>9. result.water \in Waters /\ result.solids \in Solids
  BY <1>5
<1>10. /\ sol' \in [Slots -> Waters \cup {NoWater}] /\ sol'[Slot(c)] = New(c).water
       /\ \A d \in Slots : d # Slot(c) => sol'[d] = sol[d]
  BY <1>1, <1>3, <1>5, <1>7, <1>8, <1>9
<1>11. /\ solids' \in [Cells -> Solids] /\ solids'[c] = New(c).solids
       /\ \A d \in Cells : d # c => solids'[d] = solids[d]
  BY <1>1, <1>3, <1>5, <1>8, <1>9
<1>12. /\ Cells' = Cells /\ Slots' = Slots /\ Wet' = Wet /\ Inflow' = Inflow
       /\ \A d : Water(d)' = Water(d) /\ Solid(d)' = Solid(d)
       /\ \A d : New(d)' = New(d) /\ Slot(d)' = Slot(d)
  BY <1>1, SameLoop
<1>13. \A d \in Cells : sol'[d] = sol[d]
  BY <1>2, <1>7, <1>10, Places
<1>14. Typed'
  BY <1>1, <1>2, <1>10, <1>11, <1>12, <1>13, Places DEF Typed, WetColumn
<1>15. Inflow \subseteq Cells
  BY <1>2, Numbers, Places DEF Inflow
<1>16. Loops'
  BY <1>1, <1>2, <1>4, <1>12, <1>13, <1>15 DEF Loops, Group
<1>17. \A d \in Cells : /\ sol'[d] = Water(d)
                        /\ solids'[d] = IF d \in Done' THEN New(d).solids ELSE Solid(d)
  <2>1. sol[c] = Water(c)
    BY <1>1, <1>2, <1>3, <1>7 DEF Calculation
  <2>2. ASSUME NEW d \in Cells, d # c
        PROVE  sol[d] = Water(d) /\ solids[d] = IF d \in Done THEN New(d).solids ELSE Solid(d)
    BY <1>1, <1>2, <2>2 DEF Contained, Others, InPlace
  <2> QED
    BY <1>6, <1>11, <1>13, <2>1, <2>2
<1>18. \A d \in Done' : sol'[Slot(d)] = New(d).water
  <2>1. \A d \in Done : sol[Slot(d)] = New(d).water /\ d # c /\ Slot(d) # Slot(c) /\ Slot(d) \in Slots
    BY <1>1, <1>2, <1>4, <1>6, <1>7 DEF Contained
  <2> QED
    BY <1>6, <1>10, <2>1
<1>19. Contained'
  BY <1>1, <1>12, <1>17, <1>18 DEF Contained, Others, InPlace
<1> QED
  BY <1>1, <1>14, <1>16, <1>19 DEF Kept, Calculation

--------------------------------------------------------------------------------
(* From one loop to the next *)

LEMMA PlaceChanges ==
  ASSUME Typed, Contained, stage = "none", Done = {}, Done' = {},
         UNCHANGED <<column, sol, solids, settled, stage>>,
         pc' \in {"idle", "first", "step", "half", "flow", "cells", "mix", "stagnant"}
  PROVE  Typed' /\ Contained' /\ Calculation'
<1>1. /\ Cells' = Cells /\ Slots' = Slots /\ Wet' = Wet
      /\ \A c : Water(c)' = Water(c) /\ Solid(c)' = Solid(c)
  BY DEF Cells, Slots, Wet, SaveOld, Last, Water, Solid
<1>2. Typed'
  BY <1>1 DEF Typed, WetColumn
<1>3. Contained'
  BY <1>1 DEF Contained, InPlace, Others
<1> QED
  BY <1>2, <1>3 DEF Calculation

\* Between loops nothing is being calculated, and a column as the loop has found it.
LEMMA Between ==
  ASSUME Kept, \/ pc \in {"idle", "step", "flow"}
               \/ pc \in {"cells", "mix"} /\ todo = {}
               \/ pc = "stagnant" /\ beside = 0
  PROVE  stage = "none" /\ (pc # "mix" => Done = {})
BY DEF Kept, Calculation, Loops, Doing, Done, Lowest

LEMMA InflowReady ==
  ASSUME Typed, Contained, stage = "none", Done = {}, Ready
  PROVE  \A c \in Inflow : sol[c] \in Waters /\ Water(c) \in Waters
<1>1. Inflow \subseteq Cells /\ Cells \subseteq Slots
  BY Numbers, Places DEF Inflow, Typed
<1>2. \A c \in Inflow : sol[c] = Water(c) /\ sol[c] \in Waters
  BY <1>1 DEF Contained, Others, InPlace, Ready, Typed
<1> QED
  BY <1>2

LEMMA AfterRunKept ==
  ASSUME Typed, Contained, stage = "none", Done = {}, beside = 0, left = {}, NEW j, AfterRun(j),
         UNCHANGED <<beside, left, sol>>, Unsettled, Calculating,
         \A c \in Inflow : sol[c] \in Waters /\ Water(c) \in Waters
  PROVE  Kept' /\ UNCHANGED <<column, settled>> /\ pc' # "idle"
<1>1. UNCHANGED <<column, sol, solids, settled, stage>>
  BY DEF Unsettled, Calculating
<1>2. /\ pc' \in {"half", "mix", "step"}
      /\ todo' \subseteq Mobile(column)
      /\ pc' = "mix" => todo' = Mobile(column)
  BY DEF AfterRun
<1>3. Done' = {}
  BY <1>1, <1>2 DEF Done
<1>4. Typed' /\ Contained' /\ Calculation'
  BY <1>1, <1>2, <1>3, PlaceChanges
<1>5. Cells' = Cells /\ Inflow' = Inflow /\ \A c : Water(c)' = Water(c)
  BY <1>1 DEF Cells, Inflow, Water, Last
<1>6. Mobile(column) \subseteq Cells
  BY Places DEF Typed
<1>7. Loops'
  BY <1>1, <1>2, <1>5, <1>6 DEF Loops
<1> QED
  BY <1>1, <1>2, <1>4, <1>7 DEF Kept

LEMMA StepKept ==
  ASSUME Kept, Step
  PROVE  Kept' /\ UNCHANGED <<column, settled>> /\ pc # "idle" /\ pc' # "idle"
<1>1. /\ pc = "step" /\ Ready /\ Unsettled /\ Calculating /\ UNCHANGED sol
      /\ \/ pc' = "flow" /\ UNCHANGED place
         \/ AfterRun(0) /\ UNCHANGED <<beside, left>>
  BY DEF Step
<1>2. Typed /\ Loops /\ Contained /\ stage = "none" /\ Done = {} /\ beside = 0 /\ left = {}
  BY <1>1, Between DEF Kept, Loops
<1>3. \A c \in Inflow : sol[c] \in Waters /\ Water(c) \in Waters
  BY <1>1, <1>2, InflowReady
<1>4. CASE AfterRun(0) /\ UNCHANGED <<beside, left>>
  BY <1>1, <1>2, <1>3, <1>4, AfterRunKept
<1>5. CASE pc' = "flow" /\ UNCHANGED place
  <2>1. Done' = {}
    BY <1>5 DEF Done
  <2>2. UNCHANGED <<column, sol, solids, settled, stage>>
    BY <1>1 DEF Unsettled, Calculating
  <2>3. Typed' /\ Contained' /\ Calculation'
    BY <1>2, <1>5, <2>1, <2>2, PlaceChanges
  <2>4. Cells' = Cells /\ Inflow' = Inflow /\ \A c : Water(c)' = Water(c)
    BY <2>2 DEF Cells, Inflow, Water, Last
  <2>5. Loops'
    BY <1>2, <1>3, <1>5, <2>2, <2>4 DEF Loops, place
  <2> QED
    BY <1>1, <1>5, <2>2, <2>3, <2>5 DEF Kept
<1> QED
  BY <1>1, <1>4, <1>5

LEMMA AllCellsDoneKept ==
  ASSUME Kept, AllCellsDone
  PROVE  Kept' /\ UNCHANGED <<column, settled>> /\ pc # "idle" /\ pc' # "idle"
<1>1. /\ pc = "cells" /\ todo = {} /\ AfterRun(RunsBefore)
      /\ UNCHANGED <<beside, left, sol>> /\ Unsettled /\ Calculating
  BY DEF AllCellsDone
<1>2. Typed /\ Loops /\ Contained /\ stage = "none" /\ Done = {} /\ beside = 0 /\ left = {}
  BY <1>1, Between DEF Kept, Loops
<1>3. \A c \in Inflow : sol[c] \in Waters /\ Water(c) \in Waters
  BY <1>1, <1>2 DEF Loops
<1> QED
  BY <1>1, <1>2, <1>3, AfterRunKept

LEMMA StagnantDoneKept ==
  ASSUME Kept, StagnantDone
  PROVE  Kept' /\ UNCHANGED <<column, settled>> /\ pc # "idle" /\ pc' # "idle"
<1>1. /\ pc = "stagnant" /\ beside = 0 /\ AfterRun(mixrun)
      /\ UNCHANGED <<beside, left, sol>> /\ Unsettled /\ Calculating
  BY DEF StagnantDone
<1>2. Typed /\ Loops /\ Contained /\ stage = "none" /\ Done = {} /\ left = {}
  BY <1>1, Between DEF Kept, Loops
<1>3. \A c \in Inflow : sol[c] \in Waters /\ Water(c) \in Waters
  BY <1>1, <1>2 DEF Loops
<1> QED
  BY <1>1, <1>2, <1>3, AfterRunKept

LEMMA NextBesideKept ==
  ASSUME Kept, NextBeside
  PROVE  Kept' /\ UNCHANGED <<column, settled, pc>>
<1>1. PICK i \in Lowest(todo) :
        /\ pc = "stagnant" /\ beside = 0 /\ todo' = todo \ {i} /\ beside' = i /\ left' = Group(i)
        /\ UNCHANGED <<pc, sol>> /\ Unsettled /\ Calculating
  BY DEF NextBeside
<1>2. Typed /\ Loops /\ Contained /\ stage = "none" /\ Done = {}
  BY <1>1, Between DEF Kept
<1>3. UNCHANGED <<column, sol, solids, settled, stage>>
  BY <1>1 DEF Unsettled, Calculating
<1>4. i \in Mobile(column) /\ i # 0
  BY <1>1, <1>2, Numbers DEF Lowest, Loops, Typed
<1>5. left' = Group(beside)'
  BY <1>1, <1>3 DEF Group
<1>6. Done' = {} /\ pc' = "stagnant"
  BY <1>1, <1>5 DEF Done
<1>7. Typed' /\ Contained' /\ Calculation'
  BY <1>2, <1>3, <1>6, PlaceChanges
<1>8. Cells' = Cells /\ Inflow' = Inflow /\ \A c : Water(c)' = Water(c)
  BY <1>3 DEF Cells, Inflow, Water, Last
<1>9. Loops'
  BY <1>1, <1>2, <1>3, <1>4, <1>5, <1>8 DEF Loops
<1> QED
  BY <1>1, <1>3, <1>7, <1>9 DEF Kept

LEMMA HalfKept ==
  ASSUME Kept, Half
  PROVE  Kept' /\ UNCHANGED <<column, settled>> /\ pc # "idle" /\ pc' # "idle"
<1>1. Typed /\ Loops /\ Contained /\ pc = "half" /\ stage = "none"
  BY DEF Half, Kept
<1>2. CASE Begin(FirstCell, sol[FirstCell], FirstCell, KinTime \div 2, 0)
  <2>1. PICK c, time, fraction : c = FirstCell /\ time = KinTime \div 2 /\ fraction = 0
    OBVIOUS
  <2>2. c \in Doing
    BY <1>1, <2>1 DEF Doing
  <2>3. sol[c] = CameTo(c) /\ Target(c) = c /\ CameTo(c) \in Waters
    BY <1>1, <2>2, NotYetDone, WatersCome DEF CameTo, Target
  <2>4. Begin(c, CameTo(c), Target(c), time, fraction)
    BY <1>2, <2>1, <2>3
  <2>5. Allowed(c, FALSE) /\ Allowed(c, TRUE)
    BY <1>1 DEF Allowed
  <2> QED
    BY <1>1, <2>2, <2>3, <2>4, <2>5, BeginKept
<1>3. CASE pc' = "flow" /\ UNCHANGED <<place, sol>> /\ Unsettled /\ Calculating
  <2>1. UNCHANGED <<column, sol, solids, settled, stage, todo, beside, left>>
    BY <1>3 DEF Unsettled, Calculating, place
  <2>2. Done = {} /\ Done' = {}
    BY <1>1, <1>3 DEF Done
  <2>3. Typed' /\ Contained' /\ Calculation'
    BY <1>1, <1>3, <2>1, <2>2, PlaceChanges
  <2>4. Cells' = Cells /\ Inflow' = Inflow /\ \A c : Water(c)' = Water(c)
    BY <2>1 DEF Cells, Inflow, Water, Last
  <2>5. Loops'
    BY <1>1, <1>3, <2>1, <2>4 DEF Loops
  <2> QED
    BY <1>1, <1>3, <2>1, <2>3, <2>5 DEF Kept
<1> QED
  BY <1>2, <1>3 DEF Half

LEMMA EndOfRunKept ==
  ASSUME Kept, EndOfRun
  PROVE  Kept' /\ Col!End
<1>1. pc = "step" /\ pc' = "idle" /\ UNCHANGED <<place, sol>> /\ Unsettled /\ Calculating
  BY DEF EndOfRun
<1>2. UNCHANGED <<column, sol, solids, settled, stage, todo, beside, left>>
  BY <1>1 DEF Unsettled, Calculating, place
<1>3. Typed /\ Loops /\ Contained /\ stage = "none" /\ Done = {}
  BY <1>1, Between DEF Kept
<1>4. Done' = {}
  BY <1>1 DEF Done
<1>5. Typed' /\ Contained' /\ Calculation'
  BY <1>1, <1>2, <1>3, <1>4, PlaceChanges
<1>6. Cells' = Cells
  BY <1>2 DEF Cells
<1>7. Loops'
  BY <1>1, <1>2, <1>3, <1>6 DEF Loops
<1>8. Col!End
  BY <1>1, <1>2 DEF Col!End
<1> QED
  BY <1>5, <1>7, <1>8 DEF Kept

LEMMA StopKept ==
  ASSUME Kept, Stop
  PROVE  Kept' /\ Col!Fail
<1>1. /\ pc # "idle" /\ pc' = "idle" /\ stage' = "none" /\ Settle
      /\ UNCHANGED <<column, todo, beside, left, sol, solids>>
  BY DEF Stop, place
<1>2. Typed /\ Loops
  BY DEF Kept
<1>3. Done' = {}
  BY <1>1 DEF Done
<1>4. Typed' /\ Contained' /\ Calculation'
  BY <1>1, <1>2, <1>3, LoopEnded DEF Typed
<1>5. Loops'
  BY <1>1, <1>2 DEF Loops, Cells
<1>6. settled'.water \in [Cells -> Waters \cup {NoWater}] /\ settled'.solids \in [Cells -> Solids]
  BY <1>1, <1>4 DEF Typed, WetColumn, Cells
<1>7. Col!Fail
  BY <1>1, <1>6, SameGeometry DEF Col!Fail
<1> QED
  BY <1>4, <1>5, <1>7 DEF Kept

LEMMA StartKept ==
  ASSUME Kept, Start
  PROVE  Kept' /\ Col!Start
<1>1. /\ pc = "idle" /\ Settle /\ beside' = 0 /\ left' = {} /\ UNCHANGED <<column, stage, solids>>
      /\ \/ pc' = "step" /\ todo' = {} /\ UNCHANGED sol
         \/ pc' = "first" /\ todo' = Cells \ column.closed /\ sol' = Filled
  BY DEF Start
<1>2. Typed /\ Contained /\ stage = "none" /\ Done = {} /\ column \in Columns
  BY <1>1, Between DEF Kept, Typed
<1>3. \A c \in Cells : sol[c] = Water(c) /\ solids[c] = Solid(c)
  BY <1>1, <1>2 DEF Contained, Others, InPlace
<1>4. sol \in [Slots -> Waters \cup {NoWater}] /\ solids \in [Cells -> Solids]
  BY <1>2 DEF Typed
<1>5. /\ 1 \in Wet /\ Last \in Wet /\ 1 \in Slots /\ Last \in Slots /\ 1 \in Cells /\ Last \in Cells
      /\ Cells \subseteq Slots /\ Wet \subseteq Cells
  BY <1>2, Numbers, Places DEF Wet
<1>6. \A c \in Wet : sol[c] \in Waters
  BY <1>2 DEF Typed
<1>7. Filled \in [Slots -> Waters \cup {NoWater}] /\ \A c \in Wet : Filled[c] \in Waters
  BY <1>4, <1>5, <1>6 DEF Filled
<1>8. Done' = {}
  BY <1>1 DEF Done
<1>9. pc' \in {"step", "first"}
  BY <1>1
<1>10. sol' \in [Slots -> Waters \cup {NoWater}] /\ \A c \in Wet : sol'[c] \in Waters
  BY <1>1, <1>4, <1>6, <1>7
<1>11. Typed' /\ Contained' /\ Calculation'
  BY <1>1, <1>2, <1>4, <1>8, <1>9, <1>10, LoopEnded
<1>12. Cells' = Cells
  BY <1>1 DEF Cells
<1>13. Loops'
  BY <1>1, <1>9, <1>12 DEF Loops
<1>14. Col!Start
  <2>1. PICK copied \in SUBSET Boundaries(column) :
          \A c \in Cells : sol'[c] = IF c \in copied /\ sol[c] = NoWater
                                     THEN sol[IF c = 0 THEN 1 ELSE Last] ELSE sol[c]
    <3>1. CASE UNCHANGED sol
      <4>1. \A c \in Cells : sol'[c] = IF c \in {} /\ sol[c] = NoWater
                                       THEN sol[IF c = 0 THEN 1 ELSE Last] ELSE sol[c]
        BY <3>1
      <4>2. {} \in SUBSET Boundaries(column)
        OBVIOUS
      <4> QED
        BY <4>1, <4>2
    <3>2. CASE sol' = Filled
      <4>1. \A c \in Cells : sol'[c] = IF c \in Boundaries(column) \ Inflow /\ sol[c] = NoWater
                                       THEN sol[IF c = 0 THEN 1 ELSE Last] ELSE sol[c]
        BY <1>5, <3>2 DEF Filled
      <4>2. Boundaries(column) \ Inflow \in SUBSET Boundaries(column)
        OBVIOUS
      <4> QED
        BY <4>1, <4>2
    <3> QED
      BY <1>1, <3>1, <3>2
  <2>2. \A c \in Cells : settled.water[c] = sol[c]
    BY <1>3 DEF Water
  <2>3. settled'.water = [c \in Cells |-> IF c \in copied /\ settled.water[c] = NoWater
                                           THEN settled.water[IF c = 0 THEN 1 ELSE Last]
                                           ELSE settled.water[c]]
    BY <1>1, <1>5, <2>1, <2>2 DEF Settle, Contents
  <2>4. settled'.solids = settled.solids
    <3>1. settled'.solids = solids
      BY <1>1 DEF Settle, Contents
    <3>2. settled.solids \in [Cells -> Solids]
      BY <1>2 DEF Typed, WetColumn, Cells
    <3>3. \A c \in Cells : settled.solids[c] = solids[c]
      BY <1>3 DEF Solid
    <3> QED
      BY <1>4, <3>1, <3>2, <3>3
  <2> QED
    BY <1>1, <1>9, <2>3, <2>4, SameGeometry DEF Col!Start, Last
<1> QED
  BY <1>11, <1>13, <1>14 DEF Kept

LEMMA FlowKept ==
  ASSUME Kept, Flow
  PROVE  Kept' /\ Col!Flow
<1>1. /\ pc = "flow" /\ pc' \in {"mix", "cells"} /\ todo' = Mobile(column) /\ Settle
      /\ UNCHANGED <<column, stage, solids, beside, left>> /\ sol' = Moved
  BY DEF Flow, Calculating
<1>2. Typed /\ Loops /\ Contained /\ stage = "none" /\ Done = {} /\ column \in Columns
  BY <1>1, Between DEF Kept, Typed
<1>3. \A c \in Cells : sol[c] = Water(c) /\ solids[c] = Solid(c)
  BY <1>1, <1>2 DEF Contained, Others, InPlace
<1>4. sol \in [Slots -> Waters \cup {NoWater}] /\ solids \in [Cells -> Solids]
  BY <1>2 DEF Typed
<1>5. \A c \in Mobile(column) : c - column.flow \in Mobile(column) \/ c - column.flow \in Inflow
  BY <1>2, Numbers DEF Inflow
<1>6. /\ Inflow \subseteq Cells /\ Mobile(column) \subseteq Cells /\ Wet \subseteq Cells
      /\ Cells \subseteq Slots /\ Mobile(column) \subseteq Wet
      /\ \A c \in Inflow : c \notin Mobile(column)
  BY <1>2, Numbers, Places DEF Inflow, Wet
<1>7. \A c \in Mobile(column) : c - column.flow \in Cells /\ sol[c - column.flow] \in Waters
  BY <1>1, <1>2, <1>5, <1>6 DEF Loops, Typed
<1>8. \A c \in Slots : sol'[c] = IF c \in Mobile(column) THEN sol[c - column.flow] ELSE sol[c]
  BY <1>1 DEF Moved
<1>9. sol' \in [Slots -> Waters \cup {NoWater}] /\ \A c \in Wet : sol'[c] \in Waters
  <2>1. \A c \in Wet : sol[c] \in Waters
    BY <1>2 DEF Typed
  <2>2. \A c \in Slots : sol'[c] \in Waters \cup {NoWater}
    BY <1>4, <1>7, <1>8
  <2>3. sol' = [c \in Slots |-> sol'[c]]
    BY <1>1 DEF Moved
  <2> QED
    BY <1>6, <1>7, <1>8, <2>1, <2>2, <2>3
<1>10. Done' = {}
  BY <1>1 DEF Done
<1>11. Typed' /\ Contained' /\ Calculation'
  BY <1>1, <1>2, <1>4, <1>9, <1>10, LoopEnded
<1>12. \A c \in Inflow' : sol'[c] \in Waters /\ Water(c)' \in Waters
  <2>1. \A c \in Inflow : sol'[c] \in Waters
    BY <1>1, <1>2, <1>6, <1>8 DEF Loops
  <2> QED
    BY <1>1, <1>2, <2>1, InflowStays
<1>13. Cells' = Cells
  BY <1>1 DEF Cells
<1>14. Loops'
  BY <1>1, <1>2, <1>6, <1>12, <1>13 DEF Loops
<1>15. Col!Flow
  <2>1. settled'.water = [c \in Cells |-> IF c \in Mobile(column) THEN settled.water[c - column.flow]
                                           ELSE settled.water[c]]
    BY <1>1, <1>3, <1>6, <1>7, <1>8 DEF Settle, Contents, Water
  <2>2. settled'.solids = settled.solids
    <3>1. settled'.solids = solids
      BY <1>1 DEF Settle, Contents
    <3>2. settled.solids \in [Cells -> Solids]
      BY <1>2 DEF Typed, WetColumn, Cells
    <3>3. \A c \in Cells : settled.solids[c] = solids[c]
      BY <1>3 DEF Solid
    <3> QED
      BY <1>4, <3>1, <3>2, <3>3
  <2> QED
    BY <1>1, <2>1, <2>2, SameGeometry DEF Col!Flow
<1> QED
  BY <1>11, <1>14, <1>15 DEF Kept

LEMMA MixingRunDoneKept ==
  ASSUME Kept, MixingRunDone
  PROVE  Kept' /\ Col!Disperse
<1>1. /\ pc = "mix" /\ todo = {} /\ stage = "none" /\ Settle /\ UNCHANGED <<column, solids, stage>>
      /\ sol' = [sol EXCEPT ![Last] = sol[-2]]
  BY DEF MixingRunDone, Calculating
<1>2. Typed /\ Loops /\ Contained /\ column \in Columns /\ beside = 0 /\ left = {}
  BY <1>1 DEF Kept, Typed, Loops
<1>3. /\ pc' \in {"step", "half", "mix", "stagnant"} /\ UNCHANGED <<beside, left>>
      /\ todo' \subseteq Mobile(column) /\ (pc' = "mix" => todo' = Mobile(column))
  BY <1>1 DEF MixingRunDone, AfterRun
<1>4. Done = Mobile(column) /\ Done' = {}
  BY <1>1, <1>2, <1>3 DEF Done
<1>5. Last \in Mobile(column) /\ Last + 1 \notin Mobile(column) /\ Mobile(column) \subseteq Int
  BY <1>2, Numbers
<1>6. /\ Mobile(column) \subseteq Cells /\ Cells \subseteq Slots /\ -2 \in Slots /\ Wet \subseteq Cells
  BY <1>2, Places, Temporary
<1>7. sol[-2] = New(Last).water
  BY <1>1, <1>2, <1>4, <1>5 DEF Contained
<1>8. /\ sol \in [Slots -> Waters \cup {NoWater}] /\ solids \in [Cells -> Solids]
      /\ New(Last).water \in Waters
  BY <1>2, <1>4, <1>5, ResultsTyped DEF Typed
<1>9. /\ sol' \in [Slots -> Waters \cup {NoWater}] /\ sol'[Last] = New(Last).water
      /\ \A d \in Slots : d # Last => sol'[d] = sol[d]
  BY <1>1, <1>5, <1>6, <1>7, <1>8
<1>10. \A d \in Mobile(column) : sol'[d] = New(d).water /\ solids[d] = New(d).solids
  <2>1. ASSUME NEW d \in Mobile(column) PROVE sol'[d] = New(d).water /\ solids[d] = New(d).solids
    <3>1. d \in Cells /\ d \in Slots /\ d \in Others
      BY <1>1, <1>6 DEF Others
    <3>2. d # Last => InPlace(d)
      BY <1>1, <1>2, <1>4, Numbers DEF InPlace
    <3> QED
      BY <1>2, <1>4, <1>9, <3>1, <3>2 DEF Contained
  <2> QED
    BY <2>1
<1>11. \A d \in Cells \ Mobile(column) : sol'[d] = Water(d) /\ solids[d] = Solid(d)
  BY <1>1, <1>2, <1>4, <1>5, <1>6, <1>9 DEF Contained, InPlace, Others
<1>12. \A d \in Wet : sol'[d] \in Waters
  BY <1>2, <1>6, <1>8, <1>9 DEF Typed
<1>13. Typed' /\ Contained' /\ Calculation'
  BY <1>1, <1>2, <1>3, <1>4, <1>8, <1>9, <1>12, LoopEnded
<1>14. \A c \in Inflow' : sol'[c] \in Waters /\ Water(c)' \in Waters
  <2>1. Inflow \subseteq Cells /\ \A c \in Inflow : c # Last
    BY <1>2, Numbers, Places DEF Inflow
  <2>2. \A c \in Inflow : sol'[c] \in Waters
    BY <1>1, <1>2, <1>6, <1>9, <2>1 DEF Loops
  <2> QED
    BY <1>1, <1>2, <2>2, InflowStays
<1>15. Cells' = Cells
  BY <1>1 DEF Cells
<1>16. Loops'
  BY <1>1, <1>2, <1>3, <1>6, <1>14, <1>15 DEF Loops
<1>17. Col!Disperse
  <2> DEFINE came == [c \in Mobile(column) |->
                        IF column.kind = "advection" /\ c \notin column.mixing THEN settled.water[c]
                        ELSE Mixed(settled.water[c - 1], settled.water[c], settled.water[c + 1])]
  <2> DEFINE kin == [c \in Mobile(column) |-> TRUE]
  <2>1. \A d \in Mobile(column) : New(d) = Calculated(column, d, came[d], Solid(d), kin[d])
    BY <1>1 DEF New, CameTo, Dispersed, Water
  <2>2. Col!Calculate(Mobile(column), came, kin)
    <3> HIDE DEF came, kin
    <3>1. /\ Mobile(column) \subseteq Cells /\ pc # "idle" /\ pc' # "idle" /\ column' = column /\ Settle
          /\ solids' \in [Cells -> Solids]
      BY <1>1, <1>3, <1>6, <1>8
    <3>2. \A d \in Mobile(column) :
            /\ sol'[d] = Calculated(column, d, came[d], Solid(d), kin[d]).water
            /\ solids'[d] = Calculated(column, d, came[d], Solid(d), kin[d]).solids
      BY <1>1, <1>10, <2>1
    <3>3. \A d \in Cells \ Mobile(column) : sol'[d] = Water(d) /\ solids'[d] = Solid(d)
      BY <1>1, <1>11
    <3> QED
      BY <3>1, <3>2, <3>3, AllAtOnce
  <2> QED
    BY <2>2, SameGeometry DEF Col!Disperse
<1> QED
  BY <1>13, <1>16, <1>17 DEF Kept

LEMMA GroupDoneKept ==
  ASSUME Kept, GroupDone
  PROVE  Kept' /\ beside \in Mobile(column) /\ Col!Exchange(beside)
<1> DEFINE group == Group(beside)
<1>1. /\ pc = "stagnant" /\ beside # 0 /\ left = {} /\ stage = "none" /\ Settle
      /\ UNCHANGED <<column, solids, stage, todo, left>> /\ sol' = Originals(beside)
      /\ pc' \in {"cells", "stagnant"} /\ beside' = 0
  BY DEF GroupDone, Calculating
<1>2. Typed /\ Loops /\ Contained /\ column \in Columns /\ beside \in Mobile(column)
  BY <1>1 DEF Kept, Typed, Loops
<1>3. Done = group /\ Done' = {}
  BY <1>1 DEF Done
<1>4. /\ group \subseteq Cells /\ Cells \subseteq Slots /\ Wet \subseteq Cells
      /\ Beside(column, beside) \subseteq group /\ group \subseteq Beside(column, beside) \cup {beside}
      /\ beside \notin Beside(column, beside)
      /\ group \subseteq Wet
  BY <1>2, Places, Groups DEF Group
<1>5. /\ sol \in [Slots -> Waters \cup {NoWater}] /\ solids \in [Cells -> Solids]
  BY <1>2 DEF Typed
<1>6. \A d \in group : /\ sol[Slot(d)] = New(d).water /\ New(d).water \in Waters
                       /\ solids[d] = New(d).solids
  BY <1>1, <1>2, <1>3, <1>4, ResultsTyped DEF Contained, Others
<1>7. \A d \in Cells \ group : sol[d] = Water(d) /\ solids[d] = Solid(d)
  BY <1>1, <1>2, <1>3 DEF Contained, InPlace, Others
<1>8. \A d \in Slots : sol'[d] = IF d \in group THEN New(d).water ELSE sol[d]
  BY <1>1, <1>4, <1>6 DEF Originals, Slot
<1>9. sol' \in [Slots -> Waters \cup {NoWater}]
  <2>1. sol' = [d \in Slots |-> sol'[d]]
    BY <1>1 DEF Originals
  <2> QED
    BY <1>5, <1>6, <1>8, <2>1
<1>10. \A d \in Wet : sol'[d] \in Waters
  BY <1>2, <1>4, <1>6, <1>8 DEF Typed
<1>11. Typed' /\ Contained' /\ Calculation'
  BY <1>1, <1>2, <1>3, <1>5, <1>9, <1>10, LoopEnded
<1>12. \A c \in Inflow' : sol'[c] \in Waters /\ Water(c)' \in Waters
  <2>1. Inflow \subseteq Cells
    BY <1>2, Numbers, Places DEF Inflow
  <2>2. \A c \in Inflow : sol'[c] \in Waters
    BY <1>1, <1>2, <1>4, <1>6, <1>8, <2>1 DEF Loops
  <2> QED
    BY <1>1, <1>2, <2>2, InflowStays
<1>13. Cells' = Cells
  BY <1>1 DEF Cells
<1>14. Loops'
  BY <1>1, <1>2, <1>12, <1>13 DEF Loops
<1>15. Col!Exchange(beside)
  <2> DEFINE first == Immobile(column, beside, 1)
  <2> DEFINE next(k) == IF k = first THEN beside ELSE k - column.cells
  <2> DEFINE came == [c \in group |->
                        IF c = beside THEN Exchanged(settled.water[beside], settled.water[first])
                        ELSE IF next(c) \in Cells
                               THEN Exchanged(settled.water[c], settled.water[next(c)])
                               ELSE settled.water[c]]
  <2> DEFINE kin == [c \in group |-> c # beside]
  <2>1. ASSUME NEW d \in group PROVE New(d) = Calculated(column, d, came[d], Solid(d), kin[d])
    <3>1. d = beside => first \in Cells
      BY <1>2, <2>1, Groups, Places
    <3>2. came[d] = CameTo(d)
      BY <1>1, <3>1 DEF CameTo, ExchangedWith, Towards, Water, Last
    <3> QED
      BY <1>1, <3>2 DEF New
  <2>2. Col!Calculate(group, came, kin)
    <3> HIDE DEF came, kin, group
    <3>1. /\ group \subseteq Cells /\ pc # "idle" /\ pc' # "idle" /\ column' = column /\ Settle
          /\ solids' \in [Cells -> Solids]
      BY <1>1, <1>4, <1>5
    <3>2. \A d \in group :
            /\ sol'[d] = Calculated(column, d, came[d], Solid(d), kin[d]).water
            /\ solids'[d] = Calculated(column, d, came[d], Solid(d), kin[d]).solids
      BY <1>1, <1>4, <1>6, <1>8, <2>1
    <3>3. \A d \in Cells \ group : sol'[d] = Water(d) /\ solids'[d] = Solid(d)
      BY <1>1, <1>4, <1>7, <1>8
    <3> QED
      BY <3>1, <3>2, <3>3, AllAtOnce
  <2>3. Col!Exchange(beside) = Col!Calculate(group, came, kin)
    BY SameGeometry DEF Col!Exchange, Group
  <2> QED
    BY <2>2, <2>3
<1> QED
  BY <1>2, <1>11, <1>14, <1>15 DEF Kept

--------------------------------------------------------------------------------
(* The specification *)

LEMMA KeptInit == Init => Kept /\ Col!Init
<1> SUFFICES ASSUME Init PROVE Kept /\ Col!Init
  OBVIOUS
<1>1. /\ column \in Columns /\ pc = "idle" /\ todo = {} /\ beside = 0 /\ left = {} /\ stage = "none"
      /\ sol = [c \in Slots |-> IF c \in Cells THEN column.water[c] ELSE NoWater]
      /\ solids = column.solids
      /\ settled = [water |-> column.water, solids |-> column.solids]
  BY DEF Init
<1>2. /\ column.water \in [Cells -> Waters \cup {NoWater}] /\ column.solids \in [Cells -> Solids]
      /\ \A c \in Cells \ Boundaries(column) : column.water[c] # NoWater
  BY <1>1, ColumnsAssumption DEF IsColumn, Cells
<1>3. \A c \in Wet : c \in Cells \ Boundaries(column)
  BY <1>1, Numbers, Places, StagnantCells DEF Wet
<1>4. Cells \subseteq Slots
  BY <1>1, Places
<1>5. \A c \in Cells : sol[c] = Water(c) /\ solids[c] = Solid(c)
  BY <1>1, <1>4 DEF Water, Solid
<1>6. sol \in [Slots -> Waters \cup {NoWater}]
  BY <1>1, <1>2
<1>7. \A c \in Wet : Water(c) \in Waters
  BY <1>1, <1>2, <1>3 DEF Water
<1>8. Typed
  BY <1>1, <1>2, <1>3, <1>5, <1>6, <1>7 DEF Typed, WetColumn, Cells
<1>9. Loops /\ Contained /\ Calculation
  BY <1>1, <1>5 DEF Loops, Contained, Others, InPlace, Done, Calculation
<1>10. Col!Init
  BY <1>1 DEF Col!Init
<1> QED
  BY <1>8, <1>9, <1>10 DEF Kept

LEMMA KeptNext == Kept /\ [Next]_vars => Kept' /\ [Col!Next]_(Col!vars)
<1> SUFFICES ASSUME Kept, [Next]_vars PROVE Kept' /\ [Col!Next]_(Col!vars)
  OBVIOUS
<1>stutter. ASSUME UNCHANGED <<column, settled>>, pc' = pc \/ (pc # "idle" /\ pc' # "idle")
            PROVE  UNCHANGED Col!vars
  BY <1>stutter DEF Col!vars
<1>alone. ASSUME NEW c \in Cells, Col!Alone(c) PROVE Col!Next
  BY <1>alone, SameGeometry DEF Col!Next
<1>1. CASE Start
  BY <1>1, StartKept DEF Col!Next
<1>2. CASE First
  BY <1>2, <1>stutter, FirstKept
<1>3. CASE FirstDone
  BY <1>3, <1>alone, FirstDoneKept
<1>4. CASE Step
  BY <1>4, <1>stutter, StepKept
<1>5. CASE EndOfRun
  BY <1>5, EndOfRunKept DEF Col!Next
<1>6. CASE Stop
  BY <1>6, StopKept DEF Col!Next
<1>7. CASE Integrate
  BY <1>7, <1>stutter, IntegrateKept
<1>8. CASE LastCalculation
  BY <1>8, <1>stutter, LastCalculationKept
<1>9. CASE Half
  BY <1>9, <1>stutter, HalfKept
<1>10. CASE HalfDone
  BY <1>10, <1>alone, HalfDoneKept
<1>11. CASE Flow
  BY <1>11, FlowKept DEF Col!Next
<1>12. CASE OneCell
  BY <1>12, <1>stutter, OneCellKept
<1>13. CASE OneCellDone
  BY <1>13, <1>alone, OneCellDoneKept
<1>14. CASE AllCellsDone
  BY <1>14, <1>stutter, AllCellsDoneKept
<1>15. CASE Disperse
  BY <1>15, <1>stutter, DisperseKept
<1>16. CASE DisperseDone
  BY <1>16, <1>stutter, DisperseDoneKept
<1>17. CASE MixingRunDone
  BY <1>17, MixingRunDoneKept DEF Col!Next
<1>18. CASE NextBeside
  BY <1>18, <1>stutter, NextBesideKept
<1>19. CASE StagnantCell
  BY <1>19, <1>stutter, StagnantCellKept
<1>20. CASE StagnantCellDone
  BY <1>20, <1>stutter, StagnantCellDoneKept
<1>21. CASE GroupDone
  <2>1. Kept' /\ beside \in Mobile(column) /\ Col!Exchange(beside)
    BY <1>21, GroupDoneKept
  <2> QED
    BY <2>1, SameGeometry DEF Col!Next
<1>22. CASE StagnantDone
  BY <1>22, <1>stutter, StagnantDoneKept
<1>23. CASE UNCHANGED vars
  <2>1. UNCHANGED <<column, pc, todo, beside, left, stage, calc, result, sol, solids, settled>>
    BY <1>23 DEF vars
  <2>2. Typed' /\ Loops' /\ Contained'
    BY <2>1, SamePlace DEF Kept, Typed, WetColumn, Loops, Contained, Others, Group
  <2>3. Calculation'
    <3> DEFINE c == calc.cell
    <3> QED
      BY <2>1 DEF Kept, Calculation, Doing, FirstCell, Last, Lowest, CameTo, Dispersed, Water,
                  ExchangedWith, Towards, Cells, Target, Slot, Allowed, SaveOld, First1, Then1,
                  Solid, Calculated
  <2> QED
    BY <2>1, <2>2, <2>3, <1>stutter DEF Kept
<1> QED
  BY <1>1, <1>2, <1>3, <1>4, <1>5, <1>6, <1>7, <1>8, <1>9, <1>10, <1>11, <1>12, <1>13, <1>14,
     <1>15, <1>16, <1>17, <1>18, <1>19, <1>20, <1>21, <1>22, <1>23 DEF Next

\* At each place of transport(), advection() and mix_stag(): which cells still have what the loop
\* has found, which have their result, and in which temporary solution the others' results are.
THEOREM Invariant == Spec => []Kept
BY KeptInit, KeptNext, PTL DEF Spec

\* The loops over the cells, which save each result in place or in a temporary solution, do what
\* Column does to all cells at once, for any number of cells and layers, any times and
\* calculations, and whatever stops a run.
THEOREM ColumnIsImplemented == Spec => ColumnSpec
BY KeptInit, KeptNext, PTL DEF Spec, ColumnSpec, Col!Spec
--------------------------------------------------------------------------------
(* Times.  The invariant says how far the loop under way is with each cell, in parts of a   *)
(* shift.                                                                                   *)

\* The loop over the cells after the flow, with the stagnant cells if there is no mixing.
AfterFlow == pc = "cells" \/ (pc = "stagnant" /\ column.mixes = 0)

\* The loop over the stagnant cells in a mixing run.
StagnantRun == pc = "stagnant" /\ column.mixes > 0

\* Mobile cells that have begun in the loop under way, and stagnant ones.
Begun(c) == c \notin todo \/ (pc # "stagnant" /\ stage # "none" /\ calc.cell = c)

BegunBeside(c) ==
  /\ \A i \in Mobile(column) : c \in Beside(column, i) => i \notin todo
  /\ c \notin left \/ (stage # "none" /\ calc.cell = c)

\* The time and REACTION a mobile cell has with the flow, the half time before it included.
HalfTime(c) == IF Resident /\ c = FirstCell THEN KinTime \div 2 ELSE 0

FlowTime(c) ==
  IF column.kind = "advection" THEN 0
  ELSE IF flown THEN IF AfterFlow /\ ~Begun(c) THEN HalfTime(c) ELSE KinTime
  ELSE IF pc = "flow" \/ (pc = "half" /\ stage # "none") THEN HalfTime(c) ELSE 0

FlowReaction(c) ==
  IF column.kind = "transport" /\ flown /\ ~(AfterFlow /\ ~Begun(c)) THEN KinTime ELSE 0

\* The mixing runs it has begun.
RunsOf(c) == IF pc = "mix" /\ ~Begun(c) THEN mixrun - 1 ELSE mixrun

\* The loops over the stagnant cells that a stagnant cell has begun.
Rounds(c) ==
  IF pc = "mix" \/ (StagnantRun /\ ~BegunBeside(c)) THEN mixrun - 1
  ELSE IF AfterFlow /\ column.mixes = 0 THEN IF BegunBeside(c) THEN 1 ELSE 0
  ELSE mixrun

Shifts == (step - 1) * Shift

Order ==
  /\ step \in 1..(MaxShifts + 1) /\ mixrun \in 0..(column.mixes + 1) /\ flown \in BOOLEAN
  /\ pc \notin {"idle", "first", "step"} => step <= MaxShifts
  /\ pc = "first" => step = 1
  /\ pc \in {"first", "step"} => mixrun = 0 /\ ~flown
  /\ pc = "stagnant" => beside \notin todo
  /\ column.kind = "advection" =>
       /\ pc \in {"idle", "step", "flow", "mix"}
       /\ pc = "flow" => mixrun = 0 /\ ~flown
       /\ pc = "mix" => mixrun = 1 /\ flown
  /\ column.kind = "transport" =>
       /\ pc \in {"half", "flow"} => ~flown /\ mixrun = RunsBefore /\ column.flow # 0
       /\ AfterFlow => flown /\ mixrun = RunsBefore /\ column.flow # 0
       /\ pc = "mix" \/ StagnantRun =>
            /\ mixrun \in 1..column.mixes
            /\ flown <=> column.flow # 0 /\ mixrun > RunsBefore
       /\ pc = "stagnant" /\ beside = 0 => column.mixes > 0

Timed ==
  pc # "idle" =>
    /\ \A c \in Mobile(column) :
         /\ given[c].time <= Shifts + RunsOf(c) * KinTime + FlowTime(c)
         /\ c \in column.kinetics => given[c].time = Shifts + RunsOf(c) * KinTime + FlowTime(c)
         /\ given[c].reaction = Shifts + RunsOf(c) * KinTime + FlowReaction(c)
    /\ \A c \in Stagnant(column) :
         /\ given[c].time = Shifts + Rounds(c) * StagnantTime
         /\ given[c].reaction <= Shifts + Rounds(c) * KinTime
    /\ \A c \in Boundaries(column) : given[c].time = 0 /\ given[c].reaction = 0

\* The rest of the types.
Filed ==
  /\ calc \in [cell : Cells, to : Slots]
  /\ result \in [water : Waters, solids : Solids]
  /\ runs \in 0..MaxRuns
  /\ given \in [Cells -> [time : 0..(MaxShifts * Shift), reaction : 0..(MaxShifts * Shift)]]

\* A run that was stopped leaves its place.
Left == beside \in 0..Last /\ left \subseteq Cells

Accounts == Order /\ Timed /\ Filed /\ Left

LEMMA Shares ==
  ASSUME column \in Columns
  PROVE  /\ KinTime \in Nat /\ StagnantTime \in Nat /\ Shift \in Nat /\ column.mixes \in Nat
         /\ column.kind = "advection" => KinTime = Shift /\ Stagnant(column) = {}
         /\ column.kind = "transport" /\ column.flow # 0 =>
              /\ column.mixes * KinTime + KinTime = Shift
              /\ KinTime \div 2 \in Nat /\ KinTime = KinTime \div 2 + KinTime \div 2
         /\ column.kind = "transport" /\ column.flow = 0 =>
              column.mixes * KinTime = Shift /\ column.mixes > 0
         /\ column.kind = "transport" /\ column.mixes > 0 => column.mixes * StagnantTime = Shift
         /\ column.mixes = 0 => StagnantTime = Shift
<1> DEFINE m == column.mixes
<1> DEFINE s == Shift
<1>1. m \in Nat /\ column.kind \in {"advection", "transport"}
  BY Numbers
<1>2. column.kind = "advection" => Stagnant(column) = {}
  <2>1. ASSUME column.kind = "advection" PROVE 1..column.layers = {}
    BY <2>1, ColumnsAssumption DEF IsColumn
  <2> QED
    BY <2>1 DEF Stagnant
<1>3. column.kind = "transport" /\ column.flow = 0 => m > 0
  BY <1>1, ColumnsAssumption DEF IsColumn
<1>4. CASE column.kind = "advection" \/ m = 0
  <2>1. s = 2 /\ (m = 0 => StagnantTime = 2) /\ (column.kind = "advection" => KinTime = 2)
    BY <1>4 DEF Shift, StagnantTime, KinTime
  <2>2. StagnantTime \in Nat
    BY <1>1, <2>1 DEF StagnantTime
  <2>3. column.kind = "transport" => KinTime = 2
    BY <1>1, <1>4, <2>1 DEF KinTime
  <2> QED
    BY <1>1, <1>2, <1>3, <1>4, <2>1, <2>2, <2>3
<1>5. CASE column.kind = "transport" /\ m >= 1
  <2>1. s = 2 * m * (m + 1)
    BY <1>5 DEF Shift
  <2>2. StagnantTime = (IF m < 2 THEN s ELSE s \div m)
    BY DEF StagnantTime
  <2>3. KinTime = (IF column.flow # 0 THEN s \div (1 + m) ELSE StagnantTime)
    BY <1>5 DEF KinTime
  <2>4. PICK n \in Nat : n = m
    BY <1>1
  <2> HIDE DEF s, m
  <2>5. s = (2 * n) * (n + 1) /\ s = (2 * (n + 1)) * n /\ s \in Nat /\ n >= 1
    BY <2>1, <2>4, <1>5
  <2>6. s \div (n + 1) = 2 * n /\ s \div n = 2 * (n + 1)
    BY <2>5, Multiple
  <2>7. KinTime = IF column.flow # 0 THEN 2 * n ELSE StagnantTime
    BY <2>3, <2>4, <2>6
  <2>8. StagnantTime = IF n < 2 THEN s ELSE 2 * (n + 1)
    BY <2>2, <2>4, <2>6
  <2>9. n * StagnantTime = s
    BY <2>5, <2>8
  <2>10. n * (2 * n) + 2 * n = s
    BY <2>5
  <2>11. (2 * n) \div 2 = n
    BY <2>4, Multiple
  <2>12. column.mixes = n /\ Shift = s /\ StagnantTime \in Nat
    BY <2>4, <2>5, <2>8 DEF m, s
  <2>13. CASE column.flow # 0
    <3>1. KinTime = 2 * n /\ KinTime \in Nat /\ KinTime \div 2 = n
      BY <2>4, <2>7, <2>11, <2>13
    <3>2. column.mixes * KinTime + KinTime = Shift
      BY <2>10, <2>12, <3>1
    <3> QED
      BY <1>5, <2>4, <2>5, <2>9, <2>12, <2>13, <3>1, <3>2
  <2>14. CASE column.flow = 0
    <3>1. KinTime = StagnantTime
      BY <2>7, <2>14
    <3> QED
      BY <1>5, <2>4, <2>5, <2>9, <2>12, <2>14, <3>1
  <2> QED
    BY <2>13, <2>14
<1> QED
  BY <1>1, <1>4, <1>5

LEMMA Before ==
  ASSUME column \in Columns
  PROVE  /\ RunsBefore \in Nat /\ RunsBefore <= column.mixes
         /\ column.mixes > 0 => RunsBefore < column.mixes
BY Numbers DEF RunsBefore

\* A stagnant cell is beside one mobile cell.
LEMMA Owners ==
  ASSUME column \in Columns, NEW c \in Stagnant(column)
  PROVE  /\ \E i \in Mobile(column) : c \in Beside(column, i)
         /\ \A i, j \in Mobile(column) : c \in Beside(column, i) /\ c \in Beside(column, j) => i = j
<1>1. \E i \in Mobile(column) : c \in Beside(column, i)
  BY DEF Stagnant, Beside
<1>2. ASSUME NEW i \in Mobile(column), NEW j \in Mobile(column),
             c \in Beside(column, i), c \in Beside(column, j)
      PROVE  i = j
  <2>1. PICK n \in 1..column.layers : c = Immobile(column, i, n)
    BY <1>2 DEF Beside
  <2>2. PICK k \in 1..column.layers : c = Immobile(column, j, k)
    BY <1>2 DEF Beside
  <2>3. PICK l \in Nat : l = Last /\ i \in 1..l /\ j \in 1..l
    BY Numbers
  <2>4. n \in Nat /\ k \in Nat
    BY <2>1, <2>2, Numbers
  <2>5. i + n * l = j + k * l
    <3>1. c = i + 1 + n * l /\ c = j + 1 + k * l
      BY <2>1, <2>2, <2>3 DEF Immobile, Last
    <3>2. n * l \in Nat /\ k * l \in Nat
      BY <2>3, <2>4
    <3> QED
      BY <2>3, <3>1, <3>2
  <2>6. (n + 1) * l = n * l + l /\ (k + 1) * l = k * l + l /\ n * l \in Nat /\ k * l \in Nat
    BY <2>3, <2>4
  <2>7. ~(n < k)
    <3>1. n < k => (n + 1) * l <= k * l
      BY <2>3, <2>4, Product
    <3> QED
      BY <2>3, <2>5, <2>6, <3>1
  <2>8. ~(k < n)
    <3>1. k < n => (k + 1) * l <= n * l
      BY <2>3, <2>4, Product
    <3> QED
      BY <2>3, <2>5, <2>6, <3>1
  <2>9. n = k
    BY <2>4, <2>7, <2>8
  <2> QED
    BY <2>3, <2>5, <2>6, <2>9
<1> QED
  BY <1>1, <1>2

LEMMA SameTimes ==
  ASSUME column' = column
  PROVE  /\ Shift' = Shift /\ KinTime' = KinTime /\ StagnantTime' = StagnantTime
         /\ RunsBefore' = RunsBefore /\ \A c : HalfTime(c)' = HalfTime(c)
<1>1. Shift' = Shift
  BY DEF Shift
<1>2. StagnantTime' = StagnantTime
  BY <1>1 DEF StagnantTime
<1>3. KinTime' = KinTime
  BY <1>1, <1>2 DEF KinTime
<1>4. RunsBefore' = RunsBefore
  BY DEF RunsBefore
<1>5. \A c : HalfTime(c)' = HalfTime(c)
  BY <1>3 DEF HalfTime, Resident, FirstCell, Last
<1> QED
  BY <1>1, <1>2, <1>3, <1>4, <1>5

LEMMA HalfTimes ==
  ASSUME column \in Columns, column.kind = "transport", column.flow # 0, NEW c
  PROVE  HalfTime(c) \in Nat /\ HalfTime(c) <= KinTime
BY Shares DEF HalfTime

\* Steps in which no cell gets anything, and no loop ends.
LEMMA NothingGiven ==
  ASSUME column \in Columns, Timed, pc # "idle", UNCHANGED <<column, step>>,
         \A c \in Cells : given'[c].time = given[c].time /\ given'[c].reaction = given[c].reaction,
         \A c \in Mobile(column) :
           /\ RunsOf(c)' = RunsOf(c) /\ FlowReaction(c)' = FlowReaction(c)
           /\ FlowTime(c)' = FlowTime(c)
              \/ (c \notin column.kinetics /\ FlowTime(c) = 0 /\ FlowTime(c)' \in Nat),
         \A c \in Stagnant(column) : Rounds(c)' = Rounds(c),
         Order, Filed
  PROVE  Timed'
<1>1. KinTime' = KinTime /\ StagnantTime' = StagnantTime /\ Shifts' = Shifts
  BY SameTimes DEF Shifts
<1>2. ASSUME NEW c \in Mobile(column)
      PROVE  /\ given'[c].time <= Shifts' + RunsOf(c)' * KinTime' + FlowTime(c)'
             /\ c \in column.kinetics => given'[c].time = Shifts' + RunsOf(c)' * KinTime' + FlowTime(c)'
             /\ given'[c].reaction = Shifts' + RunsOf(c)' * KinTime' + FlowReaction(c)'
  <2> DEFINE total == Shifts + RunsOf(c) * KinTime
  <2>1. /\ given[c].time <= total + FlowTime(c)
        /\ c \in column.kinetics => given[c].time = total + FlowTime(c)
        /\ given[c].reaction = total + FlowReaction(c)
    BY DEF Timed
  <2>2. Shifts' + RunsOf(c)' * KinTime' = total
    BY <1>1, <1>2
  <2>3. total \in Int /\ given[c].time \in Int
    <3>1. RunsOf(c) \in Int /\ Shifts \in Int /\ KinTime \in Int
      BY Shares DEF Order, RunsOf, Shifts
    <3>2. c \in Cells
      BY Places
    <3> QED
      BY <3>1, <3>2 DEF Filed
  <2> HIDE DEF total
  <2>4. /\ given'[c].time <= total + FlowTime(c)'
        /\ c \in column.kinetics => given'[c].time = total + FlowTime(c)'
    BY <1>2, <2>1, <2>3, Places
  <2> QED
    BY <1>2, <2>1, <2>2, <2>4, Places
<1>3. ASSUME NEW c \in Stagnant(column)
      PROVE  /\ given'[c].time = Shifts' + Rounds(c)' * StagnantTime'
             /\ given'[c].reaction <= Shifts' + Rounds(c)' * KinTime'
  BY <1>1, <1>3, Places DEF Timed
<1>4. \A c \in Boundaries(column) : given'[c].time = 0 /\ given'[c].reaction = 0
  BY Numbers, Places DEF Timed
<1> QED
  BY <1>2, <1>3, <1>4 DEF Timed

LEMMA TimesStay ==
  ASSUME column \in Columns, Timed, pc # "idle", UNCHANGED <<column, given, step>>,
         \A c \in Mobile(column) :
           /\ RunsOf(c)' = RunsOf(c) /\ FlowReaction(c)' = FlowReaction(c)
           /\ FlowTime(c)' = FlowTime(c)
              \/ (c \notin column.kinetics /\ FlowTime(c) = 0 /\ FlowTime(c)' \in Nat),
         \A c \in Stagnant(column) : Rounds(c)' = Rounds(c),
         Order, Filed
  PROVE  Timed'
BY NothingGiven

More(c, time, fraction) ==
  [given EXCEPT ![c].time = @ + time, ![c].reaction = @ + fraction]

\* A calculation begins.
LEMMA TimesBegin ==
  ASSUME column \in Columns, Timed, pc # "idle", Order, Filed,
         NEW b \in Cells, NEW time \in Nat, NEW fraction \in Nat,
         UNCHANGED <<column, step>>,
         given' = More(b, time, fraction),
         \A c \in Mobile(column) : c # b =>
           RunsOf(c)' = RunsOf(c) /\ FlowReaction(c)' = FlowReaction(c) /\ FlowTime(c)' = FlowTime(c),
         \A c \in Stagnant(column) : c # b => Rounds(c)' = Rounds(c),
         b \in Mobile(column) =>
           /\ RunsOf(b)' * KinTime + FlowTime(b)' = RunsOf(b) * KinTime + FlowTime(b) + time
           /\ RunsOf(b)' * KinTime + FlowReaction(b)' = RunsOf(b) * KinTime + FlowReaction(b) + fraction
           /\ FlowTime(b) \in Int /\ FlowTime(b)' \in Int
           /\ FlowReaction(b) \in Int /\ FlowReaction(b)' \in Int /\ RunsOf(b)' \in Int,
         b \in Stagnant(column) =>
           /\ Rounds(b) \in Int /\ Rounds(b)' = Rounds(b) + 1
           /\ time = StagnantTime /\ fraction <= KinTime,
         b \in Boundaries(column) => time = 0 /\ fraction = 0
  PROVE  Timed'
<1>1. KinTime' = KinTime /\ StagnantTime' = StagnantTime /\ Shifts' = Shifts
  BY SameTimes DEF Shifts
<1>2. \A c \in Cells : given[c].time \in Int /\ given[c].reaction \in Int
  BY DEF Filed
<1>3. /\ given'[b].time = given[b].time + time /\ given'[b].reaction = given[b].reaction + fraction
      /\ \A c \in Cells : c # b => given'[c] = given[c]
  BY DEF Filed, More
<1>4. KinTime \in Int /\ StagnantTime \in Int /\ Shifts \in Int /\ \A c : RunsOf(c) \in Int
  BY Shares DEF Order, RunsOf, Shifts
<1>5. ASSUME NEW c \in Mobile(column)
      PROVE  /\ given'[c].time <= Shifts' + RunsOf(c)' * KinTime' + FlowTime(c)'
             /\ c \in column.kinetics => given'[c].time = Shifts' + RunsOf(c)' * KinTime' + FlowTime(c)'
             /\ given'[c].reaction = Shifts' + RunsOf(c)' * KinTime' + FlowReaction(c)'
  <2>1. /\ given[c].time <= Shifts + RunsOf(c) * KinTime + FlowTime(c)
        /\ c \in column.kinetics => given[c].time = Shifts + RunsOf(c) * KinTime + FlowTime(c)
        /\ given[c].reaction = Shifts + RunsOf(c) * KinTime + FlowReaction(c)
    BY DEF Timed
  <2>2. c \in Cells
    BY Places
  <2>3. CASE c # b
    BY <1>1, <1>3, <2>1, <2>2, <2>3
  <2>4. CASE c = b
    <3> DEFINE x == RunsOf(b) * KinTime
    <3> DEFINE y == RunsOf(b)' * KinTime
    <3>1. x \in Int /\ y \in Int
      BY <1>4, <1>5, <2>4
    <3>2. y + FlowTime(b)' = x + FlowTime(b) + time /\ y + FlowReaction(b)' = x + FlowReaction(b) + fraction
      BY <1>5, <2>4
    <3>3. /\ given[b].time <= Shifts + x + FlowTime(b)
          /\ b \in column.kinetics => given[b].time = Shifts + x + FlowTime(b)
          /\ given[b].reaction = Shifts + x + FlowReaction(b)
      BY <2>1, <2>4
    <3>4. /\ FlowTime(b) \in Int /\ FlowTime(b)' \in Int
          /\ FlowReaction(b) \in Int /\ FlowReaction(b)' \in Int
      BY <1>5, <2>4
    <3>5. Shifts' + RunsOf(b)' * KinTime' = Shifts + y
      BY <1>1
    <3> HIDE DEF x, y
    <3>6. /\ given'[b].time <= Shifts + y + FlowTime(b)'
          /\ b \in column.kinetics => given'[b].time = Shifts + y + FlowTime(b)'
          /\ given'[b].reaction = Shifts + y + FlowReaction(b)'
      BY <1>2, <1>3, <1>4, <3>1, <3>2, <3>3, <3>4
    <3> QED
      BY <2>4, <3>5, <3>6
  <2> QED
    BY <2>3, <2>4
<1>6. ASSUME NEW c \in Stagnant(column)
      PROVE  /\ given'[c].time = Shifts' + Rounds(c)' * StagnantTime'
             /\ given'[c].reaction <= Shifts' + Rounds(c)' * KinTime'
  <2>1. /\ given[c].time = Shifts + Rounds(c) * StagnantTime
        /\ given[c].reaction <= Shifts + Rounds(c) * KinTime
    BY DEF Timed
  <2>2. c \in Cells
    BY Places
  <2>3. CASE c # b
    BY <1>1, <1>3, <1>6, <2>1, <2>2, <2>3
  <2>4. CASE c = b
    <3>1. /\ Rounds(b) \in Int /\ Rounds(b)' = Rounds(b) + 1 /\ time = StagnantTime
          /\ fraction <= KinTime
      BY <1>6, <2>4
    <3>2. PICK n \in Int : n = Rounds(b)
      BY <3>1
    <3>3. (n + 1) * StagnantTime = n * StagnantTime + StagnantTime /\ n * StagnantTime \in Int
      BY <1>4, <3>2
    <3>4. (n + 1) * KinTime = n * KinTime + KinTime /\ n * KinTime \in Int
      BY <1>4, <3>2
    <3>5. given'[b].time = Shifts + (n + 1) * StagnantTime
      BY <1>2, <1>3, <1>4, <2>1, <2>4, <3>1, <3>2, <3>3
    <3>6. given'[b].reaction <= Shifts + (n + 1) * KinTime
      BY <1>2, <1>3, <1>4, <2>1, <2>4, <3>1, <3>2, <3>4
    <3> QED
      BY <1>1, <2>4, <3>1, <3>2, <3>5, <3>6
  <2> QED
    BY <2>3, <2>4
<1>7. ASSUME NEW c \in Boundaries(column) PROVE given'[c].time = 0 /\ given'[c].reaction = 0
  <2>1. c \in Cells /\ given[c].time = 0 /\ given[c].reaction = 0
    BY Numbers, Places DEF Timed
  <2>2. CASE c = b
    BY <1>3, <1>7, <2>1, <2>2
  <2>3. CASE c # b
    BY <1>3, <2>1, <2>3
  <2> QED
    BY <2>2, <2>3
<1> QED
  BY <1>5, <1>6, <1>7 DEF Timed

LEMMA InCalculationTimes ==
  ASSUME Kept, Order, Timed, Filed, Integrate \/ LastCalculation
  PROVE  Order' /\ Timed'
<1>1. /\ UNCHANGED <<column, pc, place, calc, given>> /\ stage # "none" /\ stage' # "none"
      /\ UNCHANGED <<step, mixrun, flown, todo, beside, left>>
  BY DEF Integrate, LastCalculation, place
<1>2. column \in Columns /\ pc # "idle"
  BY <1>1 DEF Kept, Typed, Calculation, Doing
<1>3. AfterFlow' = AfterFlow /\ StagnantRun' = StagnantRun /\ RunsBefore' = RunsBefore
  BY <1>1, SameTimes DEF AfterFlow, StagnantRun
<1>4. \A c : (Begun(c)' <=> Begun(c)) /\ (BegunBeside(c)' <=> BegunBeside(c))
  BY <1>1 DEF Begun, BegunBeside
<1>5. \A c : RunsOf(c)' = RunsOf(c) /\ Rounds(c)' = Rounds(c)
  BY <1>1, <1>3, <1>4 DEF RunsOf, Rounds
<1>6. \A c : FlowTime(c)' = FlowTime(c) /\ FlowReaction(c)' = FlowReaction(c)
  BY <1>1, <1>3, <1>4, SameTimes DEF FlowTime, FlowReaction
<1>7. Timed'
  BY <1>1, <1>2, <1>5, <1>6, TimesStay
<1>8. Order'
  BY <1>1, <1>3 DEF Order
<1> QED
  BY <1>7, <1>8

LEMMA FirstDoneTimes ==
  ASSUME Kept, Order, Timed, Filed, FirstDone
  PROVE  Order' /\ Timed'
<1>1. /\ UNCHANGED <<column, given, step, mixrun, flown, beside, left>> /\ pc = "first" /\ pc' \in {"first", "step"}
  BY DEF FirstDone, Saver
<1>2. column \in Columns /\ mixrun = 0 /\ ~flown /\ ~flown' /\ column.kind # "advection"
  BY <1>1 DEF Kept, Typed, Order
<1>3. ~AfterFlow /\ ~StagnantRun /\ ~AfterFlow' /\ ~StagnantRun' /\ RunsBefore' = RunsBefore
  BY <1>1, SameTimes DEF AfterFlow, StagnantRun
<1>4. \A c : RunsOf(c)' = RunsOf(c) /\ Rounds(c)' = Rounds(c)
  BY <1>1, <1>3 DEF RunsOf, Rounds
<1>5. \A c : FlowTime(c)' = FlowTime(c) /\ FlowReaction(c)' = FlowReaction(c)
  BY <1>1, <1>2, <1>3 DEF FlowTime, FlowReaction
<1>6. Timed'
  BY <1>1, <1>2, <1>4, <1>5, TimesStay
<1>7. Order'
  <2>1. column.kind = "transport"
    BY <1>2, Numbers
  <2> QED
    BY <1>1, <1>2, <1>3, <2>1 DEF Order
<1> QED
  BY <1>6, <1>7

LEMMA HalfDoneTimes ==
  ASSUME Kept, Order, Timed, Filed, HalfDone
  PROVE  Order' /\ Timed'
<1>1. /\ UNCHANGED <<column, given, step, mixrun, flown>> /\ pc = "half" /\ pc' = "flow" /\ stage # "none"
  BY DEF HalfDone, Saver, place
<1>2. column \in Columns /\ ~flown /\ ~flown' /\ column.kind # "advection"
  BY <1>1, Numbers DEF Kept, Typed, Order
<1>3. ~AfterFlow /\ ~StagnantRun /\ ~AfterFlow' /\ ~StagnantRun' /\ RunsBefore' = RunsBefore
  BY <1>1, SameTimes DEF AfterFlow, StagnantRun
<1>4. \A c : RunsOf(c)' = RunsOf(c) /\ Rounds(c)' = Rounds(c)
  BY <1>1, <1>3 DEF RunsOf, Rounds
<1>5. \A c : FlowTime(c)' = FlowTime(c) /\ FlowReaction(c)' = FlowReaction(c)
  BY <1>1, <1>2, <1>3, SameTimes DEF FlowTime, FlowReaction
<1>6. Timed'
  BY <1>1, <1>2, <1>4, <1>5, TimesStay
<1>7. Order'
  BY <1>1, <1>2, <1>3 DEF Order
<1> QED
  BY <1>6, <1>7

LEMMA FlowTimes ==
  ASSUME Kept, Order, Timed, Filed, Flow
  PROVE  Order' /\ Timed'
<1>1. /\ UNCHANGED <<column, given, step, beside, left, stage>> /\ pc = "flow" /\ flown' = TRUE
      /\ todo' = Mobile(column)
  BY DEF Flow, Calculating
<1>2. column \in Columns /\ stage = "none" /\ stage' = "none" /\ ~flown
  BY <1>1, Between, Numbers DEF Kept, Typed, Order
<1>3. \A c : ~(c \in Mobile(column) /\ Begun(c)')
  BY <1>1, <1>2 DEF Begun
<1>4. \A c \in Stagnant(column) : ~BegunBeside(c)'
  BY <1>1, <1>2, Owners DEF BegunBeside
<1>5. ~AfterFlow /\ ~StagnantRun
  BY <1>1 DEF AfterFlow, StagnantRun
<1>6. CASE column.kind = "advection" /\ pc' = "mix" /\ mixrun' = 1
  <2>1. mixrun = 0 /\ Stagnant(column) = {} /\ ~AfterFlow' /\ ~StagnantRun'
    BY <1>1, <1>2, <1>6, Shares DEF Order, AfterFlow, StagnantRun
  <2>2. \A c \in Mobile(column) : RunsOf(c)' = RunsOf(c)
    BY <1>1, <1>3, <1>6, <2>1 DEF RunsOf
  <2>3. \A c : FlowTime(c)' = FlowTime(c) /\ FlowReaction(c)' = FlowReaction(c)
    BY <1>1, <1>6 DEF FlowTime, FlowReaction
  <2>4. Timed'
    BY <1>1, <1>2, <2>1, <2>2, <2>3, TimesStay
  <2>5. Order'
    BY <1>1, <1>6, <2>1, Numbers, <1>2 DEF Order
  <2> QED
    BY <2>4, <2>5
<1>7. CASE column.kind = "transport" /\ pc' = "cells" /\ mixrun' = mixrun
  <2>1. mixrun = RunsBefore /\ column.flow # 0 /\ AfterFlow' /\ ~StagnantRun' /\ RunsBefore' = RunsBefore
    BY <1>1, <1>7, SameTimes DEF Order, AfterFlow, StagnantRun
  <2>2. \A c : RunsOf(c)' = RunsOf(c)
    BY <1>1, <1>7 DEF RunsOf
  <2>3. \A c \in Mobile(column) : FlowTime(c)' = FlowTime(c) /\ FlowReaction(c)' = FlowReaction(c)
    BY <1>1, <1>2, <1>3, <1>7, <2>1, SameTimes DEF FlowTime, FlowReaction
  <2>4. column.mixes = 0 => mixrun = 0
    BY <1>2, <2>1, Before, Numbers
  <2>5. \A c \in Stagnant(column) : Rounds(c)' = Rounds(c)
    BY <1>1, <1>4, <1>5, <1>7, <2>1, <2>4 DEF Rounds
  <2>6. Timed'
    BY <1>1, <1>2, <2>2, <2>3, <2>5, TimesStay
  <2>7. Order'
    BY <1>1, <1>7, <2>1 DEF Order
  <2> QED
    BY <2>6, <2>7
<1> QED
  BY <1>6, <1>7 DEF Flow

LEMMA OneCellDoneTimes ==
  ASSUME Kept, Order, Timed, Filed, OneCellDone
  PROVE  Order' /\ Timed'
<1> PICK b : b = calc.cell
  OBVIOUS
<1>1. /\ UNCHANGED <<column, given, step, mixrun, flown, calc>> /\ pc = "cells" /\ stage = "done" /\ stage' = "none"
      /\ todo' = todo \ {b}
      /\ \/ /\ column.mixes = 0 /\ Beside(column, b) # {}
            /\ pc' = "stagnant" /\ beside' = b /\ left' = Group(b)
         \/ /\ column.mixes > 0 \/ Beside(column, b) = {}
            /\ UNCHANGED <<pc, beside, left>>
  BY DEF OneCellDone, Saver
<1>2. /\ column \in Columns /\ b \in todo /\ b \in Mobile(column) /\ beside = 0 /\ left = {}
      /\ column.kind = "transport" /\ column.mixes \in Nat
  BY <1>1, Numbers DEF Kept, Typed, Loops, Calculation, Doing, Order
<1>3. AfterFlow /\ AfterFlow' /\ ~StagnantRun /\ ~StagnantRun' /\ RunsBefore' = RunsBefore
  BY <1>1, <1>2, SameTimes DEF AfterFlow, StagnantRun
<1>4. \A c : Begun(c)' <=> Begun(c)
  BY <1>1, <1>2 DEF Begun
<1>5. \A c : RunsOf(c)' = RunsOf(c)
  BY <1>1 DEF RunsOf
<1>6. \A c : FlowTime(c)' = FlowTime(c) /\ FlowReaction(c)' = FlowReaction(c)
  BY <1>1, <1>3, <1>4, SameTimes DEF FlowTime, FlowReaction
<1>7. ASSUME NEW c \in Stagnant(column) PROVE Rounds(c)' = Rounds(c)
  <2>1. CASE column.mixes # 0
    BY <1>1, <1>2, <1>3, <2>1 DEF Rounds
  <2>2. CASE column.mixes = 0
    <3>1. c \in Beside(column, b) => ~BegunBeside(c) /\ ~BegunBeside(c)'
      BY <1>1, <1>2, <2>2 DEF BegunBeside, Group
    <3>2. c \notin left'  \/ c \in Beside(column, b)
      BY <1>1, <1>2, Groups DEF Group
    <3>3. c \notin Beside(column, b) => (BegunBeside(c)' <=> BegunBeside(c))
      BY <1>1, <1>2, <3>2 DEF BegunBeside
    <3>4. BegunBeside(c)' <=> BegunBeside(c)
      BY <3>1, <3>3
    <3> QED
      BY <1>1, <1>3, <3>4 DEF Rounds
  <2> QED
    BY <2>1, <2>2
<1>8. Timed'
  BY <1>1, <1>2, <1>5, <1>6, <1>7, TimesStay
<1>9. Order'
  <2>1. pc' \in {"cells", "stagnant"} /\ ~(pc' = "stagnant" /\ beside' = 0)
    BY <1>1, <1>2, Numbers
  <2> QED
    BY <1>1, <1>2, <1>3, <2>1 DEF Order
<1> QED
  BY <1>8, <1>9

LEMMA DisperseDoneTimes ==
  ASSUME Kept, Order, Timed, Filed, DisperseDone
  PROVE  Order' /\ Timed'
<1> PICK b : b = calc.cell
  OBVIOUS
<1>1. /\ UNCHANGED <<column, pc, given, step, mixrun, flown, calc, beside, left>> /\ pc = "mix"
      /\ stage = "done" /\ stage' = "none" /\ todo' = todo \ {b}
  BY DEF DisperseDone, Saver
<1>2. column \in Columns /\ b \in todo
  BY <1>1 DEF Kept, Typed, Calculation, Doing, Lowest
<1>3. AfterFlow' = AfterFlow /\ StagnantRun' = StagnantRun /\ RunsBefore' = RunsBefore /\ ~AfterFlow
  BY <1>1, SameTimes DEF AfterFlow, StagnantRun
<1>4. \A c : Begun(c)' <=> Begun(c)
  BY <1>1, <1>2 DEF Begun
<1>5. \A c : RunsOf(c)' = RunsOf(c) /\ Rounds(c)' = Rounds(c)
  BY <1>1, <1>4 DEF RunsOf, Rounds
<1>6. \A c : FlowTime(c)' = FlowTime(c) /\ FlowReaction(c)' = FlowReaction(c)
  BY <1>1, <1>3, <1>4, SameTimes DEF FlowTime, FlowReaction
<1>7. Timed'
  BY <1>1, <1>2, <1>5, <1>6, TimesStay
<1>8. Order'
  BY <1>1, <1>3 DEF Order
<1> QED
  BY <1>7, <1>8

LEMMA NextBesideTimes ==
  ASSUME Kept, Order, Timed, Filed, NextBeside
  PROVE  Order' /\ Timed'
<1>1. PICK i \in Lowest(todo) :
        /\ pc = "stagnant" /\ beside = 0 /\ todo' = todo \ {i} /\ beside' = i /\ left' = Group(i)
        /\ UNCHANGED <<pc, column, step, mixrun, flown, given, stage, calc>>
  BY DEF NextBeside, Calculating
<1>2. /\ column \in Columns /\ stage = "none" /\ left = {} /\ i \in todo /\ i \in Mobile(column) /\ i # 0
      /\ column.kind = "transport" /\ column.mixes > 0
  BY <1>1, Between, Numbers DEF Kept, Typed, Loops, Lowest, Order
<1>3. ~AfterFlow /\ ~AfterFlow' /\ StagnantRun /\ StagnantRun' /\ RunsBefore' = RunsBefore
  BY <1>1, <1>2, SameTimes DEF AfterFlow, StagnantRun
<1>4. \A c : RunsOf(c)' = RunsOf(c)
  BY <1>1 DEF RunsOf
<1>5. \A c : FlowTime(c)' = FlowTime(c) /\ FlowReaction(c)' = FlowReaction(c)
  BY <1>1, <1>3, SameTimes DEF FlowTime, FlowReaction
<1>6. ASSUME NEW c \in Stagnant(column) PROVE Rounds(c)' = Rounds(c)
  <2>1. c \in Beside(column, i) => ~BegunBeside(c) /\ ~BegunBeside(c)'
    BY <1>1, <1>2 DEF BegunBeside, Group
  <2>2. c \notin left'  \/ c \in Beside(column, i)
    BY <1>1, <1>2, Groups DEF Group
  <2>3. c \notin Beside(column, i) => (BegunBeside(c)' <=> BegunBeside(c))
    BY <1>1, <1>2, <2>2 DEF BegunBeside
  <2>4. BegunBeside(c)' <=> BegunBeside(c)
    BY <2>1, <2>3
  <2> QED
    BY <1>1, <1>3, <2>4 DEF Rounds
<1>7. Timed'
  BY <1>1, <1>2, <1>4, <1>5, <1>6, TimesStay
<1>8. Order'
  BY <1>1, <1>2, <1>3 DEF Order
<1> QED
  BY <1>7, <1>8

LEMMA StagnantCellDoneTimes ==
  ASSUME Kept, Order, Timed, Filed, StagnantCellDone
  PROVE  Order' /\ Timed'
<1> PICK b : b = calc.cell
  OBVIOUS
<1>1. /\ UNCHANGED <<column, pc, given, step, mixrun, flown, calc, beside, todo>> /\ pc = "stagnant"
      /\ stage = "done" /\ stage' = "none" /\ left' = left \ {b}
  BY DEF StagnantCellDone, Saver
<1>2. column \in Columns /\ b \in left
  BY <1>1 DEF Kept, Typed, Calculation, Doing
<1>3. AfterFlow' = AfterFlow /\ StagnantRun' = StagnantRun /\ RunsBefore' = RunsBefore
  BY <1>1, SameTimes DEF AfterFlow, StagnantRun
<1>4. \A c : (Begun(c)' <=> Begun(c)) /\ (BegunBeside(c)' <=> BegunBeside(c))
  BY <1>1, <1>2 DEF Begun, BegunBeside
<1>5. \A c : RunsOf(c)' = RunsOf(c) /\ Rounds(c)' = Rounds(c)
  BY <1>1, <1>3, <1>4 DEF RunsOf, Rounds
<1>6. \A c : FlowTime(c)' = FlowTime(c) /\ FlowReaction(c)' = FlowReaction(c)
  BY <1>1, <1>3, <1>4, SameTimes DEF FlowTime, FlowReaction
<1>7. Timed'
  BY <1>1, <1>2, <1>5, <1>6, TimesStay
<1>8. Order'
  BY <1>1, <1>3 DEF Order
<1> QED
  BY <1>7, <1>8

LEMMA GroupDoneTimes ==
  ASSUME Kept, Order, Timed, Filed, GroupDone
  PROVE  Order' /\ Timed'
<1>1. /\ UNCHANGED <<column, given, step, mixrun, flown, calc, todo, left, stage>> /\ pc = "stagnant"
      /\ stage = "none" /\ beside' = 0
      /\ pc' = IF column.mixes = 0 THEN "cells" ELSE "stagnant"
  BY DEF GroupDone, Calculating
<1>2. column \in Columns /\ column.mixes \in Nat /\ column.kind = "transport"
  BY <1>1, Numbers DEF Kept, Typed, Order
<1>3. AfterFlow' = AfterFlow /\ StagnantRun' = StagnantRun /\ RunsBefore' = RunsBefore
  BY <1>1, <1>2, SameTimes DEF AfterFlow, StagnantRun
<1>4. \A c : (Begun(c)' <=> Begun(c)) /\ (BegunBeside(c)' <=> BegunBeside(c))
  BY <1>1 DEF Begun, BegunBeside
<1>5. \A c : RunsOf(c)' = RunsOf(c) /\ Rounds(c)' = Rounds(c)
  BY <1>1, <1>3, <1>4 DEF RunsOf, Rounds
<1>6. \A c : FlowTime(c)' = FlowTime(c) /\ FlowReaction(c)' = FlowReaction(c)
  BY <1>1, <1>3, <1>4, SameTimes DEF FlowTime, FlowReaction
<1>7. Timed'
  BY <1>1, <1>2, <1>5, <1>6, TimesStay
<1>8. Order'
  <2>1. 0 \notin todo
    BY <1>1, <1>2, Numbers DEF Kept, Loops
  <2> QED
    BY <1>1, <1>2, <1>3, <2>1 DEF Order
<1> QED
  BY <1>7, <1>8

\* The end of a mixing run, or of the cells after the flow: every cell has had its part.
LEMMA AfterRunTimes ==
  ASSUME column \in Columns, column.kind = "transport", Order, Timed, Filed, pc # "idle",
         stage' = "none", UNCHANGED <<column, given>>, step <= MaxShifts, mixrun \in 0..column.mixes,
         AfterRun(mixrun),
         flown => column.flow # 0 /\ mixrun >= RunsBefore,
         column.flow # 0 /\ ~flown => mixrun <= RunsBefore,
         \A c \in Mobile(column) :
           /\ RunsOf(c) = mixrun
           /\ FlowTime(c) = (IF flown THEN KinTime ELSE 0) /\ FlowReaction(c) = FlowTime(c),
         \A c \in Stagnant(column) : Rounds(c) = IF flown /\ column.mixes = 0 THEN 1 ELSE mixrun
  PROVE  Order' /\ Timed'
<1>1. RunsBefore' = RunsBefore /\ RunsBefore \in Nat /\ column.mixes \in Nat /\ column.flow \in Int
  BY SameTimes, Before, Numbers
<1>2. step \in 1..(MaxShifts + 1) /\ mixrun \in Nat /\ flown \in BOOLEAN
  BY DEF Order
<1>3. CASE /\ column.flow # 0 /\ ~flown /\ mixrun >= RunsBefore
           /\ pc' = "half" /\ todo' = {} /\ UNCHANGED <<step, mixrun, flown>>
  <2>1. ~AfterFlow' /\ ~StagnantRun' /\ mixrun = RunsBefore
    BY <1>1, <1>2, <1>3 DEF AfterFlow, StagnantRun
  <2>2. \A c \in Mobile(column) : RunsOf(c)' = RunsOf(c)
    BY <1>3 DEF RunsOf
  <2>3. \A c \in Mobile(column) : FlowTime(c)' = FlowTime(c) /\ FlowReaction(c)' = FlowReaction(c)
    BY <1>3, <2>1 DEF FlowTime, FlowReaction
  <2>4. \A c \in Stagnant(column) : Rounds(c)' = Rounds(c)
    BY <1>3, <2>1 DEF Rounds
  <2>5. Timed'
    BY <1>3, <2>2, <2>3, <2>4, TimesStay
  <2>6. Order'
    BY <1>1, <1>2, <1>3, <2>1 DEF Order
  <2> QED
    BY <2>5, <2>6
<1>4. CASE /\ flown \/ mixrun < RunsBefore \/ column.flow = 0
           /\ mixrun < column.mixes
           /\ pc' = "mix" /\ todo' = Mobile(column) /\ mixrun' = mixrun + 1 /\ UNCHANGED <<step, flown>>
  <2>1. ~AfterFlow' /\ ~StagnantRun' /\ mixrun' - 1 = mixrun /\ column.mixes # 0
    BY <1>1, <1>2, <1>4 DEF AfterFlow, StagnantRun
  <2>2. \A c \in Mobile(column) : RunsOf(c)' = RunsOf(c)
    <3>1. \A c \in Mobile(column) : ~Begun(c)'
      BY <1>4 DEF Begun
    <3> QED
      BY <1>4, <2>1, <3>1 DEF RunsOf
  <2>3. \A c \in Mobile(column) : FlowTime(c)' = FlowTime(c) /\ FlowReaction(c)' = FlowReaction(c)
    <3>1. KinTime' = KinTime
      BY SameTimes
    <3> QED
      BY <1>4, <2>1, <3>1 DEF FlowTime, FlowReaction
  <2>4. \A c \in Stagnant(column) : Rounds(c)' = Rounds(c)
    BY <1>4, <2>1 DEF Rounds
  <2>5. Timed'
    BY <1>4, <2>2, <2>3, <2>4, TimesStay
  <2>6. Order'
    <3>1. mixrun' \in 1..column.mixes /\ (flown <=> column.flow # 0 /\ mixrun' > RunsBefore)
      BY <1>1, <1>2, <1>4
    <3> QED
      BY <1>1, <1>2, <1>4, <2>1, <3>1 DEF Order
  <2> QED
    BY <2>5, <2>6
<1>5. CASE /\ flown \/ column.flow = 0
           /\ mixrun = column.mixes
           /\ pc' = "step" /\ todo' = {} /\ step' = step + 1 /\ flown' = FALSE /\ mixrun' = 0
  <2>1. ~AfterFlow' /\ ~StagnantRun'
    BY <1>5 DEF AfterFlow, StagnantRun
  <2> DEFINE k == KinTime
  <2> DEFINE s == Shift
  <2> DEFINE before == Shifts
  <2>2. /\ k \in Nat /\ s \in Nat /\ before \in Int /\ Shifts' = before + s /\ Shifts' \in Int
    <3>1. k \in Nat /\ s \in Nat
      BY Shares
    <3>2. Shifts' = (step' - 1) * s
      BY SameTimes DEF Shifts
    <3> HIDE DEF s, k
    <3>3. (step' - 1) * s = (step - 1) * s + s /\ (step - 1) * s \in Int
      BY <1>2, <1>5, <3>1
    <3> QED
      BY <3>1, <3>2, <3>3 DEF Shifts, s
  <2>3. mixrun * k + (IF flown THEN k ELSE 0) = s
    BY <1>5, <2>2, Shares
  <2>4. ASSUME NEW c \in Mobile(column)
        PROVE  /\ given'[c].time <= Shifts' + RunsOf(c)' * KinTime' + FlowTime(c)'
               /\ c \in column.kinetics => given'[c].time = Shifts' + RunsOf(c)' * KinTime' + FlowTime(c)'
               /\ given'[c].reaction = Shifts' + RunsOf(c)' * KinTime' + FlowReaction(c)'
    <3>1. /\ given[c].time <= before + mixrun * k + (IF flown THEN k ELSE 0)
          /\ c \in column.kinetics => given[c].time = before + mixrun * k + (IF flown THEN k ELSE 0)
          /\ given[c].reaction = before + mixrun * k + (IF flown THEN k ELSE 0)
      BY <2>4 DEF Timed
    <3>2. RunsOf(c)' = 0 /\ FlowTime(c)' = 0 /\ FlowReaction(c)' = 0
      BY <1>5, <2>1 DEF RunsOf, FlowTime, FlowReaction
    <3>3. KinTime' = k
      BY SameTimes
    <3>4. mixrun * k \in Int /\ 0 * k = 0
      BY <1>2, <2>2
    <3> HIDE DEF k, s, before
    <3>5. Shifts' + RunsOf(c)' * KinTime' + FlowTime(c)' = before + s
          /\ Shifts' + RunsOf(c)' * KinTime' + FlowReaction(c)' = before + s
      BY <2>2, <3>2, <3>3, <3>4
    <3>6. before + mixrun * k + (IF flown THEN k ELSE 0) = before + s
      BY <2>2, <2>3, <3>4
    <3> QED
      BY <3>1, <3>5, <3>6
  <2>5. ASSUME NEW c \in Stagnant(column)
        PROVE  /\ given'[c].time = Shifts' + Rounds(c)' * StagnantTime'
               /\ given'[c].reaction <= Shifts' + Rounds(c)' * KinTime'
    <3> DEFINE t == StagnantTime
    <3> DEFINE rounds == IF flown /\ column.mixes = 0 THEN 1 ELSE mixrun
    <3>1. given[c].time = before + rounds * t /\ given[c].reaction <= before + rounds * k
      BY <2>5 DEF Timed
    <3>2. Rounds(c)' = 0
      BY <1>5, <2>1 DEF Rounds
    <3>3. KinTime' = k /\ StagnantTime' = t /\ t \in Nat
      BY SameTimes, Shares
    <3>4. rounds * t = s /\ rounds * k <= s
      <4>1. CASE column.mixes = 0
        <5>1. flown /\ rounds = 1 /\ column.flow # 0
          BY <1>5, <4>1, Shares
        <5> HIDE DEF rounds
        <5>2. t = s /\ k = s
          BY <4>1, <5>1, <2>2, Shares
        <5> QED
          BY <2>2, <5>1, <5>2
      <4>2. CASE column.mixes # 0
        <5>1. rounds = column.mixes /\ column.mixes > 0
          BY <1>1, <1>5, <4>2
        <5>2. column.mixes * t = s
          BY <5>1, Shares
        <5>3. column.mixes * k <= s
          BY <1>5, <2>2, <2>3, <1>1
        <5> QED
          BY <5>1, <5>2, <5>3
      <4> QED
        BY <4>1, <4>2
    <3>5. given[c].reaction \in Int
      BY Places DEF Filed
    <3>6. rounds * k \in Int /\ 0 * t = 0 /\ 0 * k = 0
      BY <1>1, <1>2, <2>2, <3>3
    <3> HIDE DEF t, rounds, k, s, before
    <3> QED
      BY <2>2, <3>1, <3>2, <3>3, <3>4, <3>5, <3>6
  <2>6. \A c \in Boundaries(column) : given'[c].time = 0 /\ given'[c].reaction = 0
    BY DEF Timed
  <2>7. Timed'
    BY <2>4, <2>5, <2>6 DEF Timed
  <2>8. Order'
    <3>1. step' \in 1..(MaxShifts + 1) /\ mixrun' \in 0..(column.mixes + 1)
      BY <1>1, <1>2, <1>5, BoundsAssumption
    <3>2. flown' \in BOOLEAN /\ ~flown' /\ mixrun' = 0 /\ pc' = "step" /\ column' = column
      BY <1>5
    <3> QED
      BY <2>1, <3>1, <3>2 DEF Order
  <2> QED
    BY <2>7, <2>8
<1> QED
  BY <1>3, <1>4, <1>5 DEF AfterRun

LEMMA StepTimes ==
  ASSUME Kept, Order, Timed, Filed, Step
  PROVE  Order' /\ Timed'
<1>1. /\ UNCHANGED <<column, given, stage>> /\ pc = "step" /\ step <= MaxShifts
  BY DEF Step, Calculating
<1>2. /\ column \in Columns /\ stage = "none" /\ mixrun = 0 /\ ~flown /\ column.mixes \in Nat
  BY <1>1, Between, Numbers DEF Kept, Typed, Order
<1>3. ~AfterFlow /\ ~StagnantRun
  BY <1>1 DEF AfterFlow, StagnantRun
<1>4. \A c : RunsOf(c) = mixrun /\ FlowTime(c) = 0 /\ FlowReaction(c) = 0 /\ Rounds(c) = mixrun
  BY <1>1, <1>2, <1>3 DEF RunsOf, FlowTime, FlowReaction, Rounds
<1>5. CASE column.kind = "advection" /\ pc' = "flow" /\ UNCHANGED place
  <2>1. UNCHANGED <<step, mixrun, flown>> /\ ~AfterFlow' /\ ~StagnantRun'
    BY <1>5 DEF place, AfterFlow, StagnantRun
  <2>2. \A c : RunsOf(c)' = RunsOf(c) /\ Rounds(c)' = Rounds(c)
    BY <1>4, <1>5, <2>1 DEF RunsOf, Rounds
  <2>3. \A c : FlowTime(c)' = FlowTime(c) /\ FlowReaction(c)' = FlowReaction(c)
    BY <1>1, <1>4, <1>5, <2>1 DEF FlowTime, FlowReaction
  <2>4. Timed'
    BY <1>1, <1>2, <2>1, <2>2, <2>3, TimesStay
  <2>5. Order'
    BY <1>1, <1>2, <1>5, <2>1 DEF Order
  <2> QED
    BY <2>4, <2>5
<1>6. CASE column.kind = "transport" /\ AfterRun(0)
  <2>1. AfterRun(mixrun) /\ RunsBefore \in Nat
    BY <1>2, <1>6, Before
  <2> QED
    BY <1>1, <1>2, <1>4, <1>6, <2>1, AfterRunTimes
<1> QED
  BY <1>5, <1>6 DEF Step

LEMMA AllCellsDoneTimes ==
  ASSUME Kept, Order, Timed, Filed, AllCellsDone
  PROVE  Order' /\ Timed'
<1>1. /\ UNCHANGED <<column, given, stage>> /\ pc = "cells" /\ todo = {} /\ stage = "none"
      /\ AfterRun(RunsBefore)
  BY DEF AllCellsDone, Calculating
<1>2. /\ column \in Columns /\ column.kind = "transport" /\ step <= MaxShifts /\ left = {}
  BY <1>1, Numbers DEF Kept, Typed, Loops, Order
<1>3. AfterFlow /\ ~StagnantRun /\ flown /\ mixrun = RunsBefore /\ column.flow # 0
  BY <1>1, <1>2 DEF AfterFlow, StagnantRun, Order
<1>4. \A c : Begun(c) /\ BegunBeside(c)
  BY <1>1, <1>2 DEF Begun, BegunBeside
<1>5. \A c : RunsOf(c) = mixrun /\ FlowTime(c) = KinTime /\ FlowReaction(c) = KinTime
  BY <1>1, <1>2, <1>3, <1>4 DEF RunsOf, FlowTime, FlowReaction
<1>6. \A c : Rounds(c) = IF flown /\ column.mixes = 0 THEN 1 ELSE mixrun
  BY <1>1, <1>3, <1>4 DEF Rounds
<1>7. AfterRun(mixrun) /\ mixrun \in 0..column.mixes /\ mixrun >= RunsBefore
  BY <1>1, <1>2, <1>3, Before, Numbers
<1> QED
  BY <1>1, <1>2, <1>3, <1>5, <1>6, <1>7, AfterRunTimes

LEMMA StagnantDoneTimes ==
  ASSUME Kept, Order, Timed, Filed, StagnantDone
  PROVE  Order' /\ Timed'
<1>1. /\ UNCHANGED <<column, given, stage>> /\ pc = "stagnant" /\ todo = {} /\ beside = 0
      /\ AfterRun(mixrun)
  BY DEF StagnantDone, Calculating
<1>2. /\ column \in Columns /\ column.kind = "transport" /\ step <= MaxShifts /\ left = {}
      /\ column.mixes > 0 /\ stage = "none" /\ column.mixes \in Nat
  BY <1>1, Between, Numbers DEF Kept, Typed, Loops, Order
<1>3. ~AfterFlow /\ StagnantRun /\ mixrun \in 1..column.mixes
      /\ (flown <=> column.flow # 0 /\ mixrun > RunsBefore)
  BY <1>1, <1>2 DEF AfterFlow, StagnantRun, Order
<1>4. \A c : BegunBeside(c)
  BY <1>1, <1>2 DEF BegunBeside
<1>5. \A c : RunsOf(c) = mixrun
  BY <1>1 DEF RunsOf
<1>6. \A c : FlowTime(c) = (IF flown THEN KinTime ELSE 0) /\ FlowReaction(c) = FlowTime(c)
  BY <1>1, <1>2, <1>3 DEF FlowTime, FlowReaction
<1>7. \A c : Rounds(c) = IF flown /\ column.mixes = 0 THEN 1 ELSE mixrun
  BY <1>1, <1>2, <1>3, <1>4 DEF Rounds
<1>8. mixrun \in 0..column.mixes /\ RunsBefore \in Nat
  BY <1>2, <1>3, Before
<1>9. /\ flown => column.flow # 0 /\ mixrun >= RunsBefore
      /\ column.flow # 0 /\ ~flown => mixrun <= RunsBefore
  BY <1>3, <1>8
<1> QED
  BY <1>1, <1>2, <1>5, <1>6, <1>7, <1>8, <1>9, AfterRunTimes

LEMMA MixingRunDoneTimes ==
  ASSUME Kept, Order, Timed, Filed, MixingRunDone
  PROVE  Order' /\ Timed'
<1>1. /\ UNCHANGED <<column, given, stage>> /\ pc = "mix" /\ todo = {} /\ stage = "none"
  BY DEF MixingRunDone, Calculating
<1>2. /\ column \in Columns /\ step <= MaxShifts /\ left = {} /\ beside = 0
      /\ step \in 1..(MaxShifts + 1) /\ mixrun \in Int /\ column.mixes \in Nat
  BY <1>1, Numbers DEF Kept, Typed, Loops, Order
<1>3. ~AfterFlow /\ ~StagnantRun /\ \A c : Begun(c)
  BY <1>1 DEF AfterFlow, StagnantRun, Begun
<1>4. \A c : RunsOf(c) = mixrun /\ Rounds(c) = mixrun - 1
  BY <1>1, <1>3 DEF RunsOf, Rounds
<1>5. CASE /\ column.kind = "advection"
           /\ pc' = "step" /\ step' = step + 1 /\ mixrun' = 0 /\ flown' = FALSE
  <2>1. ~AfterFlow' /\ ~StagnantRun' /\ mixrun = 1 /\ Stagnant(column) = {} /\ KinTime = Shift
        /\ Shift \in Nat
    BY <1>1, <1>2, <1>5, Shares DEF AfterFlow, StagnantRun, Order
  <2>2. Shifts' = Shifts + Shift /\ Shifts \in Int
    <3> DEFINE s == Shift
    <3>1. Shifts' = (step' - 1) * s
      BY <1>1, SameTimes DEF Shifts
    <3> HIDE DEF s
    <3>2. s \in Nat
      BY <2>1 DEF s
    <3>3. (step' - 1) * s = (step - 1) * s + s /\ (step - 1) * s \in Int
      BY <1>2, <1>5, <3>2
    <3> QED
      BY <3>1, <3>3 DEF Shifts, s
  <2>3. ASSUME NEW c \in Mobile(column)
        PROVE  /\ given'[c].time <= Shifts' + RunsOf(c)' * KinTime' + FlowTime(c)'
               /\ c \in column.kinetics => given'[c].time = Shifts' + RunsOf(c)' * KinTime' + FlowTime(c)'
               /\ given'[c].reaction = Shifts' + RunsOf(c)' * KinTime' + FlowReaction(c)'
    <3>1. FlowTime(c) = 0 /\ FlowReaction(c) = 0
      BY <1>5, Numbers DEF FlowTime, FlowReaction
    <3>2. RunsOf(c)' = 0 /\ FlowTime(c)' = 0 /\ FlowReaction(c)' = 0
      BY <1>1, <1>5 DEF RunsOf, FlowTime, FlowReaction
    <3>3. KinTime' = Shift
      BY <1>1, <2>1, SameTimes
    <3>4. /\ given[c].time <= Shifts + 1 * Shift + 0
          /\ c \in column.kinetics => given[c].time = Shifts + 1 * Shift + 0
          /\ given[c].reaction = Shifts + 1 * Shift + 0
      BY <1>1, <1>4, <2>1, <2>3, <3>1 DEF Timed
    <3>5. 1 * Shift = Shift /\ 0 * Shift = 0
      BY <2>1
    <3> QED
      BY <1>1, <2>1, <2>2, <3>2, <3>3, <3>4, <3>5
  <2>4. \A c \in Boundaries(column) : given'[c].time = 0 /\ given'[c].reaction = 0
    BY <1>1 DEF Timed
  <2>5. Timed'
    BY <1>1, <2>1, <2>3, <2>4 DEF Timed
  <2>6. Order'
    <3>1. step' \in 1..(MaxShifts + 1) /\ mixrun' \in 0..(column.mixes + 1)
      BY <1>2, <1>5, BoundsAssumption
    <3>2. flown' \in BOOLEAN /\ ~flown' /\ mixrun' = 0 /\ pc' = "step" /\ column' = column
      BY <1>1, <1>5
    <3> QED
      BY <1>5, <2>1, <3>1, <3>2 DEF Order
  <2> QED
    BY <2>5, <2>6
<1>6. ASSUME column.kind = "transport"
      PROVE  /\ mixrun \in 1..column.mixes /\ column.mixes > 0
             /\ mixrun \in 0..column.mixes /\ RunsBefore \in Nat
             /\ (flown <=> column.flow # 0 /\ mixrun > RunsBefore)
             /\ flown => column.flow # 0 /\ mixrun >= RunsBefore
             /\ column.flow # 0 /\ ~flown => mixrun <= RunsBefore
             /\ \A c : FlowTime(c) = (IF flown THEN KinTime ELSE 0) /\ FlowReaction(c) = FlowTime(c)
  <2>1. mixrun \in 1..column.mixes /\ (flown <=> column.flow # 0 /\ mixrun > RunsBefore)
    BY <1>1, <1>2, <1>6 DEF Order
  <2>2. RunsBefore \in Nat
    BY <1>2, Before
  <2>3. \A c : FlowTime(c) = (IF flown THEN KinTime ELSE 0) /\ FlowReaction(c) = FlowTime(c)
    BY <1>1, <1>3, <1>6 DEF FlowTime, FlowReaction
  <2>4. mixrun \in 0..column.mixes /\ column.mixes > 0
    BY <1>2, <2>1
  <2>5. /\ flown => column.flow # 0 /\ mixrun >= RunsBefore
        /\ column.flow # 0 /\ ~flown => mixrun <= RunsBefore
    BY <2>1, <2>2
  <2> QED
    BY <2>1, <2>2, <2>3, <2>4, <2>5
<1>7. CASE column.kind = "transport" /\ Stagnant(column) = {} /\ AfterRun(mixrun)
  BY <1>1, <1>2, <1>4, <1>6, <1>7, AfterRunTimes
<1>8. CASE /\ column.kind = "transport" /\ Stagnant(column) # {}
           /\ pc' = "stagnant" /\ todo' = Mobile(column)
           /\ UNCHANGED <<step, mixrun, flown, beside, left>>
  <2>1. ~AfterFlow' /\ StagnantRun' /\ RunsBefore' = RunsBefore
    BY <1>1, <1>6, <1>8, SameTimes DEF AfterFlow, StagnantRun
  <2>2. \A c : RunsOf(c)' = RunsOf(c)
    BY <1>4, <1>8 DEF RunsOf
  <2>3. \A c : FlowTime(c)' = FlowTime(c) /\ FlowReaction(c)' = FlowReaction(c)
    <3>1. KinTime' = KinTime
      BY <1>1, SameTimes
    <3> QED
      BY <1>1, <1>3, <1>6, <1>8, <2>1, <3>1 DEF FlowTime, FlowReaction
  <2>4. \A c \in Stagnant(column) : Rounds(c)' = Rounds(c)
    <3>1. \A c \in Stagnant(column) : ~BegunBeside(c)'
      BY <1>1, <1>2, <1>8, Owners DEF BegunBeside
    <3> QED
      BY <1>4, <1>8, <2>1, <3>1 DEF Rounds
  <2>5. Timed'
    BY <1>1, <1>2, <1>8, <2>2, <2>3, <2>4, TimesStay
  <2>6. Order'
    <3>1. mixrun' \in 0..(column.mixes + 1) /\ step' \in 1..(MaxShifts + 1) /\ flown' \in BOOLEAN
          /\ step' <= MaxShifts
      BY <1>1, <1>2, <1>8 DEF Order
    <3>2. pc' = "stagnant" /\ mixrun' = mixrun /\ column' = column
      BY <1>1, <1>8
    <3>3. flown' <=> column'.flow # 0 /\ mixrun' > RunsBefore'
      BY <1>1, <1>6, <1>8, <2>1
    <3>4. beside' = 0 /\ 0 \notin todo'
      BY <1>2, <1>8, Numbers
    <3> QED
      BY <1>6, <1>8, <2>1, <3>1, <3>2, <3>3, <3>4 DEF Order
  <2> QED
    BY <2>5, <2>6
<1> QED
  BY <1>5, <1>7, <1>8 DEF MixingRunDone

LEMMA OrderStays ==
  ASSUME Order, UNCHANGED <<column, pc, step, mixrun, flown, todo, beside>>
  PROVE  Order' /\ AfterFlow' = AfterFlow /\ StagnantRun' = StagnantRun
<1>1. RunsBefore' = RunsBefore
  BY SameTimes
<1>2. AfterFlow' = AfterFlow /\ StagnantRun' = StagnantRun
  BY DEF AfterFlow, StagnantRun
<1> QED
  BY <1>1, <1>2 DEF Order

LEMMA Begins ==
  ASSUME NEW c, NEW came, NEW to, NEW time, NEW fraction, Begin(c, came, to, time, fraction)
  PROVE  /\ stage = "none" /\ stage' # "none" /\ calc'.cell = c
         /\ given' = More(c, time, fraction)
         /\ UNCHANGED <<column, pc, step, mixrun, flown, todo, beside, left, runs>>
BY DEF Begin, More, place

LEMMA NoTime ==
  ASSUME Filed, NEW c \in Cells, NEW none \in Nat, none = 0,
         given' = More(c, none, none)
  PROVE  \A d \in Cells : given'[d].time = given[d].time /\ given'[d].reaction = given[d].reaction
<1>1. \A d \in Cells : given[d].time \in Int /\ given[d].reaction \in Int
  BY DEF Filed
<1>2. /\ given'[c].time = given[c].time + none /\ given'[c].reaction = given[c].reaction + none
      /\ \A d \in Cells : d # c => given'[d] = given[d]
  BY DEF Filed, More
<1>3. given[c].time + none = given[c].time /\ given[c].reaction + none = given[c].reaction
  BY <1>1
<1>4. ASSUME NEW d \in Cells
      PROVE  given'[d].time = given[d].time /\ given'[d].reaction = given[d].reaction
  BY <1>2, <1>3, <1>4
<1> QED
  BY <1>4

LEMMA FirstTimes ==
  ASSUME Kept, Order, Timed, Filed, First
  PROVE  Order' /\ Timed'
<1> PICK none \in Nat : none = 0
  OBVIOUS
<1>1. PICK c \in Lowest(todo) : Begin(c, sol[c], c, none, none)
  BY DEF First
<1> PICK came : came = sol[c]
  OBVIOUS
<1>begin. Begin(c, came, c, none, none)
  BY <1>1
<1>2. /\ pc = "first" /\ column \in Columns /\ c \in Cells
  BY <1>1 DEF First, Kept, Typed, Loops, Lowest
<1>3. UNCHANGED <<column, pc, step, mixrun, flown, todo, beside, left>>
  BY <1>begin, Begins
<1>4. \A d \in Cells : given'[d].time = given[d].time /\ given'[d].reaction = given[d].reaction
  <2>1. given' = More(c, none, none)
    BY <1>begin, Begins
  <2> QED
    BY <1>2, <2>1, NoTime
<1>5. ~AfterFlow /\ ~StagnantRun /\ ~AfterFlow' /\ ~StagnantRun' /\ Order'
  BY <1>2, <1>3, OrderStays DEF AfterFlow, StagnantRun
<1>6. \A c1 : RunsOf(c1)' = RunsOf(c1) /\ Rounds(c1)' = Rounds(c1)
  BY <1>2, <1>3, <1>5 DEF RunsOf, Rounds
<1>7. \A c1 : FlowTime(c1)' = FlowTime(c1) /\ FlowReaction(c1)' = FlowReaction(c1)
  <2>1. KinTime' = KinTime
    BY <1>3, SameTimes
  <2> QED
    BY <1>2, <1>3, <1>5, <2>1 DEF FlowTime, FlowReaction
<1>8. Timed'
  BY <1>2, <1>3, <1>4, <1>6, <1>7, NothingGiven
<1> QED
  BY <1>5, <1>8

LEMMA HalfTimesGiven ==
  ASSUME Kept, Order, Timed, Filed, Half
  PROVE  Order' /\ Timed'
<1>1. /\ pc = "half" /\ stage = "none" /\ column \in Columns /\ column.kind = "transport"
      /\ ~flown /\ mixrun = RunsBefore /\ column.flow # 0
  BY Numbers DEF Half, Kept, Typed, Order
<1>2. ~AfterFlow /\ ~StagnantRun
  BY <1>1 DEF AfterFlow, StagnantRun
<1>3. \A c : RunsOf(c) = mixrun /\ FlowTime(c) = 0 /\ FlowReaction(c) = 0 /\ Rounds(c) = mixrun
  BY <1>1, <1>2 DEF RunsOf, FlowTime, FlowReaction, Rounds
<1>4. CASE Resident /\ FirstCell \in column.kinetics
  <2> PICK b : b = FirstCell
    OBVIOUS
  <2> PICK none \in Nat : none = 0
    OBVIOUS
  <2> PICK half : half = KinTime \div 2
    OBVIOUS
  <2> PICK came : came = sol[b]
    OBVIOUS
  <2>1. Begin(b, came, b, half, none)
    BY <1>4 DEF Half
  <2>2. stage' # "none" /\ UNCHANGED <<column, pc, step, mixrun, flown, todo, beside>>
    BY <2>1, Begins
  <2>given. given' = More(b, half, none)
    BY <2>1, Begins
  <2>3. b \in Mobile(column) /\ b \in Cells /\ half \in Nat
    <3>1. b \in Mobile(column)
      BY <1>1, Numbers DEF FirstCell
    <3>2. half \in Nat
      BY <1>1, Shares
    <3> QED
      BY <1>1, <3>1, <3>2, Places
  <2>4. Order' /\ ~AfterFlow' /\ ~StagnantRun'
    BY <1>2, <2>2, OrderStays
  <2>5. \A c : HalfTime(c)' = IF c = b THEN half ELSE 0
    BY <1>4, <2>2, SameTimes DEF HalfTime
  <2>6. \A c : /\ RunsOf(c)' = mixrun /\ FlowReaction(c)' = 0 /\ Rounds(c)' = mixrun
               /\ FlowTime(c)' = IF c = b THEN half ELSE 0
    BY <1>1, <2>2, <2>4, <2>5 DEF RunsOf, FlowTime, FlowReaction, Rounds
  <2>7. b \notin Stagnant(column) /\ b \notin Boundaries(column)
    BY <1>1, <2>3, Groups, Numbers
  <2>8. mixrun * KinTime \in Int /\ mixrun \in Int
    BY <1>1, Shares DEF Order
  <2>9. /\ mixrun * KinTime + half = mixrun * KinTime + 0 + half
        /\ mixrun * KinTime + 0 = mixrun * KinTime + 0 + none
    BY <2>3, <2>8
  <2>10. Timed'
    BY <1>1, <1>3, <2>2, <2>given, <2>3, <2>6, <2>7, <2>8, <2>9, TimesBegin
  <2> QED
    BY <2>4, <2>10
<1>5. CASE ~(Resident /\ FirstCell \in column.kinetics)
  <2>1. pc' = "flow" /\ UNCHANGED <<column, given, step, mixrun, flown, todo, beside>>
    BY <1>5 DEF Half, place, Calculating
  <2>2. ~AfterFlow' /\ ~StagnantRun' /\ RunsBefore' = RunsBefore
    BY <2>1, SameTimes DEF AfterFlow, StagnantRun
  <2>3. \A c : /\ RunsOf(c)' = mixrun /\ FlowReaction(c)' = 0 /\ Rounds(c)' = mixrun
               /\ FlowTime(c)' = HalfTime(c)
    BY <1>1, <2>1, <2>2, SameTimes DEF RunsOf, FlowTime, FlowReaction, Rounds
  <2>4. \A c : HalfTime(c) = 0 \/ (c \notin column.kinetics /\ HalfTime(c) \in Nat)
    BY <1>1, <1>5, HalfTimes DEF HalfTime
  <2>5. Timed'
    BY <1>1, <1>3, <2>1, <2>3, <2>4, TimesStay
  <2>6. Order'
    BY <1>1, <2>1, <2>2 DEF Order
  <2> QED
    BY <2>5, <2>6
<1> QED
  BY <1>4, <1>5

LEMMA OneCellTimes ==
  ASSUME Kept, Order, Timed, Filed, OneCell
  PROVE  Order' /\ Timed'
<1>1. PICK b \in Lowest(todo) :
        Begin(b, sol[b], b, IF Resident /\ b = FirstCell THEN KinTime \div 2 ELSE KinTime, Fraction)
  BY DEF OneCell
<1> PICK time : time = IF Resident /\ b = FirstCell THEN KinTime \div 2 ELSE KinTime
  OBVIOUS
<1> PICK k : k = KinTime
  OBVIOUS
<1> PICK came : came = sol[b]
  OBVIOUS
<1>2. Begin(b, came, b, time, k)
  BY <1>1 DEF Fraction
<1>3. /\ stage = "none" /\ stage' # "none" /\ calc'.cell = b
      /\ UNCHANGED <<column, pc, step, mixrun, flown, todo, beside, left>>
  BY <1>2, Begins
<1>given. given' = More(b, time, k)
  BY <1>2, Begins
<1>4. /\ pc = "cells" /\ column \in Columns /\ column.kind = "transport" /\ b \in todo
      /\ b \in Mobile(column) /\ beside = 0
  BY Numbers DEF OneCell, Kept, Typed, Loops, Lowest, Order
<1>5. AfterFlow /\ AfterFlow' /\ ~StagnantRun /\ ~StagnantRun' /\ Order'
  BY <1>3, <1>4, OrderStays DEF AfterFlow, StagnantRun
<1>6. flown /\ column.flow # 0
  BY <1>4, <1>5 DEF Order
<1>7. ~Begun(b) /\ Begun(b)' /\ \A c : c # b => (Begun(c)' <=> Begun(c))
  BY <1>3, <1>4 DEF Begun
<1>8. b \in Cells /\ b \notin Stagnant(column) /\ b \notin Boundaries(column)
  BY <1>4, Places, Groups, Numbers
<1>9. \A c \in Stagnant(column) : BegunBeside(c)' <=> BegunBeside(c)
  BY <1>3, <1>8 DEF BegunBeside
<1>10. \A c : RunsOf(c) = mixrun /\ RunsOf(c)' = mixrun
  BY <1>3, <1>4 DEF RunsOf
<1>11. \A c \in Stagnant(column) : Rounds(c)' = Rounds(c)
  BY <1>3, <1>5, <1>9 DEF Rounds
<1>12. ASSUME NEW c, c # b PROVE FlowTime(c)' = FlowTime(c) /\ FlowReaction(c)' = FlowReaction(c)
  <2>1. KinTime' = KinTime /\ HalfTime(c)' = HalfTime(c)
    BY <1>3, SameTimes
  <2>2. CASE Begun(c)
    <3>1. Begun(c)'
      BY <1>7, <1>12, <2>2
    <3> QED
      BY <1>3, <1>4, <1>5, <1>6, <2>1, <2>2, <3>1 DEF FlowTime, FlowReaction
  <2>3. CASE ~Begun(c)
    <3>1. ~Begun(c)'
      BY <1>7, <1>12, <2>3
    <3> QED
      BY <1>3, <1>4, <1>5, <1>6, <2>1, <2>3, <3>1 DEF FlowTime, FlowReaction
  <2> QED
    BY <2>2, <2>3
<1>13. FlowTime(b) = HalfTime(b) /\ FlowTime(b)' = k /\ FlowReaction(b) = 0 /\ FlowReaction(b)' = k
  BY <1>3, <1>4, <1>5, <1>6, <1>7, SameTimes DEF FlowTime, FlowReaction
<1>14. k \in Nat /\ time \in Nat /\ HalfTime(b) \in Nat /\ HalfTime(b) + time = k
  BY <1>4, <1>6, Shares DEF HalfTime
<1>15. mixrun * KinTime \in Int /\ mixrun \in Int
  BY <1>4, Shares DEF Order
<1>16. /\ mixrun * KinTime + k = mixrun * KinTime + HalfTime(b) + time
       /\ mixrun * KinTime + k = mixrun * KinTime + 0 + k
  BY <1>14, <1>15
<1>17. Timed'
  BY <1>3, <1>given, <1>4, <1>8, <1>10, <1>11, <1>12, <1>13, <1>14, <1>15, <1>16, TimesBegin
<1> QED
  BY <1>5, <1>17

LEMMA DisperseTimes ==
  ASSUME Kept, Order, Timed, Filed, Disperse
  PROVE  Order' /\ Timed'
<1>1. PICK b \in Lowest(todo) :
        \E came : Begin(b, came, -2, KinTime, Fraction)
  BY DEF Disperse
<1> PICK k : k = KinTime
  OBVIOUS
<1> PICK to : to = -2
  OBVIOUS
<1>2. PICK came : Begin(b, came, to, k, k)
  BY <1>1 DEF Fraction
<1>3. /\ stage = "none" /\ stage' # "none" /\ calc'.cell = b
      /\ UNCHANGED <<column, pc, step, mixrun, flown, todo, beside, left>>
  BY <1>2, Begins
<1>given. given' = More(b, k, k)
  BY <1>2, Begins
<1>4. /\ pc = "mix" /\ column \in Columns /\ b \in todo /\ b \in Mobile(column)
  BY DEF Disperse, Kept, Typed, Loops, Lowest
<1>5. ~AfterFlow /\ ~AfterFlow' /\ Order'
  BY <1>3, <1>4, OrderStays DEF AfterFlow
<1>6. ~Begun(b) /\ Begun(b)' /\ \A c : c # b => (Begun(c)' <=> Begun(c))
  BY <1>3, <1>4 DEF Begun
<1>7. b \in Cells /\ b \notin Stagnant(column) /\ b \notin Boundaries(column)
  BY <1>4, Places, Groups, Numbers
<1>8. RunsOf(b) = mixrun - 1 /\ RunsOf(b)' = mixrun /\ \A c : c # b => RunsOf(c)' = RunsOf(c)
  BY <1>3, <1>4, <1>6 DEF RunsOf
<1>9. \A c : Rounds(c)' = Rounds(c)
  BY <1>3, <1>4 DEF Rounds
<1>10. \A c : FlowTime(c)' = FlowTime(c) /\ FlowReaction(c)' = FlowReaction(c)
  <2>1. KinTime' = KinTime
    BY <1>3, SameTimes
  <2> QED
    BY <1>3, <1>4, <1>5, <2>1 DEF FlowTime, FlowReaction
<1>11. FlowTime(b) \in Int /\ FlowReaction(b) \in Int /\ k \in Nat /\ mixrun \in Int
  BY <1>4, <1>5, Shares DEF FlowTime, FlowReaction, Order
<1>12. mixrun * k = (mixrun - 1) * k + k /\ (mixrun - 1) * k \in Int
  BY <1>11
<1>13. /\ RunsOf(b)' * KinTime + FlowTime(b)' = RunsOf(b) * KinTime + FlowTime(b) + k
       /\ RunsOf(b)' * KinTime + FlowReaction(b)' = RunsOf(b) * KinTime + FlowReaction(b) + k
  BY <1>8, <1>10, <1>11, <1>12
<1>14. Timed'
  BY <1>3, <1>given, <1>4, <1>7, <1>8, <1>9, <1>10, <1>11, <1>13, TimesBegin
<1> QED
  BY <1>5, <1>14

LEMMA StagnantCellTimes ==
  ASSUME Kept, Order, Timed, Filed, StagnantCell
  PROVE  Order' /\ Timed'
<1>1. PICK b \in Lowest(left) :
        IF b = beside THEN \E came, to : Begin(b, came, to, 0, 0)
        ELSE \E came, to : Begin(b, came, to, StagnantTime, Fraction)
  BY DEF StagnantCell
<1>2. /\ pc = "stagnant" /\ column \in Columns /\ b \in left /\ column.kind = "transport"
  BY Numbers DEF StagnantCell, Kept, Typed, Lowest, Order
<1>3. /\ beside \in Mobile(column) /\ left \subseteq Group(beside) /\ beside \notin todo
      /\ b \in Group(beside) /\ b \in Cells /\ column.mixes \in Nat
  BY <1>2, Numbers, Groups, Places DEF Kept, Loops, Order
<1>4. ASSUME /\ stage = "none" /\ stage' # "none" /\ calc'.cell = b
             /\ UNCHANGED <<column, pc, step, mixrun, flown, todo, beside, left>>
      PROVE  /\ Order' /\ AfterFlow' = AfterFlow /\ StagnantRun' = StagnantRun
             /\ \A c : RunsOf(c)' = RunsOf(c)
             /\ \A c : FlowTime(c)' = FlowTime(c) /\ FlowReaction(c)' = FlowReaction(c)
             /\ \A c : c # b => Rounds(c)' = Rounds(c)
  <2>1. Order' /\ AfterFlow' = AfterFlow /\ StagnantRun' = StagnantRun
    BY <1>4, OrderStays
  <2>2. \A c : Begun(c)' <=> Begun(c)
    BY <1>2, <1>4 DEF Begun
  <2>3. \A c : c # b => (BegunBeside(c)' <=> BegunBeside(c))
    BY <1>4 DEF BegunBeside
  <2>4. \A c : RunsOf(c)' = RunsOf(c)
    BY <1>2, <1>4 DEF RunsOf
  <2>5. \A c : FlowTime(c)' = FlowTime(c) /\ FlowReaction(c)' = FlowReaction(c)
    BY <1>2, <1>4, <2>1, <2>2, SameTimes DEF FlowTime, FlowReaction
  <2>6. ASSUME NEW c, c # b PROVE Rounds(c)' = Rounds(c)
    <3>1. BegunBeside(c)' <=> BegunBeside(c)
      BY <2>3, <2>6
    <3> QED
      BY <1>2, <1>4, <2>1, <3>1 DEF Rounds
  <2> QED
    BY <2>1, <2>4, <2>5, <2>6
<1>5. CASE b = beside
  <2> PICK none \in Nat : none = 0
    OBVIOUS
  <2>1. PICK came, to : Begin(b, came, to, none, none)
    BY <1>1, <1>5
  <2>2. /\ stage = "none" /\ stage' # "none" /\ calc'.cell = b
        /\ UNCHANGED <<column, pc, step, mixrun, flown, todo, beside, left>>
    BY <2>1, Begins
  <2>3. given' = More(b, none, none)
    BY <2>1, Begins
  <2>4. \A d \in Cells : given'[d].time = given[d].time /\ given'[d].reaction = given[d].reaction
    BY <1>3, <2>3, NoTime
  <2>5. b \notin Stagnant(column)
    BY <1>2, <1>3, <1>5, Groups
  <2>6. \A c \in Stagnant(column) : Rounds(c)' = Rounds(c)
    BY <1>4, <2>2, <2>5
  <2>7. Timed'
    BY <1>2, <1>4, <2>2, <2>4, <2>6, NothingGiven
  <2> QED
    BY <1>4, <2>2, <2>7
<1>6. CASE b # beside
  <2> PICK time : time = StagnantTime
    OBVIOUS
  <2> PICK k : k = KinTime
    OBVIOUS
  <2>1. PICK came, to : Begin(b, came, to, time, k)
    BY <1>1, <1>6 DEF Fraction
  <2>2. /\ stage = "none" /\ stage' # "none" /\ calc'.cell = b
        /\ UNCHANGED <<column, pc, step, mixrun, flown, todo, beside, left>>
    BY <2>1, Begins
  <2>3. given' = More(b, time, k)
    BY <2>1, Begins
  <2>4. /\ b \in Beside(column, beside) /\ b \in Stagnant(column) /\ b \notin Mobile(column)
        /\ b \notin Boundaries(column)
    <3>1. b \in Beside(column, beside) /\ b \in Stagnant(column)
      BY <1>2, <1>3, <1>6, Groups DEF Group
    <3> QED
      BY <1>2, <3>1, StagnantCells, Numbers
  <2>5. ~BegunBeside(b) /\ BegunBeside(b)'
    <3>1. \A i \in Mobile(column) : b \in Beside(column, i) => i = beside
      BY <1>2, <1>3, <2>4, Owners
    <3> QED
      BY <1>2, <1>3, <2>2, <3>1 DEF BegunBeside
  <2>6. Rounds(b) \in Int /\ Rounds(b)' = Rounds(b) + 1
    <3>1. mixrun \in Int /\ mixrun' = mixrun /\ pc = "stagnant" /\ pc' = "stagnant"
          /\ column.mixes' = column.mixes
      BY <1>2, <2>2 DEF Order
    <3>2. CASE column.mixes > 0
      <4>1. StagnantRun /\ StagnantRun'
        BY <1>2, <2>2, <3>2 DEF StagnantRun
      <4>2. Rounds(b) = mixrun - 1 /\ Rounds(b)' = mixrun
        BY <2>5, <3>1, <4>1, <1>3, <3>2 DEF Rounds
      <4> QED
        BY <3>1, <4>2
    <3>3. CASE column.mixes = 0
      <4>1. AfterFlow /\ AfterFlow' /\ ~StagnantRun /\ ~StagnantRun'
        BY <1>2, <2>2, <3>3 DEF AfterFlow, StagnantRun
      <4>2. Rounds(b) = 0 /\ Rounds(b)' = 1
        BY <2>2, <2>5, <3>1, <3>3, <4>1 DEF Rounds
      <4> QED
        BY <4>2
    <3> QED
      BY <1>3, <3>2, <3>3
  <2>7. time \in Nat /\ k \in Nat
    BY <1>2, Shares
  <2>8. k <= KinTime
    BY <2>7
  <2>9. Timed'
    BY <1>2, <1>3, <1>4, <2>2, <2>3, <2>4, <2>6, <2>7, <2>8, TimesBegin
  <2> QED
    BY <1>4, <2>2, <2>9
<1> QED
  BY <1>5, <1>6

LEMMA StartTimes ==
  ASSUME Kept, Order, Start
  PROVE  Order' /\ Timed'
<1>1. /\ column' = column /\ pc' \in {"step", "first"} /\ step' = 1 /\ mixrun' = 0 /\ flown' = FALSE
      /\ given' = [c \in Cells |-> [time |-> 0, reaction |-> 0]]
      /\ column.kind = "advection" => pc' = "step"
  BY DEF Start
<1>2. column \in Columns /\ column.mixes \in Nat
  BY Numbers DEF Kept, Typed
<1>3. ~AfterFlow' /\ ~StagnantRun'
  BY <1>1 DEF AfterFlow, StagnantRun
<1>4. Order'
  <2>1. step' \in 1..(MaxShifts + 1) /\ mixrun' \in 0..(column.mixes + 1) /\ step' = 1
    BY <1>1, <1>2, BoundsAssumption
  <2>2. flown' \in BOOLEAN /\ ~flown' /\ mixrun' = 0
    BY <1>1
  <2> QED
    BY <1>1, <1>3, <2>1, <2>2 DEF Order
<1>5. \A c : RunsOf(c)' = 0 /\ FlowTime(c)' = 0 /\ FlowReaction(c)' = 0 /\ Rounds(c)' = 0
  BY <1>1, <1>3 DEF RunsOf, FlowTime, FlowReaction, Rounds
<1>6. Shifts' = 0 /\ KinTime' \in Nat /\ StagnantTime' \in Nat
  <2>1. Shift' \in Nat /\ KinTime' \in Nat /\ StagnantTime' \in Nat
    BY <1>1, <1>2, SameTimes, Shares
  <2>2. PICK s \in Nat : s = Shift'
    BY <2>1
  <2>3. (1 - 1) * s = 0
    OBVIOUS
  <2> QED
    BY <1>1, <2>1, <2>2, <2>3 DEF Shifts
<1>7. \A c \in Cells : given'[c].time = 0 /\ given'[c].reaction = 0
  BY <1>1
<1>8. /\ Mobile(column) \subseteq Cells /\ Stagnant(column) \subseteq Cells
      /\ Boundaries(column) \subseteq Cells
  BY <1>2, Numbers, Places
<1>9. 0 * KinTime' = 0 /\ 0 * StagnantTime' = 0
  <2>1. PICK k, t \in Nat : k = KinTime' /\ t = StagnantTime'
    BY <1>6
  <2>2. 0 * k = 0 /\ 0 * t = 0
    OBVIOUS
  <2> QED
    BY <2>1, <2>2
<1>10. Timed'
  BY <1>1, <1>5, <1>6, <1>7, <1>8, <1>9 DEF Timed
<1> QED
  BY <1>4, <1>10

LEMMA IdleTimes ==
  ASSUME Kept, Order, EndOfRun \/ Stop
  PROVE  Order' /\ Timed'
<1>1. pc' = "idle" /\ UNCHANGED <<column, step, mixrun, flown>>
  BY DEF EndOfRun, Stop, place, Calculating
<1> QED
  BY <1>1 DEF Order, Timed, AfterFlow, StagnantRun

\* No cell gets more than the shifts so far have.
LEMMA Bounded ==
  Typed /\ Order /\ Timed /\ pc # "idle" /\ given \in [Cells -> [time : Nat, reaction : Nat]]
    => given \in [Cells -> [time : 0..(MaxShifts * Shift), reaction : 0..(MaxShifts * Shift)]]
<1> SUFFICES ASSUME Typed, Order, Timed, pc # "idle",
                    given \in [Cells -> [time : Nat, reaction : Nat]]
             PROVE  given \in [Cells -> [time : 0..(MaxShifts * Shift),
                                         reaction : 0..(MaxShifts * Shift)]]
  OBVIOUS
<1> DEFINE k == KinTime
<1> DEFINE s == Shift
<1> DEFINE t == StagnantTime
<1> DEFINE m == column.mixes
<1> DEFINE part == IF pc \in {"first", "step"} THEN 0 ELSE s
<1>0. column \in Columns /\ pc \in {"first", "step", "half", "flow", "cells", "mix", "stagnant"}
  BY DEF Typed
<1>1. /\ k \in Nat /\ s \in Nat /\ t \in Nat /\ m \in Nat
      /\ column.kind \in {"advection", "transport"}
      /\ step \in 1..(MaxShifts + 1) /\ MaxShifts \in Nat /\ mixrun \in Int
  BY <1>0, Shares, Numbers, BoundsAssumption DEF Order
<1>2. Shifts + part <= MaxShifts * s /\ Shifts \in Nat /\ part \in Nat
  <2>1. Shifts = (step - 1) * s
    BY DEF Shifts
  <2>2. pc \notin {"first", "step"} => step <= MaxShifts
    BY DEF Order
  <2> HIDE DEF s
  <2>3. (step - 1) * s <= MaxShifts * s /\ (step - 1) * s \in Nat
    BY <1>1, Product
  <2>4. step <= MaxShifts => step * s <= MaxShifts * s /\ step * s = (step - 1) * s + s
    BY <1>1, Product
  <2> QED
    BY <1>1, <2>1, <2>2, <2>3, <2>4
<1>3. CASE pc \in {"first", "step"}
  <2>1. mixrun = 0 /\ ~flown /\ ~AfterFlow /\ ~StagnantRun
    BY <1>3 DEF Order, AfterFlow, StagnantRun
  <2>2. \A c : RunsOf(c) = 0 /\ FlowTime(c) = 0 /\ FlowReaction(c) = 0 /\ Rounds(c) = 0
    BY <1>3, <2>1 DEF RunsOf, FlowTime, FlowReaction, Rounds
  <2>3. 0 * k = 0 /\ 0 * t = 0
    BY <1>1
  <2>4. \A c \in Cells : given[c].time <= Shifts /\ given[c].reaction <= Shifts
    <3>1. ASSUME NEW c \in Mobile(column) PROVE given[c].time <= Shifts /\ given[c].reaction <= Shifts
      <4>1. given[c].time <= Shifts + 0 * k + 0 /\ given[c].reaction = Shifts + 0 * k + 0
        BY <2>2, <3>1 DEF Timed
      <4> QED
        BY <1>2, <2>3, <4>1
    <3>2. ASSUME NEW c \in Stagnant(column) PROVE given[c].time <= Shifts /\ given[c].reaction <= Shifts
      <4>1. given[c].time = Shifts + 0 * t /\ given[c].reaction <= Shifts + 0 * k
        BY <2>2, <3>2 DEF Timed
      <4> QED
        BY <1>2, <2>3, <4>1
    <3>3. ASSUME NEW c \in Boundaries(column) PROVE given[c].time <= Shifts /\ given[c].reaction <= Shifts
      <4>1. given[c].time = 0 /\ given[c].reaction = 0
        BY <3>3 DEF Timed
      <4> QED
        BY <1>2, <4>1
    <3> QED
      BY <3>1, <3>2, <3>3 DEF Cells, CellsOf
  <2> HIDE DEF s
  <2>5. MaxShifts * s \in Nat
    BY <1>1
  <2>6. \A c \in Cells : given[c].time \in 0..(MaxShifts * s) /\ given[c].reaction \in 0..(MaxShifts * s)
    BY <1>2, <1>3, <2>4, <2>5
  <2> QED
    BY <2>6 DEF s
<1>4. CASE pc \notin {"first", "step"}
  <2>1. column.kind = "advection" =>
          /\ pc \in {"flow", "mix"} /\ k = s
          /\ mixrun \in 0..1 /\ (pc = "mix" => mixrun = 1)
    BY <1>0, <1>4, Shares DEF Order
  <2>2. column.kind = "transport" =>
          /\ mixrun \in 0..m /\ (pc = "mix" \/ StagnantRun => mixrun >= 1)
          /\ flown => column.flow # 0
          /\ pc \in {"half", "flow"} \/ AfterFlow => column.flow # 0
          /\ StagnantRun => m > 0
    <3>1. ASSUME column.kind = "transport"
          PROVE  mixrun \in 0..m /\ (pc = "mix" \/ StagnantRun => mixrun >= 1)
                 /\ (flown => column.flow # 0) /\ (pc \in {"half", "flow"} \/ AfterFlow => column.flow # 0)
                 /\ (StagnantRun => m > 0)
      <4>1. RunsBefore \in 0..m
        BY <1>0, <1>1, Before
      <4> QED
        BY <1>0, <1>1, <1>4, <3>1, <4>1 DEF Order, AfterFlow, StagnantRun
    <3> QED
      BY <3>1
  <2>3. /\ column.kind = "transport" /\ column.flow # 0 => m * k + k = s
        /\ column.kind = "transport" /\ column.flow = 0 => m * k = s /\ m > 0
        /\ column.kind = "transport" /\ m > 0 => m * t = s
        /\ m = 0 => t = s
        /\ column.kind = "advection" => Stagnant(column) = {}
    BY <1>0, Shares
  <2>4. ASSUME NEW c \in Mobile(column)
        PROVE  /\ RunsOf(c) * k + FlowTime(c) <= s /\ RunsOf(c) * k + FlowReaction(c) <= s
               /\ RunsOf(c) * k \in Int /\ FlowTime(c) \in Int /\ FlowReaction(c) \in Int
    <3>1. CASE column.kind = "advection"
      <4>1. RunsOf(c) \in 0..1 /\ FlowTime(c) = 0 /\ FlowReaction(c) = 0
        BY <2>1, <3>1 DEF RunsOf, FlowTime, FlowReaction
      <4>2. PICK r \in 0..1 : r = RunsOf(c)
        BY <4>1
      <4>3. r * k <= s /\ r * k \in Int
        BY <1>1, <2>1, <3>1
      <4> QED
        BY <1>1, <4>1, <4>2, <4>3
    <3>2. CASE column.kind = "transport"
      <4>1. RunsOf(c) \in 0..m
        BY <1>1, <2>2, <3>2 DEF RunsOf
      <4>2. PICK r \in 0..m : r = RunsOf(c)
        BY <4>1
      <4>3. r * k <= m * k /\ r * k \in Int /\ m * k \in Int
        BY <1>1, Product
      <4>4. CASE column.flow # 0
        <5>1. HalfTime(c) \in Nat /\ HalfTime(c) <= k
          BY <1>0, <3>2, <4>4, HalfTimes
        <5>2. FlowTime(c) \in 0..k /\ FlowReaction(c) \in 0..k
          BY <1>1, <5>1 DEF FlowTime, FlowReaction
        <5>3. m * k + k = s
          BY <2>3, <3>2, <4>4
        <5> HIDE DEF k, s, m
        <5> QED
          BY <1>1, <4>2, <4>3, <5>2, <5>3
      <4>5. CASE column.flow = 0
        <5>1. FlowTime(c) = 0 /\ FlowReaction(c) = 0
          BY <1>4, <2>2, <3>2, <4>5 DEF FlowTime, FlowReaction
        <5>2. m * k = s
          BY <2>3, <3>2, <4>5
        <5> HIDE DEF k, s, m
        <5> QED
          BY <1>1, <4>2, <4>3, <5>1, <5>2
      <4> QED
        BY <4>4, <4>5
    <3> QED
      BY <1>1, <3>1, <3>2
  <2>5. ASSUME NEW c \in Stagnant(column)
        PROVE  /\ Rounds(c) * t <= s /\ Rounds(c) * k <= s
               /\ Rounds(c) * t \in Int /\ Rounds(c) * k \in Int
    <3>1. column.kind = "transport"
      BY <1>1, <2>3, <2>5
    <3>2. CASE m > 0
      <4>1. Rounds(c) \in 0..m
        BY <1>1, <2>2, <3>1, <3>2 DEF Rounds
      <4>2. PICK r \in 0..m : r = Rounds(c)
        BY <4>1
      <4>3. r * k <= m * k /\ r * k \in Int /\ m * k \in Int /\ r * t <= m * t /\ r * t \in Int
            /\ m * t \in Int
        BY <1>1, Product
      <4>4. m * t = s /\ m * k <= s
        BY <1>1, <2>3, <3>1, <3>2, <4>3
      <4> HIDE DEF k, s, m, t
      <4> QED
        BY <1>1, <4>2, <4>3, <4>4
    <3>3. CASE m = 0
      <4>1. Rounds(c) \in 0..1
        BY <1>1, <2>2, <3>1, <3>3 DEF Rounds
      <4>2. PICK r \in 0..1 : r = Rounds(c)
        BY <4>1
      <4>3. t = s /\ m * k + k = s /\ 0 * k = 0
        BY <1>1, <2>3, <3>1, <3>3
      <4>4. k = s
        BY <1>1, <3>3, <4>3
      <4> HIDE DEF k, s, m, t
      <4> QED
        BY <1>1, <4>2, <4>3, <4>4
    <3> QED
      BY <1>1, <3>2, <3>3
  <2>6. ASSUME NEW c \in Cells
        PROVE  given[c].time <= Shifts + s /\ given[c].reaction <= Shifts + s
    <3>0. given[c].time \in Nat /\ given[c].reaction \in Nat
      BY <2>6
    <3>1. CASE c \in Mobile(column)
      <4>1. /\ given[c].time <= Shifts + RunsOf(c) * k + FlowTime(c)
            /\ given[c].reaction = Shifts + RunsOf(c) * k + FlowReaction(c)
        BY <3>1 DEF Timed
      <4> HIDE DEF k, s
      <4> QED
        BY <1>1, <1>2, <2>4, <3>0, <3>1, <4>1
    <3>2. CASE c \in Stagnant(column)
      <4>1. /\ given[c].time = Shifts + Rounds(c) * t
            /\ given[c].reaction <= Shifts + Rounds(c) * k
        BY <3>2 DEF Timed
      <4> HIDE DEF k, s, t
      <4> QED
        BY <1>1, <1>2, <2>5, <3>0, <3>2, <4>1
    <3>3. CASE c \in Boundaries(column)
      <4>1. given[c].time = 0 /\ given[c].reaction = 0
        BY <3>3 DEF Timed
      <4> HIDE DEF s
      <4> QED
        BY <1>1, <1>2, <4>1
    <3> QED
      BY <2>6, <3>1, <3>2, <3>3 DEF Cells, CellsOf
  <2> HIDE DEF s
  <2>7. MaxShifts * s \in Nat
    BY <1>1
  <2>8. \A c \in Cells : given[c].time \in 0..(MaxShifts * s) /\ given[c].reaction \in 0..(MaxShifts * s)
    BY <1>1, <1>2, <1>4, <2>6, <2>7
  <2> QED
    BY <2>8 DEF s
<1> QED
  BY <1>3, <1>4

LEMMA CalculationFiled ==
  Kept => /\ stage # "none" => calc.cell \in Cells /\ calc.to \in Slots
          /\ stage = "done" => result \in [water : Waters, solids : Solids]
<1> SUFFICES ASSUME Kept, stage # "none"
             PROVE  /\ calc.cell \in Cells /\ calc.to \in Slots
                    /\ stage = "done" => result \in [water : Waters, solids : Solids]
  OBVIOUS
<1> PICK c : c = calc.cell
  OBVIOUS
<1>1. /\ Typed /\ Loops /\ c \in Doing /\ calc.to = Target(c) /\ CameTo(c) \in Waters
      /\ column \in Columns
  BY DEF Kept, Calculation, Typed
<1>2. c \in Cells /\ c \in Slots
  BY <1>1, DoingAreCells, Places
<1>3. Target(c) \in Slots
  <2>1. CASE pc # "stagnant"
    BY <1>1, <1>2, <2>1, Temporary DEF Target
  <2>2. CASE pc = "stagnant"
    <3>1. c \in Group(beside) /\ beside \in Mobile(column)
      BY <1>1, <2>2 DEF Doing, Loops
    <3>2. c = beside \/ c \in Stagnant(column)
      BY <1>1, <3>1, Groups
    <3> QED
      BY <1>1, <2>2, <3>2, Temporary DEF Target, Slot
  <2> QED
    BY <2>1, <2>2
<1>4. ASSUME stage = "done" PROVE result \in [water : Waters, solids : Solids]
  <2>1. PICK kin \in BOOLEAN : result = Calculated(column, c, CameTo(c), Solid(c), kin)
    BY <1>4 DEF Kept, Calculation
  <2>2. Solid(c) \in Solids
    BY <1>1, <1>2 DEF Typed, WetColumn, Solid, Cells
  <2> PICK u : u = column
    OBVIOUS
  <2>3. PICK w \in Waters, r \in Solids : w = CameTo(c) /\ r = Solid(c)
    BY <1>1, <2>2
  <2>4. Calculated(u, c, w, r, kin) \in [water : Waters, solids : Solids]
    BY Calculations DEF Calculated
  <2> QED
    BY <2>1, <2>3, <2>4
<1> QED
  BY <1>1, <1>2, <1>3, <1>4

\* The steps in which a calculation may begin.
LEMMA Beginnings ==
  ASSUME Kept, Order, First \/ Half \/ OneCell \/ Disperse \/ StagnantCell
  PROVE  /\ pc # "idle" /\ pc' # "idle" /\ UNCHANGED <<column, runs>>
         /\ UNCHANGED <<given, calc, result>>
            \/ (\E c, came, to : \E time, fraction \in Nat : Begin(c, came, to, time, fraction))
<1>1. column \in Columns /\ KinTime \in Nat /\ StagnantTime \in Nat /\ 0 \in Nat /\ Fraction = KinTime
  BY Shares DEF Kept, Typed, Fraction
<1>2. ASSUME NEW c, NEW came, NEW to, NEW time \in Nat, NEW fraction \in Nat,
             Begin(c, came, to, time, fraction), pc # "idle"
      PROVE  /\ pc # "idle" /\ pc' # "idle" /\ UNCHANGED <<column, runs>>
             /\ UNCHANGED <<given, calc, result>>
                \/ (\E c1, came1, to1 : \E time1, fraction1 \in Nat : Begin(c1, came1, to1, time1, fraction1))
  BY <1>2, Begins
<1>3. CASE First
  <2>1. PICK c, came, to : Begin(c, came, to, 0, 0)
    BY <1>3 DEF First
  <2> PICK none \in Nat : none = 0
    OBVIOUS
  <2> QED
    BY <1>2, <1>3, <2>1 DEF First
<1>4. CASE Half
  <2>1. CASE Resident /\ FirstCell \in column.kinetics
    <3>1. column.kind = "transport" /\ column.flow # 0
      BY <1>1, <1>4, Numbers DEF Half, Order
    <3>2. PICK half \in Nat : half = KinTime \div 2
      BY <1>1, <3>1, Shares
    <3> PICK none \in Nat : none = 0
      OBVIOUS
    <3>3. PICK c, came, to : Begin(c, came, to, half, none)
      BY <1>4, <2>1, <3>2 DEF Half
    <3> QED
      BY <1>2, <1>4, <3>3 DEF Half
  <2>2. CASE ~(Resident /\ FirstCell \in column.kinetics)
    BY <1>4, <2>2 DEF Half, Calculating, Begin
  <2> QED
    BY <2>1, <2>2
<1>5. CASE OneCell
  <2>1. column.kind = "transport" /\ column.flow # 0
    BY <1>1, <1>5, Numbers DEF OneCell, Order, AfterFlow
  <2>2. KinTime \div 2 \in Nat
    BY <1>1, <2>1, Shares
  <2>3. PICK b \in Lowest(todo) :
          Begin(b, sol[b], b, IF Resident /\ b = FirstCell THEN KinTime \div 2 ELSE KinTime, Fraction)
    BY <1>5 DEF OneCell
  <2>4. PICK time \in Nat : time = IF Resident /\ b = FirstCell THEN KinTime \div 2 ELSE KinTime
    BY <1>1, <2>2
  <2>5. PICK k \in Nat : k = KinTime
    BY <1>1
  <2> PICK came : came = sol[b]
    OBVIOUS
  <2>6. Begin(b, came, b, time, k)
    BY <1>1, <2>3, <2>4, <2>5
  <2> QED
    BY <1>2, <1>5, <2>6 DEF OneCell
<1>6. CASE Disperse
  <2>1. PICK k \in Nat : k = KinTime
    BY <1>1
  <2>2. PICK c, came, to : Begin(c, came, to, k, k)
    BY <1>1, <1>6, <2>1 DEF Disperse
  <2> QED
    BY <1>2, <1>6, <2>2 DEF Disperse
<1>7. CASE StagnantCell
  <2>1. PICK k \in Nat, time \in Nat, none \in Nat : k = KinTime /\ time = StagnantTime /\ none = 0
    BY <1>1
  <2>2. \E c, came, to : Begin(c, came, to, none, none) \/ Begin(c, came, to, time, k)
    BY <1>1, <1>7, <2>1 DEF StagnantCell
  <2> QED
    BY <1>2, <1>7, <2>2 DEF StagnantCell
<1> QED
  BY <1>3, <1>4, <1>5, <1>6, <1>7

LEMMA FiledNext ==
  ASSUME Kept, Kept', Order, Order', Timed', Filed, [Next]_vars
  PROVE  Filed'
<1>1. column' = column /\ column \in Columns /\ Cells' = Cells /\ Slots' = Slots /\ Shift' = Shift
  <2>1. column' = column
    BY DEF Next, vars, Start, First, FirstDone, Step, EndOfRun, Stop, Integrate, LastCalculation, Half,
           HalfDone, Flow, OneCell, OneCellDone, AllCellsDone, Disperse, DisperseDone, MixingRunDone,
           NextBeside, StagnantCell, StagnantCellDone, GroupDone, StagnantDone, Begin, Saver, Calculating
  <2> QED
    BY <2>1, SameTimes DEF Kept, Typed, Cells, Slots, SaveOld
<1> DEFINE Beginning == First \/ Half \/ OneCell \/ Disperse \/ StagnantCell
<1> DEFINE Times == [Cells -> [time : 0..(MaxShifts * Shift), reaction : 0..(MaxShifts * Shift)]]
<1>2. /\ calc \in [cell : Cells, to : Slots] /\ result \in [water : Waters, solids : Solids]
      /\ runs \in 0..MaxRuns /\ given \in Times /\ MaxRuns \in Nat /\ MaxShifts \in Nat /\ Shift \in Nat
  BY <1>1, Shares, BoundsAssumption DEF Filed
<1>3. Filed' <=> /\ calc' \in [cell : Cells, to : Slots]
                 /\ result' \in [water : Waters, solids : Solids]
                 /\ runs' \in 0..MaxRuns
                 /\ given' \in Times
  BY <1>1 DEF Filed
<1>4. CASE Beginning
  <2>1. /\ pc' # "idle" /\ runs' = runs
        /\ UNCHANGED <<given, calc, result>>
           \/ (\E c, came, to : \E time, fraction \in Nat : Begin(c, came, to, time, fraction))
    BY <1>4, Beginnings
  <2>2. CASE UNCHANGED <<given, calc, result>>
    BY <1>2, <1>3, <2>1, <2>2
  <2>3. ASSUME NEW c, NEW came, NEW to, NEW time \in Nat, NEW fraction \in Nat,
               Begin(c, came, to, time, fraction)
        PROVE  Filed'
    <3>1. /\ stage' # "none" /\ calc' = [cell |-> c, to |-> to]
          /\ result' = result \/ stage' = "done"
      BY <2>3 DEF Begin
    <3>2. given' = More(c, time, fraction)
      BY <2>3, Begins
    <3>3. (Kept => /\ stage # "none" => calc.cell \in Cells /\ calc.to \in Slots
                   /\ stage = "done" => result \in [water : Waters, solids : Solids])'
      BY CalculationFiled, PTL
    <3>4. /\ calc'.cell \in Cells /\ calc'.to \in Slots
          /\ stage' = "done" => result' \in [water : Waters, solids : Solids]
      BY <1>1, <3>1, <3>3
    <3>5. calc' \in [cell : Cells, to : Slots]
      BY <3>1, <3>4
    <3>6. result' \in [water : Waters, solids : Solids]
      BY <1>2, <3>1, <3>4
    <3>7. given' \in [Cells -> [time : Nat, reaction : Nat]]
      <4>1. PICK n \in Nat : n = MaxShifts * Shift
        BY <1>2
      <4>2. given \in [Cells -> [time : 0..n, reaction : 0..n]]
        BY <1>2, <4>1
      <4>3. c \in Cells /\ given[c] \in [time : Nat, reaction : Nat]
        BY <3>1, <3>4, <4>2
      <4>4. DOMAIN given' = Cells /\ \A d \in Cells : d # c => given'[d] = given[d]
        BY <3>2, <4>2 DEF More
      <4>5. given'[c] = [[given[c] EXCEPT !.time = given[c].time + time]
                           EXCEPT !.reaction = given[c].reaction + fraction]
        BY <3>2, <4>2, <4>3 DEF More
      <4>6. given'[c] \in [time : Nat, reaction : Nat]
        <5>1. PICK x \in [time : Nat, reaction : Nat] : x = given[c]
          BY <4>3
        <5>2. PICK a, b \in Nat : a = x.time + time /\ b = x.reaction + fraction
          OBVIOUS
        <5>3. [x EXCEPT !.time = a] \in [time : Nat, reaction : Nat]
          OBVIOUS
        <5>4. PICK y \in [time : Nat, reaction : Nat] : y = [x EXCEPT !.time = a]
          BY <5>3
        <5>5. [y EXCEPT !.reaction = b] \in [time : Nat, reaction : Nat]
          OBVIOUS
        <5>6. given'[c] = [y EXCEPT !.reaction = b]
          BY <4>5, <5>1, <5>2, <5>4
        <5> QED
          BY <5>5, <5>6
      <4>7. given' = [d \in Cells |-> given'[d]]
        BY <3>2, <4>2 DEF More
      <4>8. \A d \in Cells : given'[d] \in [time : Nat, reaction : Nat]
        BY <4>2, <4>4, <4>6
      <4> QED
        BY <4>7, <4>8
    <3>8. (Typed /\ Order /\ Timed /\ pc # "idle" /\ given \in [Cells -> [time : Nat, reaction : Nat]]
             => given \in [Cells -> [time : 0..(MaxShifts * Shift), reaction : 0..(MaxShifts * Shift)]])'
      BY Bounded, PTL
    <3>9. given' \in Times
      BY <1>1, <2>1, <3>7, <3>8 DEF Kept
    <3> QED
      BY <1>2, <1>3, <2>1, <3>5, <3>6, <3>9
  <2> QED
    BY <2>1, <2>2, <2>3
<1>5. CASE Start
  <2>1. /\ given' = [c \in Cells |-> [time |-> 0, reaction |-> 0]]
        /\ runs < MaxRuns /\ runs' = runs + 1 /\ calc' = calc /\ result' = result
    BY <1>5 DEF Start
  <2>2. 0 \in 0..(MaxShifts * Shift)
    BY <1>2
  <2>3. given' \in Times
    BY <2>1, <2>2
  <2> QED
    BY <1>2, <1>3, <2>1, <2>3
<1>6. CASE LastCalculation
  <2>1. stage' = "done" /\ UNCHANGED <<calc, given, runs>>
    BY <1>6 DEF LastCalculation
  <2>2. (Kept => /\ stage # "none" => calc.cell \in Cells /\ calc.to \in Slots
                 /\ stage = "done" => result \in [water : Waters, solids : Solids])'
    BY CalculationFiled, PTL
  <2>3. result' \in [water : Waters, solids : Solids]
    BY <1>1, <2>1, <2>2
  <2> QED
    BY <1>2, <1>3, <2>1, <2>3
<1>7. CASE \/ FirstDone \/ Step \/ EndOfRun \/ Stop \/ Integrate \/ HalfDone \/ Flow \/ OneCellDone
           \/ AllCellsDone \/ DisperseDone \/ MixingRunDone \/ NextBeside \/ StagnantCellDone
           \/ GroupDone \/ StagnantDone \/ UNCHANGED vars
  <2>1. UNCHANGED <<calc, result, given, runs>>
    BY <1>7 DEF FirstDone, Step, EndOfRun, Stop, Integrate, HalfDone, Flow, OneCellDone, AllCellsDone,
                DisperseDone, MixingRunDone, NextBeside, StagnantCellDone, GroupDone, StagnantDone,
                Saver, Calculating, vars
  <2> QED
    BY <1>2, <1>3, <2>1
<1> QED
  BY <1>4, <1>5, <1>6, <1>7 DEF Next

LEMMA LeftInRun == Kept /\ pc # "idle" => Left
<1> SUFFICES ASSUME Kept, pc # "idle" PROVE Left
  OBVIOUS
<1>1. column \in Columns /\ Last \in Nat /\ Mobile(column) = 1..Last
  BY Numbers DEF Kept, Typed
<1>2. CASE pc = "stagnant" /\ beside # 0
  <2>1. beside \in Mobile(column) /\ left \subseteq Group(beside)
    BY <1>2 DEF Kept, Loops
  <2>2. beside \in 0..Last
    BY <1>1, <2>1
  <2>3. left \subseteq Cells
    BY <1>1, <2>1, Groups, Places
  <2> QED
    BY <2>2, <2>3 DEF Left
<1>3. CASE ~(pc = "stagnant" /\ beside # 0)
  <2>1. beside = 0 /\ left = {}
    BY <1>3 DEF Kept, Loops
  <2> QED
    BY <1>1, <2>1 DEF Left
<1> QED
  BY <1>2, <1>3

LEMMA LeftNext ==
  ASSUME Kept, Kept', Left, [Next]_vars
  PROVE  Left'
<1>1. (Kept /\ pc # "idle" => Left)'
  BY LeftInRun, PTL
<1>2. UNCHANGED <<column, beside, left>> \/ pc' # "idle"
  <2>1. CASE \/ First \/ Half \/ OneCell \/ Disperse \/ StagnantCell
    BY <2>1 DEF First, Half, OneCell, Disperse, StagnantCell, Begin, place, Calculating
  <2>2. CASE \/ Start \/ FirstDone \/ HalfDone \/ Flow \/ OneCellDone \/ DisperseDone
             \/ NextBeside \/ StagnantCellDone \/ GroupDone
    BY <2>2 DEF Start, FirstDone, HalfDone, Flow, OneCellDone, DisperseDone, NextBeside,
                StagnantCellDone, GroupDone
  <2>3. CASE Step \/ AllCellsDone \/ MixingRunDone \/ StagnantDone
    BY <2>3 DEF Step, AllCellsDone, MixingRunDone, StagnantDone, AfterRun
  <2>4. CASE EndOfRun \/ Stop \/ Integrate \/ LastCalculation \/ UNCHANGED vars
    BY <2>4 DEF EndOfRun, Stop, Integrate, LastCalculation, vars, place, Calculating
  <2> QED
    BY <2>1, <2>2, <2>3, <2>4 DEF Next
<1>3. CASE UNCHANGED <<column, beside, left>>
  BY <1>3 DEF Left, Last, Cells
<1>4. CASE pc' # "idle"
  BY <1>1, <1>4
<1> QED
  BY <1>2, <1>3, <1>4

LEMMA AccountsInit == Init => Accounts
<1> SUFFICES ASSUME Init PROVE Accounts
  OBVIOUS
<1>1. /\ column \in Columns /\ pc = "idle" /\ runs = 0 /\ step = 1 /\ mixrun = 0 /\ flown = FALSE
      /\ calc = [cell |-> 0, to |-> 0]
      /\ result = [water |-> column.water[1], solids |-> column.solids[1]]
      /\ given = [c \in Cells |-> [time |-> 0, reaction |-> 0]]
  BY DEF Init
<1>2. column.mixes \in Nat /\ MaxShifts \in Nat /\ MaxRuns \in Nat /\ Shift \in Nat
  BY <1>1, Numbers, Shares, BoundsAssumption
<1>3. Order
  <2>1. step \in 1..(MaxShifts + 1) /\ mixrun \in 0..(column.mixes + 1)
    BY <1>1, <1>2
  <2>2. flown \in BOOLEAN
    BY <1>1
  <2> QED
    BY <1>1, <2>1, <2>2 DEF Order, AfterFlow, StagnantRun
<1>4. Timed
  BY <1>1 DEF Timed
<1>5. Filed
  <2>1. 0 \in Cells /\ 0 \in Slots /\ 1 \in Cells /\ 1 \notin Boundaries(column)
    BY <1>1, Numbers, Places
  <2>2. result \in [water : Waters, solids : Solids]
    <3>1. column.water[1] \in Waters /\ column.solids[1] \in Solids
      BY <1>1, <2>1, ColumnsAssumption DEF IsColumn, Cells
    <3> QED
      BY <1>1, <3>1
  <2>3. 0 \in 0..(MaxShifts * Shift)
    BY <1>2
  <2>4. calc \in [cell : Cells, to : Slots] /\ runs \in 0..MaxRuns
    BY <1>1, <1>2, <2>1
  <2>5. given \in [Cells -> [time : 0..(MaxShifts * Shift), reaction : 0..(MaxShifts * Shift)]]
    BY <1>1, <2>3
  <2> QED
    BY <2>2, <2>4, <2>5 DEF Filed
<1>6. Left
  <2>1. Last \in Nat /\ beside = 0 /\ left = {}
    BY <1>1, Numbers DEF Init
  <2> QED
    BY <2>1 DEF Left
<1> QED
  BY <1>3, <1>4, <1>5, <1>6 DEF Accounts

LEMMA AccountsNext == Kept /\ Accounts /\ [Next]_vars => Accounts'
<1> SUFFICES ASSUME Kept, Order, Timed, Filed, Left, [Next]_vars
             PROVE  Order' /\ Timed' /\ Filed' /\ Left'
  BY DEF Accounts
<1>1. ASSUME UNCHANGED vars PROVE Order' /\ Timed'
  <2>1. UNCHANGED <<column, pc, step, mixrun, flown, todo, beside, left, stage, calc, given>>
    BY <1>1 DEF vars
  <2>2. Order' /\ AfterFlow' = AfterFlow /\ StagnantRun' = StagnantRun
    BY <2>1, OrderStays
  <2>3. \A c : (Begun(c)' <=> Begun(c)) /\ (BegunBeside(c)' <=> BegunBeside(c))
    BY <2>1 DEF Begun, BegunBeside
  <2>4. \A c : RunsOf(c)' = RunsOf(c) /\ Rounds(c)' = Rounds(c)
    BY <2>1, <2>2, <2>3 DEF RunsOf, Rounds
  <2>5. \A c : FlowTime(c)' = FlowTime(c) /\ FlowReaction(c)' = FlowReaction(c)
    BY <2>1, <2>2, <2>3, SameTimes DEF FlowTime, FlowReaction
  <2>6. CASE pc = "idle"
    BY <2>1, <2>2, <2>6 DEF Timed
  <2>7. CASE pc # "idle"
    BY <2>1, <2>2, <2>4, <2>5, <2>7, TimesStay DEF Kept, Typed
  <2> QED
    BY <2>6, <2>7
<1>2. Order' /\ Timed'
  BY <1>1, StartTimes, FirstTimes, FirstDoneTimes, StepTimes, IdleTimes, InCalculationTimes,
     HalfTimesGiven, HalfDoneTimes, FlowTimes, OneCellTimes, OneCellDoneTimes, AllCellsDoneTimes,
     DisperseTimes, DisperseDoneTimes, MixingRunDoneTimes, NextBesideTimes, StagnantCellTimes,
     StagnantCellDoneTimes, GroupDoneTimes, StagnantDoneTimes DEF Next
<1>3. Kept'
  BY KeptNext
<1>4. Filed'
  BY <1>2, <1>3, FiledNext
<1>5. Left'
  BY <1>3, LeftNext
<1> QED
  BY <1>2, <1>4, <1>5

LEMMA Accounted == Spec => [](Kept /\ Accounts)
<1>1. Kept /\ Accounts /\ [Next]_vars => (Kept /\ Accounts)'
  BY KeptNext, AccountsNext
<1> QED
  BY <1>1, KeptInit, AccountsInit, PTL DEF Spec

\* Types of all variables; the times and the REACTION a cell has got never exceed those of the
\* shifts of a run, whatever the mixing runs and the flow.
THEOREM ColumnTyped == Spec => []TypeOK
<1>1. Kept /\ Accounts => TypeOK
  <2> SUFFICES ASSUME Kept, Accounts PROVE TypeOK
    OBVIOUS
  <2>1. Typed /\ Loops /\ Order /\ Filed /\ Left
    BY DEF Kept, Accounts
  <2>2. \A c \in Mobile(column) \cup Stagnant(column) : sol[c] \in Waters
    BY <2>1 DEF Typed, Wet
  <2>3. step \in 1..(MaxShifts + 1) /\ mixrun \in 0..(column.mixes + 1) /\ flown \in BOOLEAN
    BY <2>1 DEF Order
  <2> QED
    BY <2>1, <2>2, <2>3, Zenon DEF TypeOK, Typed, Loops, Filed, Left
<1> QED
  BY <1>1, Accounted, PTL

\* Before each shift and after the last, the kinetics of every cell have been integrated over the
\* time of the shifts before, no more and no less, however it is divided over the mixing runs and
\* the halves around the flow; and every mobile cell has got the REACTION of those shifts.
THEOREM TimesAreGivenOnce == Spec => []GivenOnceAShift
<1>1. Kept /\ Accounts => GivenOnceAShift
  <2> SUFFICES ASSUME Kept, Accounts, pc = "step"
               PROVE  /\ \A c \in column.kinetics : given[c].time = (step - 1) * Shift
                      /\ \A c \in Mobile(column) : given[c].reaction = (step - 1) * Shift
    BY DEF GivenOnceAShift
  <2>1. column \in Columns /\ Order /\ Timed
    BY DEF Kept, Typed, Accounts
  <2>2. mixrun = 0 /\ ~flown /\ ~AfterFlow /\ ~StagnantRun /\ step \in 1..(MaxShifts + 1)
    BY <2>1 DEF Order, AfterFlow, StagnantRun
  <2>3. \A c : RunsOf(c) = 0 /\ FlowTime(c) = 0 /\ FlowReaction(c) = 0 /\ Rounds(c) = 0
    BY <2>2 DEF RunsOf, FlowTime, FlowReaction, Rounds
  <2>4. PICK s, k, t \in Nat : s = Shift /\ k = KinTime /\ t = StagnantTime
    BY <2>1, Shares
  <2>5. Shifts = (step - 1) * s /\ Shifts \in Int /\ 0 * k = 0 /\ 0 * t = 0
    BY <2>2, <2>4 DEF Shifts
  <2>6. \A c \in Mobile(column) :
          /\ c \in column.kinetics => given[c].time = Shifts + 0 * k + 0
          /\ given[c].reaction = Shifts + 0 * k + 0
    BY <2>1, <2>3, <2>4 DEF Timed
  <2>7. \A c \in Stagnant(column) : given[c].time = Shifts + 0 * t
    BY <2>1, <2>3, <2>4 DEF Timed
  <2>8. column.kinetics \subseteq Mobile(column) \cup Stagnant(column)
    BY <2>1, Numbers
  <2> QED
    BY <2>4, <2>5, <2>6, <2>7, <2>8
<1> QED
  BY <1>1, Accounted, PTL
================================================================================
