----------------------------- MODULE ColumnTransport -----------------------------
(***************************************************************************)
(* advection() and transport() with run_reactions() and rk_kinetics(): the *)
(* cells of a column are calculated one after the other and in place.  The *)
(* result of a cell that its neighbour still has to mix with waits in      *)
(* solution -2, that of a stagnant cell k in -2 - k, and the solution that *)
(* the kinetics of a cell work on is put aside in save_old.                *)
(*                                                                         *)
(* Multicomponent and implicit diffusion, electro-migration, the transport *)
(* of surfaces, heat, the mixing of stagnant cells with a boundary         *)
(* solution and the calculations for printing only are left out.  Times    *)
(* are integers, in units that all mixing runs have a whole number of.     *)
(***************************************************************************)
EXTENDS ColumnCells

CONSTANTS
  MaxShifts,  \* count_shifts
  MaxRuns     \* bound: calculations of the column

ASSUME BoundsAssumption == MaxShifts \in Nat /\ MaxRuns \in Nat

VARIABLES
  column,   \* the column, as read
  pc,       \* where advection() or transport() is, see TypeOK
  step,     \* advection_step, transport_step
  mixrun,   \* j, the mixing run
  flown,    \* the advective part of the step is done
  todo,     \* the cells that the loop under way has still to do
  beside,   \* i of mix_stag(i); 0 outside
  left,     \* the cells that mix_stag() has still to do
  stage,    \* of the calculation under way: "none", "mixed", "integrated", "done"
  calc,     \* its cell and nsaver
  result,   \* the solution and solids just calculated, those saver() saves
  sol,      \* Rxn_solution_map
  solids,   \* the other reactants, of each cell
  given,    \* kinetic time and fractions of the REACTION each cell has got in this run
  settled,  \* history: the column after the last loop that was completed
  runs

vars == <<column, pc, step, mixrun, flown, todo, beside, left, stage, calc, result, sol,
          solids, given, settled, runs>>

place == <<step, mixrun, flown, todo, beside, left>>

--------------------------------------------------------------------------------
(* Places *)

Cells == CellsOf(column)

Last == column.cells

\* nsaver of a stagnant cell.
Waiting(c) == -2 - c

SaveOld == -2 - (column.cells * (1 + column.layers) + 2)

Slots == Cells \cup {-2, SaveOld} \cup {Waiting(c) : c \in Stagnant(column)}

\* Loops take the cells in the order of their numbers.
Lowest(set) == {c \in set : \A b \in set : c <= b}

\* first_c
FirstCell == IF column.flow >= 0 THEN 1 ELSE Last

--------------------------------------------------------------------------------
(* Times *)

Shift ==
  IF column.kind = "advection" \/ column.mixes = 0 THEN 2
  ELSE 2 * column.mixes * (column.mixes + 1)

\* stagkin_time
StagnantTime == IF column.mixes < 2 THEN Shift ELSE Shift \div column.mixes

\* Mutant: the flow takes no part of the time.
KinTime_IgnoresFlow == StagnantTime

\* kin_time
KinTime ==
  IF column.kind = "advection" THEN Shift
  ELSE IF column.flow # 0 THEN Shift \div (1 + column.mixes) ELSE StagnantTime

\* Mutant: the fraction of a mixing run, as if there were no flow.
Fraction_IgnoresFlow == StagnantTime

\* step_fraction, of a REACTION of Shift.  It is divided as kin_time is.
Fraction == KinTime

\* Half of the mixing runs come before the flow, if there is a flow and the boundaries
\* take part.  (b_c)
RunsBefore ==
  IF column.flow = 0 \/ column.fixed THEN column.mixes \div 2 ELSE 0

--------------------------------------------------------------------------------
(* run_reactions() *)

\* rk_kinetics saves solution i if the result does not go there.
PutAside(c, to) == IF to = c THEN sol ELSE [sol EXCEPT ![SaveOld] = sol[c]]

\* The first calculation, with the water that has come to the cell.
Begin(c, came, to, time, fraction) ==
  /\ stage = "none"
  /\ calc' = [cell |-> c, to |-> to]
  /\ given' = [given EXCEPT ![c].time = @ + time, ![c].reaction = @ + fraction]
  /\ LET first == Equilibrated(came, solids[c])
     IN \/ /\ c \notin column.kinetics \/ time = 0
           /\ stage' = "done" /\ result' = first
           /\ UNCHANGED <<sol, solids>>
        \/ /\ c \in column.kinetics /\ time > 0
           /\ stage' = "mixed"
           /\ sol' = [PutAside(c, to) EXCEPT ![c] = first.water]
           /\ solids' = [solids EXCEPT ![c] = first.solids]
           /\ UNCHANGED result
  /\ UNCHANGED <<column, pc, place, settled, runs>>

\* The integration over the time, with its calls of saver().
Integrate ==
  /\ stage = "mixed" /\ stage' = "integrated"
  /\ LET c == calc.cell
         done == Integrated(sol[c], solids[c])
     IN /\ sol' = [sol EXCEPT ![c] = done.water]
        /\ solids' = [solids EXCEPT ![c] = done.solids]
  /\ UNCHANGED <<column, pc, place, calc, result, given, settled, runs>>

\* "Run one more time to get distribution of species", and solution i is put back.
LastCalculation ==
  /\ stage = "integrated" /\ stage' = "done"
  /\ LET c == calc.cell
     IN /\ result' = Equilibrated(sol[c], solids[c])
        /\ sol' = IF calc.to = c THEN sol ELSE [sol EXCEPT ![c] = sol[SaveOld]]
  /\ UNCHANGED <<column, pc, place, calc, solids, given, settled, runs>>

\* saver(), of a map of solutions.  The solids go to the cell at once.
Saver(map) ==
  /\ stage = "done" /\ stage' = "none"
  /\ sol' = [map EXCEPT ![calc.to] = result.water]
  /\ solids' = [solids EXCEPT ![calc.cell] = result.solids]
  /\ UNCHANGED <<column, calc, result, given, runs>>

\* The mobile cell first, if it has a layer beside it.
Group(i) ==
  Beside(column, i) \cup (IF Immobile(column, i, 1) \in Beside(column, i) THEN {i} ELSE {})

\* The mixture in a cell of mix_stag(i): the mobile one mixes with the first layer, a layer
\* with the next cell towards the mobile one.
Came(i, c) ==
  LET first == Immobile(column, i, 1)
      towards == IF c = i THEN first ELSE IF c = first THEN i ELSE c - Last
  IN IF towards \in Cells THEN Exchanged(sol[c], sol[towards]) ELSE sol[c]

--------------------------------------------------------------------------------
(* The parts of a run *)

Contents(s, r) == [water |-> [c \in Cells |-> s[c]], solids |-> r]

Settle == settled' = Contents(sol', solids')

Unsettled == UNCHANGED settled

Calculating == UNCHANGED <<stage, calc, result, solids, given, runs, column>>

\* Where a step goes on after its mixing run number j.
AfterRun(j) ==
  \/ /\ column.flow # 0 /\ ~flown /\ j >= RunsBefore
     /\ pc' = "half" /\ todo' = {} /\ UNCHANGED <<step, mixrun, flown>>
  \/ /\ flown \/ j < RunsBefore \/ column.flow = 0
     /\ j < column.mixes
     /\ pc' = "mix" /\ todo' = Mobile(column) /\ mixrun' = j + 1 /\ UNCHANGED <<step, flown>>
  \/ /\ flown \/ column.flow = 0
     /\ j = column.mixes
     /\ pc' = "step" /\ todo' = {} /\ step' = step + 1 /\ flown' = FALSE /\ mixrun' = 0

\* The solution that flows into the column must be defined; the other boundary solution is
\* a copy of its neighbour if it is not.
Inflow == IF column.flow = 1 THEN {0} ELSE IF column.flow = -1 THEN {Last + 1} ELSE {}

Filled ==
  [c \in Slots |->
     IF c \in Boundaries(column) \ Inflow /\ sol[c] = NoWater
       THEN sol[IF c = 0 THEN 1 ELSE Last] ELSE sol[c]]

Ready == \A c \in Inflow : sol[c] # NoWater

Start ==
  /\ pc = "idle" /\ runs < MaxRuns
  /\ runs' = runs + 1
  /\ step' = 1 /\ mixrun' = 0 /\ flown' = FALSE /\ beside' = 0 /\ left' = {}
  /\ given' = [c \in Cells |-> [time |-> 0, reaction |-> 0]]
  /\ \/ /\ column.kind = "advection" /\ Ready
        /\ pc' = "step" /\ todo' = {} /\ UNCHANGED sol
     \/ /\ column.kind = "transport"
        /\ pc' = "first" /\ todo' = Cells \ column.closed
        /\ sol' = Filled
  /\ UNCHANGED <<column, stage, calc, result, solids>>
  /\ Settle

\* Calculations before the first step.
First ==
  /\ pc = "first"
  /\ \E c \in Lowest(todo) : sol[c] # NoWater /\ Begin(c, sol[c], c, 0, 0)

FirstDone ==
  /\ pc = "first"
  /\ Saver(sol)
  /\ Settle
  /\ todo' = todo \ {calc.cell}
  /\ pc' = IF todo' = {} THEN "step" ELSE pc
  /\ UNCHANGED <<step, mixrun, flown, beside, left>>

Step ==
  /\ pc = "step" /\ step <= MaxShifts /\ Ready
  /\ \/ /\ column.kind = "advection"
        /\ pc' = "flow" /\ UNCHANGED place
     \/ /\ column.kind = "transport"
        /\ AfterRun(0) /\ UNCHANGED <<beside, left>>
  /\ Unsettled /\ Calculating /\ UNCHANGED sol

\* The water in the first cell reacts for half of the time before it moves on.
Resident == Last > 1

Half ==
  /\ pc = "half" /\ stage = "none"
  /\ IF Resident /\ FirstCell \in column.kinetics
       THEN Begin(FirstCell, sol[FirstCell], FirstCell, KinTime \div 2, 0)
       ELSE /\ pc' = "flow" /\ UNCHANGED <<place, sol>> /\ Unsettled /\ Calculating

HalfDone ==
  /\ pc = "half" /\ Saver(sol) /\ Settle
  /\ pc' = "flow" /\ UNCHANGED place

\* The loop over Rxn_copy, from last_c to first_c.
Moved ==
  [c \in Slots |-> IF c \in Mobile(column) THEN sol[c - column.flow] ELSE sol[c]]

Flow ==
  /\ pc = "flow"
  /\ sol' = Moved
  /\ \/ /\ column.kind = "advection"
        /\ pc' = "mix" /\ mixrun' = 1
     \/ /\ column.kind = "transport"
        /\ pc' = "cells" /\ UNCHANGED mixrun
  /\ flown' = TRUE /\ todo' = Mobile(column)
  /\ UNCHANGED <<step, beside, left>> /\ Calculating
  /\ Settle

\* The cells after the flow.
OneCell ==
  /\ pc = "cells"
  /\ \E c \in Lowest(todo) :
       LET half == Resident /\ c = FirstCell
       IN Begin(c, sol[c], c, IF half THEN KinTime \div 2 ELSE KinTime, Fraction)

OneCellDone ==
  /\ pc = "cells"
  /\ Saver(sol) /\ Settle
  /\ todo' = todo \ {calc.cell}
  /\ \/ /\ column.mixes = 0 /\ Beside(column, calc.cell) # {}
        /\ pc' = "stagnant" /\ beside' = calc.cell /\ left' = Group(calc.cell)
     \/ /\ column.mixes > 0 \/ Beside(column, calc.cell) = {}
        /\ UNCHANGED <<pc, beside, left>>
  /\ UNCHANGED <<step, mixrun, flown>>

AllCellsDone ==
  /\ pc = "cells" /\ todo = {} /\ stage = "none"
  /\ AfterRun(RunsBefore)
  /\ UNCHANGED <<beside, left, sol>> /\ Unsettled /\ Calculating

--------------------------------------------------------------------------------
(* A mixing run *)

Disperse ==
  /\ pc = "mix"
  /\ \E c \in Lowest(todo) :
       LET came == IF column.kind = "advection" /\ c \notin column.mixing THEN sol[c]
                   ELSE Mixed(sol[c - 1], sol[c], sol[c + 1])
       IN Begin(c, came, -2, KinTime, Fraction)

\* Mutant: the cell before gets the result of this one.
Passed_TakesNew(c) == IF c > 1 THEN [sol EXCEPT ![c - 1] = result.water] ELSE sol

\* The result of the cell before moves to its place.
Passed(c) == IF c > 1 THEN [sol EXCEPT ![c - 1] = sol[-2]] ELSE sol

DisperseDone ==
  /\ pc = "mix"
  /\ Saver(Passed(calc.cell)) /\ Unsettled
  /\ todo' = todo \ {calc.cell}
  /\ UNCHANGED <<pc, step, mixrun, flown, beside, left>>

\* The last result, and then the stagnant cells.
MixingRunDone ==
  /\ pc = "mix" /\ todo = {} /\ stage = "none"
  /\ sol' = [sol EXCEPT ![Last] = sol[-2]]
  /\ \/ /\ column.kind = "advection"
        /\ pc' = "step" /\ step' = step + 1 /\ mixrun' = 0 /\ flown' = FALSE
        /\ UNCHANGED <<todo, beside, left>>
     \/ /\ column.kind = "transport" /\ Stagnant(column) = {}
        /\ AfterRun(mixrun) /\ UNCHANGED <<beside, left>>
     \/ /\ column.kind = "transport" /\ Stagnant(column) # {}
        /\ pc' = "stagnant" /\ todo' = Mobile(column)
        /\ UNCHANGED <<step, mixrun, flown, beside, left>>
  /\ Calculating
  /\ Settle

--------------------------------------------------------------------------------
(* mix_stag() *)

\* After a mixing run the loop over the mobile cells takes the next.
NextBeside ==
  /\ pc = "stagnant" /\ beside = 0
  /\ \E i \in Lowest(todo) : todo' = todo \ {i} /\ beside' = i /\ left' = Group(i)
  /\ UNCHANGED <<pc, step, mixrun, flown, sol>> /\ Unsettled /\ Calculating

\* The mobile cell has had its kinetics and its part of the REACTION.
StagnantCell ==
  /\ pc = "stagnant"
  /\ \E c \in Lowest(left) :
       IF c = beside THEN Begin(c, Came(beside, c), -2, 0, 0)
       ELSE Begin(c, Came(beside, c), Waiting(c), StagnantTime, Fraction)

StagnantCellDone ==
  /\ pc = "stagnant"
  /\ Saver(sol) /\ Unsettled
  /\ left' = left \ {calc.cell}
  /\ UNCHANGED <<pc, step, mixrun, flown, todo, beside>>

\* "after all mixing is done, the temporal solution becomes the original"
Originals(i) ==
  [c \in Slots |-> IF c \in Beside(column, i) THEN sol[Waiting(c)]
                   ELSE IF c = i /\ i \in Group(i) THEN sol[-2] ELSE sol[c]]

GroupDone ==
  /\ pc = "stagnant" /\ beside # 0 /\ left = {} /\ stage = "none"
  /\ sol' = Originals(beside)
  /\ beside' = 0
  /\ pc' = IF column.mixes = 0 THEN "cells" ELSE "stagnant"
  /\ UNCHANGED <<step, mixrun, flown, todo, left>> /\ Calculating
  /\ Settle

StagnantDone ==
  /\ pc = "stagnant" /\ beside = 0 /\ todo = {}
  /\ AfterRun(mixrun)
  /\ UNCHANGED <<beside, left, sol>> /\ Unsettled /\ Calculating

--------------------------------------------------------------------------------
(* The end of a run *)

EndOfRun ==
  /\ pc = "step" /\ step > MaxShifts /\ Ready
  /\ pc' = "idle"
  /\ UNCHANGED <<place, sol>> /\ Unsettled /\ Calculating

\* An error of a calculation, of a solution that is not found or of the input: what has been
\* saved so far stays.
Stop ==
  /\ \/ pc \notin {"idle", "step"} /\ stage \in {"mixed", "integrated"}
     \/ pc \in {"first", "mix", "half", "stagnant"} /\ stage = "none"
     \/ pc = "cells" /\ todo # {} /\ stage = "none"
     \/ pc = "step" /\ ~Ready
  /\ pc' = "idle" /\ stage' = "none"
  /\ UNCHANGED <<column, place, calc, result, sol, solids, given, runs>>
  /\ Settle

Init ==
  /\ column \in Columns
  /\ pc = "idle" /\ runs = 0
  /\ step = 1 /\ mixrun = 0 /\ flown = FALSE /\ todo = {} /\ beside = 0 /\ left = {}
  /\ stage = "none"
  /\ calc = [cell |-> 0, to |-> 0]
  /\ result = [water |-> column.water[1], solids |-> column.solids[1]]
  /\ sol = [c \in Slots |-> IF c \in Cells THEN column.water[c] ELSE NoWater]
  /\ solids = column.solids
  /\ given = [c \in Cells |-> [time |-> 0, reaction |-> 0]]
  /\ settled = [water |-> column.water, solids |-> column.solids]

Next ==
  \/ Start \/ First \/ FirstDone \/ Step \/ EndOfRun \/ Stop
  \/ Integrate \/ LastCalculation
  \/ Half \/ HalfDone \/ Flow \/ OneCell \/ OneCellDone \/ AllCellsDone
  \/ Disperse \/ DisperseDone \/ MixingRunDone
  \/ NextBeside \/ StagnantCell \/ StagnantCellDone \/ GroupDone \/ StagnantDone

Spec == Init /\ [][Next]_vars

--------------------------------------------------------------------------------
(* Properties *)

\* The types.  A cell never gets more time or REACTION than the shifts have.
TypeOK ==
  /\ column \in Columns
  /\ pc \in {"idle", "first", "step", "half", "flow", "cells", "mix", "stagnant"}
  /\ step \in 1..(MaxShifts + 1) /\ mixrun \in 0..(column.mixes + 1) /\ flown \in BOOLEAN
  /\ todo \subseteq Cells /\ left \subseteq Cells /\ beside \in 0..Last
  /\ stage \in {"none", "mixed", "integrated", "done"}
  /\ calc \in [cell : Cells, to : Slots]
  /\ result \in [water : Waters, solids : Solids]
  /\ sol \in [Slots -> Waters \cup {NoWater}]
  /\ \A c \in Mobile(column) \cup Stagnant(column) : sol[c] \in Waters
  /\ solids \in [Cells -> Solids]
  /\ given \in [Cells -> [time : 0..(MaxShifts * Shift), reaction : 0..(MaxShifts * Shift)]]
  /\ runs \in 0..MaxRuns

\* Calculated cell by cell, in place and with temporary solutions, every mixing step has the
\* result of mixing all cells at once from the solutions before it, and the flow moves each
\* solution by one cell; also in a run that follows one that was stopped halfway.
Col == INSTANCE Column
         WITH running <- pc # "idle", water <- settled.water, solids <- settled.solids

ColumnSpec == Col!Spec

\* With flow, mixing runs before and after it, a half time in the first cell and stagnant
\* layers, the kinetics of every cell are integrated over the time step, once, in each shift,
\* and every mobile cell gets the "Reaction defined for a shift...".
GivenOnceAShift ==
  pc = "step" =>
    /\ \A c \in column.kinetics : given[c].time = (step - 1) * Shift
    /\ \A c \in Mobile(column) : given[c].reaction = (step - 1) * Shift
===============================================================================
