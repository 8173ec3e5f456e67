------------------------------- MODULE ColumnCells -------------------------------
(***************************************************************************)
(* The cells of a column of ADVECTION or TRANSPORT and what a calculation  *)
(* does to one of them.  Cells 1..cells hold mobile water, 0 and cells + 1 *)
(* the boundary solutions; layer n of stagnant water beside mobile cell i  *)
(* is cell i + 1 + n * cells.  A cell has a solution and its solids: all   *)
(* the other reactants with its number, the kinetic ones among them.       *)
(***************************************************************************)
EXTENDS Integers

CONSTANTS
  Columns,              \* columns, see IsColumn
  Waters,               \* solutions
  Solids,               \* reactants of a cell
  NoWater,              \* a solution that is not defined
  Equilibrated(_, _),   \* set_and_run: [water, solids] from a solution and solids
  Integrated(_, _),     \* the kinetics of a cell: [water, solids]
  Mixed(_, _, _),       \* the solution mixed from those below, in and above a cell
  Exchanged(_, _)       \* the solution of a cell mixed with that of the next layer

Mobile(u) == 1..u.cells

Boundaries(u) == {0, u.cells + 1}

Immobile(u, i, n) == i + 1 + n * u.cells

Stagnant(u) == {Immobile(u, i, n) : i \in Mobile(u), n \in 1..u.layers} \ u.missing

CellsOf(u) == Mobile(u) \cup Boundaries(u) \cup Stagnant(u)

\* Stagnant cells beside a mobile one.
Beside(u, i) == {Immobile(u, i, n) : n \in 1..u.layers} \ u.missing

IsColumn(u) ==
  /\ u.kind \in {"advection", "transport"}
  /\ u.cells \in Nat \ {0} /\ u.layers \in Nat
  /\ u.missing \subseteq Nat                     \* stagnant cells without a solution
  \* as read: boundary solutions may not be defined
  /\ u.water \in [CellsOf(u) -> Waters \cup {NoWater}]
  /\ \A c \in CellsOf(u) \ Boundaries(u) : u.water[c] # NoWater
  /\ u.solids \in [CellsOf(u) -> Solids]
  /\ u.closed \subseteq Boundaries(u)            \* boundary condition 2
  /\ u.fixed \in BOOLEAN                         \* boundary condition 1 at an end
  /\ u.flow \in {-1, 0, 1}                       \* ishift
  /\ u.mixes \in Nat                             \* nmix
  /\ u.kinetics \subseteq Mobile(u) \cup Stagnant(u)
  /\ u.mixing \subseteq Mobile(u)                \* ADVECTION: cells with a MIX of neighbours
  /\ u.kind = "advection" => u.flow = 1 /\ u.layers = 0
  \* init_mix: none without dispersion and diffusion, else two at least with a flow and a
  \* fixed boundary.  Without both the column is not calculated at all.
  /\ u.kind = "transport" /\ u.flow = 0 => u.mixes > 0
  /\ u.kind = "transport" /\ u.flow # 0 /\ u.fixed => u.mixes # 1

ASSUME ColumnsAssumption ==
  /\ \A u \in Columns : IsColumn(u)
  /\ NoWater \notin Waters
  /\ \A w \in Waters, s \in Solids :
       /\ Equilibrated(w, s) \in [water : Waters, solids : Solids]
       /\ Integrated(w, s) \in [water : Waters, solids : Solids]
  \* MIX leaves out a boundary solution that is not there
  /\ \A w \in Waters : \A below, above \in Waters \cup {NoWater} : Mixed(below, w, above) \in Waters
  /\ \A w, next \in Waters : Exchanged(w, next) \in Waters

\* run_reactions: a cell with kinetics is equilibrated with the water that has come,
\* integrated, and equilibrated once more.
Calculated(u, c, w, s, kinetic) ==
  IF kinetic /\ c \in u.kinetics
    THEN LET first == Equilibrated(w, s)
             then == Integrated(first.water, first.solids)
         IN Equilibrated(then.water, then.solids)
    ELSE Equilibrated(w, s)
===============================================================================
