---------------------------- MODULE MCColumn ----------------------------
(***************************************************************************)
(* ColumnTransport for TLC: calculations that are numbers modulo a prime,  *)
(* in which each argument counts with a weight of its own, and columns of  *)
(* one to three cells for the cases that transport() tells apart.          *)
(***************************************************************************)
EXTENDS ColumnTransport, TLC

MCWaters == 0..100
MCSolids == 0..10
MCNoWater == -1

MCEquilibrated(w, s) == [water |-> (3 * w + 11 * s + 2) % 101, solids |-> (2 * s + w) % 11]
MCIntegrated(w, s) == [water |-> (7 * w + 5 * s + 4) % 101, solids |-> (3 * s + w + 1) % 11]
MCMixed(l, o, h) == (7 * l + 3 * o + 5 * h + 1) % 101
MCExchanged(o, t) == (5 * o + 2 * t + 9) % 101

\* The contents of a column as read.
Read(u, undefined) ==
  u @@ [water |-> [c \in CellsOf(u) |-> IF c \in undefined THEN MCNoWater ELSE (13 * c + 1) % 101],
        solids |-> [c \in CellsOf(u) |-> (4 * c + 1) % 11]]

MCTransport(n, flow, mixes, fixed, kinetics, undefined, closed) ==
  Read([kind |-> "transport", cells |-> n, layers |-> 0, missing |-> {}, closed |-> closed,
        fixed |-> fixed, flow |-> flow, mixes |-> mixes, kinetics |-> kinetics, mixing |-> {}],
       undefined)

MCStagnant(n, layers, missing, flow, mixes, kinetics) ==
  Read([kind |-> "transport", cells |-> n, layers |-> layers, missing |-> missing,
        closed |-> {}, fixed |-> TRUE, flow |-> flow, mixes |-> mixes, kinetics |-> kinetics,
        mixing |-> {}], IF flow = 0 THEN {0, n + 1} ELSE {})

MCAdvection(n, kinetics, mixing, undefined) ==
  Read([kind |-> "advection", cells |-> n, layers |-> 0, missing |-> {}, closed |-> {},
        fixed |-> FALSE, flow |-> 1, mixes |-> 0, kinetics |-> kinetics, mixing |-> mixing],
       undefined)

MCColumns ==
  \* advection
  {MCAdvection(3, {2}, {}, {}), MCAdvection(2, {1, 2}, {1}, {}), MCAdvection(2, {}, {2}, {0})}
  \* flow only, either way, with kinetics in the first cell or in the only one
  \cup {MCTransport(3, f, 0, FALSE, {1, 3}, {}, {}) : f \in {-1, 1}}
  \cup {MCTransport(1, 1, 0, FALSE, {1}, {2}, {2})}
  \* flow and mixing, from none to some of the runs before the flow
  \cup {MCTransport(2, f, m, FALSE, {1, 2}, {}, {}) : f \in {-1, 1}, m \in 1..2}
  \cup {MCTransport(2, f, m, TRUE, {1}, {}, {}) : f \in {-1, 1}, m \in 2..3}
  \* diffusion, boundary solutions that are not defined, closed ends
  \cup {MCTransport(3, 0, m, FALSE, {2}, {0, 4}, {0, 4}) : m \in 1..2}
  \* a boundary solution that is needed
  \cup {MCTransport(2, 1, 0, FALSE, {}, {0}, c) : c \in {{}, {0}}}
  \cup {MCTransport(2, 1, 0, FALSE, {}, {0, 3}, {})}
  \cup {MCTransport(2, -1, 1, FALSE, {}, {3}, {3})}
  \* stagnant layers, with cells that are missing in the first one
  \cup {MCStagnant(2, 1, {}, f, m, {1, 4}) : f \in {-1, 1}, m \in {0, 2}}
  \cup {MCStagnant(2, 2, {4}, f, 2, {5, 7}) : f \in 0..1}
  \cup {MCStagnant(2, 2, {5}, 1, 0, {2, 6})}
==========================================================================
