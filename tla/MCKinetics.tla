---------------------------- MODULE MCKinetics ----------------------------
(***************************************************************************)
(* CellKinetics for TLC: cells for the orders of the method, with and      *)
(* without phases and solid solutions, for both kinds of activity models.  *)
(***************************************************************************)
EXTENDS CellKinetics

MCKnobs == [itmax |-> 0, tol |-> 0, min |-> 0, diagonal |-> FALSE, small |-> FALSE,
            scaled |-> FALSE, delay |-> FALSE, aqueous |-> FALSE, positive |-> FALSE,
            full |-> FALSE]

MCCell(rk_, divided, pp, ss, pitzer, tries, small, max_runs) ==
  [amounts |-> [sol |-> 0, pp |-> IF pp THEN 1 ELSE 0, ss |-> IF ss THEN 1 ELSE 0, m |-> 1],
   rk |-> rk_, divided |-> divided, bad_step_max |-> 1, pp |-> pp, ss |-> ss,
   pitzer |-> pitzer, max_tries |-> tries, knobs |-> [MCKnobs EXCEPT !.small = small],
   max_runs |-> max_runs]

MCCells ==
  {MCCell(1, FALSE, TRUE, FALSE, FALSE, 3, FALSE, 1),
   MCCell(1, FALSE, FALSE, TRUE, TRUE, 10, TRUE, 1),
   MCCell(2, FALSE, TRUE, FALSE, FALSE, 1000, FALSE, 1),
   MCCell(3, FALSE, FALSE, TRUE, FALSE, 2, FALSE, 1),
   MCCell(6, TRUE, TRUE, TRUE, FALSE, 2, FALSE, 1),
   MCCell(2, FALSE, FALSE, FALSE, FALSE, 11, FALSE, 2),
   MCCell(3, FALSE, FALSE, FALSE, TRUE, 5, FALSE, 2)}

\* Order 2 with solid solutions.
MCSecondOrder == {MCCell(2, FALSE, FALSE, TRUE, FALSE, 1, FALSE, 1)}
===========================================================================
