------------------------------ MODULE CellKinetics ------------------------------
(***************************************************************************)
(* rk_kinetics(), the integration of the kinetics of one cell, and         *)
(* set_and_run_wrapper(), which tries each calculation with one set of     *)
(* convergence parameters after the other (kinetics.cpp, step.cpp).        *)
(*                                                                         *)
(* Amounts are moles of one element in the solution, in the equilibrium    *)
(* phases, in the solid solutions and in the kinetic reactants.  A         *)
(* calculation may distribute what the first three have in any way, and it *)
(* may fail.  Rates dissolve or precipitate the reactants; rates, the      *)
(* error of a step and the next step size are any.  CVODE and the formulas *)
(* of the method are left out.                                             *)
(***************************************************************************)
EXTENDS Integers

CONSTANTS
  Cells,    \* cells with kinetics, see IsCell
  KinTime,  \* kin_time, in units of the smallest time step that the integration takes
  Stops     \* calculations may end with an error

Settings ==
  [itmax : Nat, tol : Int, min : Nat,
   diagonal : BOOLEAN, small : BOOLEAN, scaled : BOOLEAN, delay : BOOLEAN,
   aqueous : BOOLEAN, positive : BOOLEAN, full : BOOLEAN]

Amounts == [sol : Nat, pp : Nat, ss : Nat, m : Nat]

IsCell(u) ==
  /\ u.amounts \in Amounts
  /\ u.rk \in {1, 2, 3, 6}         \* -runge_kutta
  /\ u.divided \in BOOLEAN         \* -step_divide above 1
  /\ u.bad_step_max \in Nat
  /\ u.pp \in BOOLEAN /\ ~u.pp => u.amounts.pp = 0     \* has EQUILIBRIUM_PHASES
  /\ u.ss \in BOOLEAN /\ ~u.ss => u.amounts.ss = 0     \* has SOLID_SOLUTIONS
  /\ u.pitzer \in BOOLEAN          \* pitzer_model or sit_model
  /\ u.max_tries \in Nat \ {0}
  /\ u.max_runs \in Nat            \* bound: calculations of the cell
  /\ u.knobs \in Settings
  /\ ~u.knobs.aqueous /\ ~u.knobs.positive /\ ~u.knobs.full

ASSUME CellsAssumption ==
  /\ \A u \in Cells : IsCell(u)
  /\ KinTime \in Nat \ {0} /\ Stops \in BOOLEAN

VARIABLES
  cell,     \* the cell
  pc,       \* where rk_kinetics() is, see TypeOK
  call,     \* what the calculation under way is for, and the moles that have reacted
  attempt,  \* j of set_and_run_wrapper()
  knobs,    \* the convergence parameters; tol and min as powers of ten, itmax of two
  old,      \* those saved by set_and_run_wrapper()
  kept,     \* the phases and kinetics saved by set_and_run_wrapper()
  store,    \* the amounts in the solution, phases, solid solutions and kinetics of the cell
  result,   \* those of the last calculation, which saver() saves
  begun,    \* the phases and the moles (m_temp) of the reactants at the last saver()
  rk,       \* the order of the method, which is kept with the kinetics
  equal,    \* equal_rate
  bad,      \* l_bad: the step is repeated
  badsteps, \* step_bad
  h,        \* the time step
  done,     \* h_sum
  stage,    \* the derivative k2 to k6 that is calculated
  runs,
  broken,   \* history: a run has ended with an error, or has saved what did not balance
  found,    \* history: the parameters that the run of the cell has begun with
  stuck     \* history: an error has ended an attempt, and its parameters were left

vars == <<cell, pc, call, attempt, knobs, old, kept, store, result, begun, rk, equal, bad,
          badsteps, h, done, stage, runs, broken, found, stuck>>

wrapper == <<attempt, knobs, old, kept>>

integration == <<begun, rk, equal, bad, badsteps, h, done, stage>>

history == <<broken, found, stuck>>

--------------------------------------------------------------------------------
(* set_and_run_wrapper() *)

MaxTry == IF cell.max_tries < 14 THEN cell.max_tries ELSE 14

\* The attempts that are passed over.
Skipped(j) ==
  \/ j = 1 /\ knobs.small
  \/ j \in {6, 7, 9, 10, 11} /\ cell.pitzer
  \/ j = 8 /\ ~cell.pp

TolOf == [j \in 0..13 |-> CASE j \in {2, 5} -> -1 [] j = 3 -> 1 [] j = 12 -> -2 [] j = 13 -> -3
                            [] OTHER -> 0]

\* What attempt j changes.
Changed(j, p) ==
  [p EXCEPT !.itmax = IF j \in {0, 8, 10, 11} THEN @ ELSE @ + 1,
            !.tol = @ + TolOf[j],
            !.min = IF j = 9 THEN @ + 1 ELSE @,
            !.diagonal = IF j \in {4, 5, 7} THEN ~@ ELSE @,
            !.small = @ \/ j = 1,
            !.scaled = @ \/ j \in {6, 7},
            !.delay = IF j = 8 THEN ~@ ELSE @,
            !.aqueous = @ \/ j = 10,
            !.positive = @ \/ j = 11,
            !.full = @ \/ j = 4]

\* Parameters with the three switches of an attempt off.
SwitchedOff(p) == [p EXCEPT !.aqueous = FALSE, !.positive = FALSE, !.full = FALSE]

\* Mutant: the delay of the equilibrium phases is not among the values that are reset.
Reset_KeepsDelay == [SwitchedOff(old) EXCEPT !.delay = knobs.delay]

\* "reset values"
Reset == SwitchedOff(old)

\* A calculation for a purpose, in which some moles of the reactants have reacted.
Calculate(purpose, moles) ==
  pc' = "call" /\ call' = [for |-> purpose, moles |-> moles]

Enter ==
  /\ pc = "call" /\ pc' = "attempt"
  /\ attempt' = 0
  /\ old' = knobs
  /\ knobs' = IF cell.pitzer THEN [knobs EXCEPT !.diagonal = TRUE, !.full = FALSE] ELSE knobs
  /\ kept' = store
  /\ UNCHANGED <<cell, call, store, result, integration, runs, history>>

Skip ==
  /\ pc = "attempt" /\ attempt < MaxTry /\ Skipped(attempt)
  /\ attempt' = attempt + 1
  /\ UNCHANGED <<cell, pc, call, knobs, old, kept, store, result, integration, runs, history>>

\* The phases and reactants at the begin of a further attempt.
Again == [store EXCEPT !.pp = kept.pp, !.ss = kept.ss, !.m = kept.m]

Try ==
  /\ pc = "attempt" /\ attempt < MaxTry /\ ~Skipped(attempt)
  /\ pc' = "model"
  /\ knobs' = Changed(attempt, knobs)
  /\ store' = IF attempt > 0 THEN Again ELSE store
  /\ UNCHANGED <<cell, call, attempt, old, kept, result, integration, runs, history>>

\* step(): phases that the solution has nothing of are moved into it, in place.
Dissolved == {[store EXCEPT !.pp = p, !.ss = s] : p \in {0, store.pp}, s \in {0, store.ss}}

\* The ways to distribute what is in the solution and the phases.
Distributions ==
  LET all == store.sol + call.moles + store.pp + store.ss
  IN {r \in [sol : 0..all, pp : 0..all, ss : 0..all] :
        /\ r.sol + r.pp + r.ss = all
        /\ ~cell.pp => r.pp = 0
        /\ ~cell.ss => r.ss = 0}

Converge ==
  /\ pc = "model" /\ pc' = "returned"
  /\ result' \in Distributions
  /\ store' \in Dissolved
  /\ knobs' = Reset
  /\ UNCHANGED <<cell, call, attempt, old, kept, integration, runs, history>>

Fail ==
  /\ pc = "model" /\ pc' = "attempt"
  /\ attempt' = attempt + 1
  /\ store' \in Dissolved
  /\ knobs' = Reset
  /\ UNCHANGED <<cell, call, old, kept, result, integration, runs, history>>

\* MASS_BALANCE: step() has put the phases back.  The smallest time step has enough of
\* everything, and so has a solution that was just calculated.
Negative ==
  /\ pc = "model" /\ pc' = "negative"
  /\ call.for # "last" /\ (call.for # "first" => h > 1)
  /\ knobs' = Reset
  /\ UNCHANGED <<cell, call, attempt, old, kept, store, result, integration, runs, history>>

\* An error: the parameters, phases and reactants stay as they are.
Stop ==
  /\ \/ pc = "attempt" /\ attempt = MaxTry
     \/ pc = "model" /\ Stops
     \/ pc = "step" /\ badsteps > cell.bad_step_max
  /\ pc' = "idle" /\ broken' = TRUE
  /\ stuck' = (stuck \/ pc = "model")
  /\ UNCHANGED <<cell, call, wrapper, store, result, integration, runs, found>>

--------------------------------------------------------------------------------
(* rk_kinetics() *)

Begin ==
  /\ pc = "idle" /\ runs < cell.max_runs
  /\ runs' = runs + 1
  /\ Calculate("first", 0)
  /\ h' = IF cell.divided /\ KinTime > 1 THEN KinTime \div 2 ELSE KinTime
  /\ equal' = (rk # 6 /\ ~cell.divided)
  /\ done' = 0 /\ bad' = FALSE /\ badsteps' = 0 /\ stage' = 2
  /\ found' = knobs
  /\ UNCHANGED <<cell, wrapper, store, result, begun, rk, broken, stuck>>

\* What saver() saves, with the reactants that are left.
Saved(left) == [sol |-> result.sol, pp |-> result.pp, ss |-> result.ss, m |-> left]

\* The equilibrium with the water that has come to the cell.  Whether it was found is not
\* asked: after MASS_BALANCE saver() saves what the calculation has left.
First ==
  /\ call.for = "first" /\ pc \in {"returned", "negative"}
  /\ pc' = "step"
  /\ \/ /\ pc = "returned"
        /\ store' = Saved(store.m) /\ UNCHANGED broken
     \/ /\ pc = "negative"
        /\ store' = [store EXCEPT !.sol = 0] /\ broken' = TRUE
  /\ UNCHANGED <<cell, call, wrapper, result, integration, runs, found, stuck>>

\* MOLES_TOO_LARGE, with moles_reduction > 1.
Shorter ==
  /\ h > 1 /\ h' \in 1..(h - 1)
  /\ equal' = FALSE /\ bad' = TRUE
  /\ pc' = "retry"

\* Moles that react: from what is left of the reactants, or, negative, back to them from what
\* the cell has.  More than that is cut, or is MASS_BALANCE.
Rates(most) == (-(store.sol + store.pp + store.ss))..most

\* A step: k1.  With equal rates and rk = 1 it is tried to do without the others.
NewStep ==
  /\ pc = "step" /\ badsteps <= cell.bad_step_max /\ ~bad
  /\ begun' = [pp |-> store.pp, ss |-> store.ss, m |-> store.m]
  /\ \/ /\ Shorter /\ UNCHANGED <<call, store, stage>>
     \/ \E moles \in Rates(store.m) :
          /\ stage' = 2
          /\ \/ /\ rk = 1 /\ equal /\ moles # 0
                /\ Calculate("one", moles)
                /\ store' = [store EXCEPT !.m = @ - moles]
             \/ /\ rk = 1 /\ equal /\ moles = 0
                /\ pc' = "out" /\ UNCHANGED <<call, store>>
             \/ /\ rk # 1 \/ ~equal
                /\ Calculate("stage", moles) /\ UNCHANGED store
          /\ UNCHANGED <<h, equal, bad>>
  /\ UNCHANGED <<cell, wrapper, result, rk, badsteps, done, runs, history>>

\* The step again: k1 is known.
Repeat ==
  /\ \/ pc = "retry"
     \/ pc = "step" /\ badsteps <= cell.bad_step_max /\ bad
  /\ bad' = FALSE /\ stage' = 2
  /\ store' = [store EXCEPT !.m = begun.m]
  /\ \E moles \in Rates(begun.m) : Calculate("stage", moles)
  /\ UNCHANGED <<cell, wrapper, result, begun, rk, equal, badsteps, h, done, runs, history>>

\* MASS_BALANCE of a calculation of the step.
TooLarge ==
  /\ pc = "negative" /\ call.for # "first"
  /\ Shorter
  /\ UNCHANGED <<cell, call, wrapper, store, result, begun, rk, badsteps, done, stage, runs,
                 history>>

One ==
  /\ pc = "returned" /\ call.for = "one"
  /\ \/ /\ pc' = "out" /\ store' = Saved(store.m) /\ UNCHANGED <<call, rk, equal>>
     \/ /\ equal' = FALSE /\ rk' = 3             \* and the phases are not reset
        /\ \E moles \in Rates(begun.m) : Calculate("stage", moles)
        /\ UNCHANGED store
  /\ UNCHANGED <<cell, wrapper, result, begun, bad, badsteps, h, done, stage, runs, history>>

\* Mutant: "Reset to values of last saver()" forgets the solid solutions.
LastSaved_WithoutSolidSolutions(left) == [store EXCEPT !.pp = begun.pp, !.m = left]

\* "Reset to values of last saver()"
LastSaved(left) == [store EXCEPT !.pp = begun.pp, !.ss = begun.ss, !.m = left]

\* A derivative is known.  The methods of order 2 and 3 end here if the rates are equal.
Stage ==
  /\ pc = "returned" /\ call.for = "stage"
  /\ \/ /\ stage < 6 /\ Shorter
        /\ store' = LastSaved(begun.m - call.moles)
        /\ UNCHANGED <<call, badsteps, stage>>
     \/ /\ stage = 6                              \* "repeat with smaller step"
        /\ h > 1 /\ h' \in 1..(h - 1)
        /\ bad' = TRUE /\ badsteps' = badsteps + 1 /\ pc' = "step"
        /\ store' = LastSaved(begun.m - call.moles)
        /\ UNCHANGED <<call, equal, stage>>
     \/ \E moles \in Rates(begun.m), same \in BOOLEAN :
          /\ equal' = (equal /\ (stage > 3 \/ same))
          /\ \/ /\ stage = 6 \/ (stage = rk /\ equal')
                /\ Calculate("final", moles)
                /\ store' = LastSaved(begun.m - moles)
                /\ UNCHANGED stage
             \/ /\ stage < 6 /\ ~(stage = rk /\ equal')
                /\ Calculate("stage", moles) /\ stage' = stage + 1
                /\ store' = LastSaved(begun.m - call.moles)
          /\ UNCHANGED <<bad, badsteps, h>>
  /\ UNCHANGED <<cell, wrapper, result, begun, rk, done, runs, history>>

\* Mutant: the next step may go beyond the end.
Most_PastTheEnd(time) == KinTime

\* "and increase step size ...", up to the end.
Most(time) == KinTime - time

\* The result of a step.  That of order 2 puts the solid solutions back after saver().
Final ==
  /\ pc = "returned" /\ call.for = "final"
  /\ LET saved == Saved(store.m)
     IN store' = IF stage = 2 /\ cell.ss THEN [saved EXCEPT !.ss = begun.ss] ELSE saved
  /\ \/ /\ stage < 6
        /\ pc' = "out" /\ rk' \in {1, rk} /\ UNCHANGED <<h, done>>
     \/ /\ stage = 6 /\ done + h = KinTime
        /\ done' = KinTime
        /\ pc' = "out" /\ UNCHANGED <<rk, h>>
     \/ /\ stage = 6 /\ done + h < KinTime
        /\ done' = done + h
        /\ pc' = "step" /\ h' \in 1..Most(done') /\ UNCHANGED rk
  /\ UNCHANGED <<cell, call, wrapper, result, begun, equal, bad, badsteps, stage, runs, history>>

\* "Run one more time to get distribution of species".  The caller saves it.
Out ==
  /\ pc = "out"
  /\ Calculate("last", 0)
  /\ UNCHANGED <<cell, wrapper, store, result, integration, runs, history>>

Last ==
  /\ pc = "returned" /\ call.for = "last"
  /\ pc' = "idle"
  /\ store' = Saved(store.m)
  /\ UNCHANGED <<cell, call, wrapper, result, integration, runs, history>>

--------------------------------------------------------------------------------
Init ==
  /\ cell \in Cells
  /\ pc = "idle" /\ runs = 0 /\ broken = FALSE /\ found = cell.knobs /\ stuck = FALSE
  /\ call = [for |-> "first", moles |-> 0]
  /\ attempt = 0 /\ knobs = cell.knobs /\ old = cell.knobs
  /\ store = cell.amounts /\ kept = store
  /\ result = [sol |-> store.sol, pp |-> store.pp, ss |-> store.ss]
  /\ begun = [pp |-> store.pp, ss |-> store.ss, m |-> store.m]
  /\ rk = cell.rk /\ equal = FALSE /\ bad = FALSE /\ badsteps = 0
  /\ h = KinTime /\ done = 0 /\ stage = 2

Next ==
  \/ Enter \/ Skip \/ Try \/ Converge \/ Fail \/ Negative \/ Stop
  \/ Begin \/ First \/ NewStep \/ Repeat \/ TooLarge \/ One \/ Stage \/ Final \/ Out \/ Last

Spec == Init /\ [][Next]_vars

--------------------------------------------------------------------------------
(* Properties *)

\* The types.  The steps never go beyond the time.
TypeOK ==
  /\ cell \in Cells
  /\ pc \in {"idle", "call", "attempt", "model", "returned", "negative", "step", "retry", "out"}
  /\ call \in [for : {"first", "one", "stage", "final", "last"}, moles : Int]
  /\ attempt \in 0..14 /\ knobs \in Settings /\ old \in Settings
  /\ kept \in Amounts /\ store \in Amounts
  /\ result \in [sol : Nat, pp : Nat, ss : Nat] /\ begun \in [pp : Nat, ss : Nat, m : Nat]
  /\ rk \in {1, 2, 3, 6} /\ equal \in BOOLEAN /\ bad \in BOOLEAN
  /\ badsteps \in 0..(cell.bad_step_max + 1)
  /\ h \in 1..KinTime /\ done \in 0..KinTime /\ (pc = "step" => done + h <= KinTime)
  /\ stage \in 2..6
  /\ runs \in 0..cell.max_runs /\ broken \in BOOLEAN /\ found \in Settings /\ stuck \in BOOLEAN

\* What attempt j starts with: the parameters that the run of the cell has begun with.  The
\* switches that an error has left in them are only on in the very first attempt of the run.
Start(j) ==
  LET given == IF call.for = "first" /\ j = 0 THEN found ELSE SwitchedOff(found)
  IN IF j = 0 /\ cell.pitzer THEN [given EXCEPT !.diagonal = TRUE, !.full = FALSE] ELSE given

\* Every attempt of every calculation is made with the same parameters, but for what this
\* attempt changes, and with the phases and reactants that the first one found, whatever
\* attempts and calculations were made before it.  These are the parameters that KNOBS gave,
\* unless an error in an attempt of an earlier run has left those of that attempt behind.
AttemptsStartAlike ==
  /\ pc = "model" => knobs = Changed(attempt, Start(attempt)) /\ store = kept
  /\ ~stuck => found = cell.knobs

Mass == store.sol + store.pp + store.ss + store.m

MassOf(a) == a.sol + a.pp + a.ss + a.m

\* The element is neither lost nor made by an integration, with the calculations it throws
\* away for a smaller time step, a lower order or an attempt that does not converge.
\* MassKept is about cells that cannot end with order 2 while they have solid solutions.
MassKept ==
  pc = "idle" /\ ~broken => Mass = MassOf(cell.amounts)
===============================================================================
