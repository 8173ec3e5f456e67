--------------------------- MODULE CellKineticsProofs ---------------------------
(***************************************************************************)
(* CellKinetics keeps its types, begins every attempt with the parameters  *)
(* and phases that it should, after errors too, and neither makes nor      *)
(* loses mass as long as there are none, for all cells, times and numbers  *)
(* of runs.  Three invariants, each on top of the one before: types (with  *)
(* what the loops have left), parameters, and the books of the element.    *)
(***************************************************************************)
EXTENDS CellKinetics, TLAPS

\* The places of a call of set_and_run_wrapper().
Calls == {"call", "attempt", "model", "returned", "negative"}

Within == Calls \ {"call"}

\* Where steps of the integration are under way.
Integrating == pc \in {"step", "retry"} \/ (pc \in Calls /\ call.for # "last")

Stepping == pc = "retry" \/ (pc \in Calls /\ call.for \in {"one", "stage", "final"})

\* Where an attempt of the run has been made and none is under way.
Between ==
  \/ pc \in {"returned", "negative", "step", "retry", "out"}
  \/ pc = "call" /\ call.for # "first"

\* The types, and what bounds them.
Typed ==
  /\ TypeOK
  /\ Integrating => done + h <= KinTime
  /\ Stepping => badsteps <= cell.bad_step_max
  /\ pc \in Calls /\ call.for \in {"one", "stage"} => call.moles <= begun.m
  /\ pc = "model" => attempt < MaxTry
  /\ pc = "negative" => call.for # "last"

\* Where the parameters are, between the calculations and in them.
Parameters ==
  /\ ~stuck => found = cell.knobs
  /\ pc = "idle" /\ ~stuck => knobs = cell.knobs
  /\ pc = "call" /\ call.for = "first" => knobs = found
  /\ Between => knobs = SwitchedOff(found)
  /\ pc \in {"attempt", "model"} => SwitchedOff(old) = SwitchedOff(found)
  /\ pc = "attempt" => knobs = Start(attempt)
  /\ pc = "model" => knobs = Changed(attempt, Start(attempt)) /\ store = kept
  /\ pc \in Within => store.sol = kept.sol /\ store.m = kept.m
  /\ pc = "attempt" /\ attempt = 0 => store = kept

Whole == MassOf(cell.amounts)

\* The books of the element: where it all is, at each place.
Books ==
  ~broken =>
    /\ pc \in {"idle", "out"} \/ (pc = "step" /\ ~bad) => Mass = Whole
    /\ Stepping \/ (pc = "step" /\ bad) => store.sol + begun.pp + begun.ss + begun.m = Whole
    /\ pc = "call" /\ call.for \in {"first", "last"} => Mass = Whole /\ call.moles = 0
    /\ pc \in Within /\ call.for \in {"first", "last"} => MassOf(kept) = Whole /\ call.moles = 0
    /\ pc = "call" /\ call.for \in {"one", "final"} =>
         store.pp = begun.pp /\ store.ss = begun.ss /\ store.m = begun.m - call.moles
    /\ pc \in Within /\ call.for \in {"one", "final"} =>
         kept.pp = begun.pp /\ kept.ss = begun.ss /\ kept.m = begun.m - call.moles
    /\ pc = "returned" =>
         result.sol + result.pp + result.ss = kept.sol + call.moles + kept.pp + kept.ss
    /\ pc \in Calls \cup {"out"} => ~bad
    /\ rk = 2 => cell.rk = 2
    /\ pc \in Calls /\ call.for = "final" /\ stage = 2 => cell.rk = 2

--------------------------------------------------------------------------------
(* Operators *)

\* What the assumption says of a cell.
LEMMA CellOf ==
  ASSUME cell \in Cells
  PROVE  IsCell(cell) /\ cell.max_runs \in Nat /\ KinTime \in Nat \ {0} /\ Stops \in BOOLEAN
BY CellsAssumption DEF IsCell

\* Parameters stay parameters, whatever an attempt changes.
LEMMA ChangedSettings ==
  ASSUME NEW j \in 0..13, NEW p \in Settings
  PROVE  Changed(j, p) \in Settings
<1>1. TolOf[j] \in Int
  BY DEF TolOf
<1>2. /\ p.itmax \in Nat /\ p.tol \in Int /\ p.min \in Nat
      /\ p.tol + TolOf[j] \in Int /\ p.itmax + 1 \in Nat /\ p.min + 1 \in Nat
  BY <1>1 DEF Settings
<1>3. /\ p.diagonal \in BOOLEAN /\ p.small \in BOOLEAN /\ p.scaled \in BOOLEAN
      /\ p.delay \in BOOLEAN /\ p.aqueous \in BOOLEAN /\ p.positive \in BOOLEAN
      /\ p.full \in BOOLEAN
  BY DEF Settings
<1>4. /\ (IF j \in {0, 8, 10, 11} THEN p.itmax ELSE p.itmax + 1) \in Nat
      /\ (IF j = 9 THEN p.min + 1 ELSE p.min) \in Nat
  BY <1>2
<1>5. /\ (IF j \in {4, 5, 7} THEN ~p.diagonal ELSE p.diagonal) \in BOOLEAN
      /\ (p.small \/ j = 1) \in BOOLEAN
      /\ (p.scaled \/ j \in {6, 7}) \in BOOLEAN
      /\ (IF j = 8 THEN ~p.delay ELSE p.delay) \in BOOLEAN
      /\ (p.aqueous \/ j = 10) \in BOOLEAN
      /\ (p.positive \/ j = 11) \in BOOLEAN
      /\ (p.full \/ j = 4) \in BOOLEAN
  BY <1>3, Zenon
<1> DEFINE tol == p.tol + TolOf[j]
<1>6. tol \in Int
  BY <1>2
<1>7. Changed(j, p) =
        [p EXCEPT !.itmax = IF j \in {0, 8, 10, 11} THEN @ ELSE @ + 1, !.tol = tol,
                  !.min = IF j = 9 THEN @ + 1 ELSE @,
                  !.diagonal = IF j \in {4, 5, 7} THEN ~@ ELSE @, !.small = @ \/ j = 1,
                  !.scaled = @ \/ j \in {6, 7}, !.delay = IF j = 8 THEN ~@ ELSE @,
                  !.aqueous = @ \/ j = 10, !.positive = @ \/ j = 11, !.full = @ \/ j = 4]
  BY DEF Changed
<1> HIDE DEF tol
<1> QED
  BY <1>4, <1>5, <1>6, <1>7, ZenonT(120) DEF Settings

\* The number of attempts.
LEMMA Attempts ==
  ASSUME cell \in Cells
  PROVE  MaxTry \in 1..14
<1>1. cell.max_tries \in Nat \ {0}
  BY CellOf DEF IsCell
<1> QED
  BY <1>1 DEF MaxTry

\* Switches that are off are switched off once.
LEMMA OffOnce ==
  ASSUME NEW p \in Settings
  PROVE  SwitchedOff(p) \in Settings /\ SwitchedOff(SwitchedOff(p)) = SwitchedOff(p)
BY DEF SwitchedOff, Settings

\* KNOBS has none of the three switches.
LEMMA UserSwitches ==
  ASSUME cell \in Cells
  PROVE  SwitchedOff(cell.knobs) = cell.knobs
<1>1. cell.knobs \in Settings /\ ~cell.knobs.aqueous /\ ~cell.knobs.positive /\ ~cell.knobs.full
  BY CellOf DEF IsCell
<1> QED
  BY <1>1 DEF SwitchedOff, Settings

\* What is distributed is what there was.
LEMMA Distributed ==
  ASSUME TypeOK, NEW r \in Distributions
  PROVE  /\ r \in [sol : Nat, pp : Nat, ss : Nat]
         /\ r.sol + r.pp + r.ss = store.sol + call.moles + store.pp + store.ss
<1> DEFINE all == store.sol + call.moles + store.pp + store.ss
<1>1. all \in Int
  BY DEF TypeOK, Amounts
<1>2. r \in [sol : 0..all, pp : 0..all, ss : 0..all] /\ r.sol + r.pp + r.ss = all
  BY DEF Distributions
<1>3. 0..all \subseteq Nat
  BY <1>1
<1> HIDE DEF all
<1>4. r \in [sol : Nat, pp : Nat, ss : Nat]
  BY <1>2, <1>3
<1> QED
  BY <1>2, <1>4 DEF all

\* Phases that step() dissolves leave the rest as it is.
LEMMA DissolvedAmounts ==
  ASSUME TypeOK, NEW s \in Dissolved
  PROVE  s \in Amounts /\ s.sol = store.sol /\ s.m = store.m
<1>1. PICK q \in {0, store.pp}, r \in {0, store.ss} : s = [store EXCEPT !.pp = q, !.ss = r]
  BY DEF Dissolved
<1>2. store \in Amounts /\ q \in Nat /\ r \in Nat
  BY DEF TypeOK, Amounts
<1> QED
  BY <1>1, <1>2 DEF Amounts

--------------------------------------------------------------------------------
(* Types *)

LEMMA TypedInit == Init => Typed
<1> SUFFICES ASSUME Init PROVE Typed
  OBVIOUS
<1>1. IsCell(cell) /\ KinTime \in Nat \ {0} /\ cell.max_runs \in Nat
  BY CellOf DEF Init
<1>2. /\ cell.amounts \in Amounts /\ cell.knobs \in Settings
      /\ cell.rk \in {1, 2, 3, 6} /\ cell.bad_step_max \in Nat
  BY <1>1 DEF IsCell
<1>3. /\ store \in Amounts /\ kept \in Amounts
      /\ result \in [sol : Nat, pp : Nat, ss : Nat] /\ begun \in [pp : Nat, ss : Nat, m : Nat]
  BY <1>2 DEF Init, Amounts
<1>4. call \in [for : {"first", "one", "stage", "final", "last"}, moles : Int]
  BY DEF Init
<1>5. /\ badsteps \in 0..(cell.bad_step_max + 1) /\ h \in 1..KinTime /\ done \in 0..KinTime
      /\ runs \in 0..cell.max_runs /\ stage \in 2..6 /\ attempt \in 0..14
  BY <1>1, <1>2 DEF Init
<1>6. rk \in {1, 2, 3, 6} /\ knobs \in Settings /\ old \in Settings
  BY <1>2 DEF Init
<1>7. /\ pc = "idle" /\ equal \in BOOLEAN /\ bad \in BOOLEAN /\ cell \in Cells
      /\ broken \in BOOLEAN /\ found \in Settings /\ stuck \in BOOLEAN
  BY <1>2 DEF Init
<1>8. TypeOK
  BY <1>3, <1>4, <1>5, <1>6, <1>7 DEF TypeOK
<1> QED
  BY <1>8, <1>7 DEF Typed, Integrating, Stepping, Calls

\* What is left of the time is enough for half of it.
LEMMA HalfTime ==
  ASSUME KinTime \in Nat, KinTime > 1
  PROVE  KinTime \div 2 \in 1..KinTime
OBVIOUS

LEMMA TypedBegin ==
  ASSUME Typed, Begin
  PROVE  Typed'
<1>1. IsCell(cell) /\ KinTime \in Nat \ {0} /\ cell.max_runs \in Nat
  BY CellOf DEF Typed, TypeOK
<1>2. h' \in 1..KinTime /\ done' = 0
  BY <1>1, HalfTime DEF Begin
<1>3. equal' \in BOOLEAN
  BY Zenon DEF Begin
<1>4. cell.bad_step_max \in Nat
  BY <1>1 DEF IsCell
<1>5. pc' = "call" /\ call' \in [for : {"first", "one", "stage", "final", "last"}, moles : Int]
  BY DEF Begin, Calculate
<1>6. runs' \in 0..cell.max_runs
  BY <1>1 DEF Begin, Typed, TypeOK
<1>7. done' \in 0..KinTime /\ badsteps' \in 0..(cell.bad_step_max + 1)
  BY <1>1, <1>4 DEF Begin
<1>8. stage' \in 2..6
  <2>1. stage' = 2
    BY DEF Begin
  <2> QED
    BY <2>1
<1>10. bad' \in BOOLEAN
  BY Zenon DEF Begin
<1>9. TypeOK'
  BY <1>1, <1>2, <1>3, <1>5, <1>6, <1>7, <1>8, <1>10 DEF Begin, Typed, TypeOK, wrapper, history
<1> QED
  <2>1. pc' = "call" /\ call'.for = "first" /\ done' + h' <= KinTime
    BY <1>1, <1>2 DEF Begin, Calculate
  <2> QED
    BY <1>9, <2>1 DEF Typed, Integrating, Stepping, Calls

LEMMA TypedEnter ==
  ASSUME Typed, Enter
  PROVE  Typed'
<1>1. IsCell(cell)
  BY CellOf DEF Typed, TypeOK
<1>2. knobs' \in Settings
  BY DEF Enter, Typed, TypeOK, Settings
<1>3. TypeOK'
  BY <1>2 DEF Enter, Typed, TypeOK, integration, history
<1> QED
  BY <1>3 DEF Enter, Typed, Integrating, Stepping, Calls, integration, history

LEMMA TypedSkip ==
  ASSUME Typed, Skip
  PROVE  Typed'
<1>1. attempt' \in 0..14
  BY Attempts DEF Skip, Typed, TypeOK
<1>2. TypeOK'
  BY <1>1 DEF Skip, Typed, TypeOK, integration, history
<1> QED
  BY <1>2 DEF Skip, Typed, Integrating, Stepping, Calls, integration, history

LEMMA TypedTry ==
  ASSUME Typed, Try
  PROVE  Typed'
<1>1. attempt \in 0..13 /\ attempt < MaxTry
  BY Attempts DEF Try, Typed, TypeOK
<1>2. knobs' \in Settings
  BY <1>1, ChangedSettings DEF Try, Typed, TypeOK
<1>3. store' \in Amounts
  BY DEF Try, Again, Typed, TypeOK, Amounts
<1>4. TypeOK'
  BY <1>1, <1>2, <1>3 DEF Try, Typed, TypeOK, integration, history
<1>5. MaxTry' = MaxTry
  BY DEF Try, MaxTry
<1> QED
  BY <1>1, <1>4, <1>5 DEF Try, Typed, Integrating, Stepping, Calls, integration, history

\* Parameters that were reset are parameters.
LEMMA ResetSettings ==
  ASSUME TypeOK
  PROVE  Reset \in Settings
BY OffOnce DEF Reset, TypeOK

LEMMA TypedConverge ==
  ASSUME Typed, Converge
  PROVE  Typed'
<1>0. TypeOK
  BY DEF Typed
<1>1. result' \in [sol : Nat, pp : Nat, ss : Nat]
  BY <1>0, Distributed DEF Converge
<1>2. store' \in Amounts
  BY <1>0, DissolvedAmounts DEF Converge
<1>3. knobs' \in Settings
  BY <1>0, ResetSettings DEF Converge
<1>4. TypeOK'
  BY <1>1, <1>2, <1>3 DEF Converge, Typed, TypeOK, integration, history
<1> QED
  BY <1>4 DEF Converge, Typed, Integrating, Stepping, Calls, integration, history

LEMMA TypedFail ==
  ASSUME Typed, Fail
  PROVE  Typed'
<1>0. TypeOK
  BY DEF Typed
<1>1. attempt' \in 0..14
  BY Attempts DEF Fail, Typed, TypeOK
<1>2. store' \in Amounts
  BY <1>0, DissolvedAmounts DEF Fail
<1>3. knobs' \in Settings
  BY <1>0, ResetSettings DEF Fail
<1>4. TypeOK'
  BY <1>1, <1>2, <1>3 DEF Fail, Typed, TypeOK, integration, history
<1> QED
  BY <1>4 DEF Fail, Typed, Integrating, Stepping, Calls, integration, history

LEMMA TypedNegative ==
  ASSUME Typed, Negative
  PROVE  Typed'
<1>0. TypeOK
  BY DEF Typed
<1>1. knobs' \in Settings
  BY <1>0, ResetSettings DEF Negative
<1>2. TypeOK'
  BY <1>1 DEF Negative, Typed, TypeOK, integration, history
<1> QED
  BY <1>2 DEF Negative, Typed, Integrating, Stepping, Calls, integration, history

LEMMA TypedStop ==
  ASSUME Typed, Stop
  PROVE  Typed'
<1>1. TypeOK'
  BY DEF Stop, Typed, TypeOK, wrapper, integration, history
<1> QED
  BY <1>1 DEF Stop, Typed, Integrating, Stepping, Calls

\* What saver() saves is amounts.
LEMMA SavedAmounts ==
  ASSUME TypeOK, NEW left \in Nat
  PROVE  /\ Saved(left) \in Amounts
         /\ MassOf(Saved(left)) = result.sol + result.pp + result.ss + left
BY DEF TypeOK, Saved, Amounts, MassOf

\* So is what was put back.
LEMMA LastSavedAmounts ==
  ASSUME TypeOK, NEW left \in Nat
  PROVE  /\ LastSaved(left) \in Amounts
         /\ LastSaved(left).sol = store.sol /\ LastSaved(left).m = left
         /\ LastSaved(left).pp = begun.pp /\ LastSaved(left).ss = begun.ss
BY DEF TypeOK, LastSaved, Amounts

\* A shorter step is within the time.
LEMMA ShorterStep ==
  ASSUME TypeOK, done + h <= KinTime, Shorter
  PROVE  /\ h' \in 1..KinTime /\ done + h' <= KinTime /\ equal' \in BOOLEAN /\ bad' \in BOOLEAN
         /\ pc' = "retry"
<1>1. KinTime \in Nat /\ h \in 1..KinTime /\ h' \in 1..(h - 1) /\ done \in 0..KinTime
  BY CellOf DEF TypeOK, Shorter
<1>2. h \in Int /\ h' \in Int /\ 1 <= h' /\ h' <= h - 1 /\ h <= KinTime /\ done \in Int
  BY <1>1
<1>4. h' \in 1..KinTime
  BY <1>1, <1>2
<1>5. done + h' <= KinTime
  <2> DEFINE new == h'
  <2>1. new \in Int /\ new <= h - 1
    BY <1>2
  <2> HIDE DEF new
  <2>2. done + new <= KinTime
    BY <1>1, <1>2, <2>1
  <2> QED
    BY <2>2 DEF new
<1>3. equal' \in BOOLEAN /\ bad' \in BOOLEAN /\ pc' = "retry"
  BY Zenon DEF Shorter
<1> QED
  BY <1>3, <1>4, <1>5

\* A calculation for a purpose.
LEMMA CalculateCall ==
  ASSUME NEW purpose \in {"first", "one", "stage", "final", "last"}, NEW moles \in Int,
         Calculate(purpose, moles)
  PROVE  /\ pc' = "call" /\ call' \in [for : {"first", "one", "stage", "final", "last"}, moles : Int]
         /\ call'.for = purpose /\ call'.moles = moles
BY DEF Calculate

\* No more reacts than is left, and any number of moles may go back.
LEMMA RatesWithin ==
  ASSUME TypeOK, NEW most \in Nat, NEW moles \in Rates(most)
  PROVE  moles \in Int /\ moles <= most /\ most - moles \in Nat
BY DEF Rates, TypeOK, Amounts

LEMMA TypedFirst ==
  ASSUME Typed, First
  PROVE  Typed'
<1>0. TypeOK /\ store \in Amounts /\ store.m \in Nat
  BY DEF Typed, TypeOK, Amounts
<1>1. store' \in Amounts
  BY <1>0, SavedAmounts DEF First, Amounts
<1>2. done + h <= KinTime
  BY DEF First, Typed, Integrating, Calls
<1>3. broken' \in BOOLEAN
  BY <1>0 DEF First, TypeOK
<1>4. TypeOK'
  BY <1>1, <1>2, <1>3 DEF First, Typed, TypeOK, wrapper, integration, history
<1> QED
  BY <1>2, <1>4 DEF First, Typed, Integrating, Stepping, Calls, wrapper, integration, history

LEMMA TypedRepeat ==
  ASSUME Typed, Repeat
  PROVE  Typed'
<1>0. /\ TypeOK /\ store \in Amounts /\ begun \in [pp : Nat, ss : Nat, m : Nat]
      /\ begun.m \in Nat
  BY DEF Typed, TypeOK
<1>1. PICK moles \in Rates(begun.m) : Calculate("stage", moles)
  BY DEF Repeat
<1>2. moles \in Int /\ moles <= begun.m
  BY <1>0, RatesWithin
<1>3. /\ pc' = "call" /\ call'.for = "stage" /\ call'.moles = moles
      /\ call' \in [for : {"first", "one", "stage", "final", "last"}, moles : Int]
  BY <1>1, <1>2, CalculateCall
<1>4. done + h <= KinTime /\ badsteps <= cell.bad_step_max
  BY DEF Repeat, Typed, Integrating, Stepping
<1>5. store' \in Amounts
  BY <1>0 DEF Repeat, Amounts
<1>8. bad' \in BOOLEAN
  BY Zenon DEF Repeat
<1>6. stage' \in 2..6
  <2>1. stage' = 2
    BY DEF Repeat
  <2> QED
    BY <2>1
<1>7. TypeOK'
  BY <1>0, <1>3, <1>5, <1>6, <1>8 DEF Repeat, TypeOK, wrapper, history
<1> QED
  BY <1>2, <1>3, <1>4, <1>7 DEF Repeat, Typed, Integrating, Stepping, Calls, wrapper, history

LEMMA TypedTooLarge ==
  ASSUME Typed, TooLarge
  PROVE  Typed'
<1>0. TypeOK
  BY DEF Typed
<1>1. done + h <= KinTime /\ badsteps <= cell.bad_step_max
  <2>1. pc = "negative" /\ call.for # "first" /\ call.for # "last"
    BY DEF TooLarge, Typed
  <2>2. call.for \in {"one", "stage", "final"}
    BY <1>0, <2>1 DEF TypeOK
  <2> QED
    BY <2>1, <2>2 DEF Typed, Integrating, Stepping, Calls
<1>2. /\ h' \in 1..KinTime /\ done + h' <= KinTime /\ equal' \in BOOLEAN /\ bad' \in BOOLEAN
      /\ pc' = "retry"
  BY <1>0, <1>1, ShorterStep DEF TooLarge
<1>3. TypeOK'
  BY <1>0, <1>2 DEF TooLarge, TypeOK, wrapper, history
<1> QED
  BY <1>1, <1>2, <1>3 DEF TooLarge, Typed, Integrating, Stepping, Calls, wrapper, history

LEMMA TypedOut ==
  ASSUME Typed, Out
  PROVE  Typed'
<1>1. /\ pc' = "call" /\ call'.for = "last"
      /\ call' \in [for : {"first", "one", "stage", "final", "last"}, moles : Int]
  BY CalculateCall DEF Out
<1>2. TypeOK'
  BY <1>1 DEF Out, Typed, TypeOK, wrapper, integration, history
<1> QED
  BY <1>1, <1>2 DEF Typed, Integrating, Stepping, Calls

LEMMA TypedLast ==
  ASSUME Typed, Last
  PROVE  Typed'
<1>0. TypeOK /\ store.m \in Nat
  BY DEF Typed, TypeOK, Amounts
<1>1. store' \in Amounts
  BY <1>0, SavedAmounts DEF Last
<1>2. TypeOK'
  BY <1>0, <1>1 DEF Last, TypeOK, wrapper, integration, history
<1> QED
  BY <1>2 DEF Last, Typed, Integrating, Stepping, Calls

LEMMA TypedNewStep ==
  ASSUME Typed, NewStep
  PROVE  Typed'
<1>0. /\ TypeOK /\ store \in Amounts /\ store.m \in Nat /\ store.pp \in Nat /\ store.ss \in Nat
      /\ pc = "step" /\ done + h <= KinTime /\ badsteps <= cell.bad_step_max
  BY DEF NewStep, Typed, TypeOK, Amounts
<1>1. /\ begun' = [pp |-> store.pp, ss |-> store.ss, m |-> store.m]
      /\ begun' \in [pp : Nat, ss : Nat, m : Nat] /\ begun'.m = store.m
  BY <1>0 DEF NewStep
<1>2. /\ UNCHANGED <<cell, wrapper, result, rk, badsteps, done, runs, history>>
      /\ attempt' = attempt /\ knobs' = knobs /\ old' = old /\ kept' = kept
  BY DEF NewStep, wrapper, history
<1>3. CASE Shorter /\ UNCHANGED <<call, store, stage>>
  <2>1. /\ h' \in 1..KinTime /\ done + h' <= KinTime /\ equal' \in BOOLEAN /\ bad' \in BOOLEAN
        /\ pc' = "retry"
    BY <1>0, <1>3, ShorterStep
  <2>2. TypeOK'
    BY <1>0, <1>1, <1>2, <1>3, <2>1 DEF TypeOK, history
  <2> QED
    BY <1>0, <1>2, <2>1, <2>2 DEF Typed, Integrating, Stepping, Calls
<1>4. CASE \E moles \in Rates(store.m) :
             /\ stage' = 2
             /\ \/ /\ rk = 1 /\ equal /\ moles # 0
                   /\ Calculate("one", moles)
                   /\ store' = [store EXCEPT !.m = @ - moles]
                \/ /\ rk = 1 /\ equal /\ moles = 0
                   /\ pc' = "out" /\ UNCHANGED <<call, store>>
                \/ /\ rk # 1 \/ ~equal
                   /\ Calculate("stage", moles) /\ UNCHANGED store
             /\ UNCHANGED <<h, equal, bad>>
  <2>1. PICK moles \in Rates(store.m) :
          /\ stage' = 2
          /\ \/ Calculate("one", moles) /\ store' = [store EXCEPT !.m = @ - moles]
             \/ pc' = "out" /\ UNCHANGED <<call, store>>
             \/ Calculate("stage", moles) /\ UNCHANGED store
          /\ UNCHANGED <<h, equal, bad>>
    BY <1>4, Zenon
  <2>2. moles \in Int /\ moles <= store.m /\ store.m - moles \in Nat
    BY <1>0, RatesWithin
  <2>3. stage' \in 2..6
    <3>1. stage' = 2
      BY <2>1
    <3> QED
      BY <3>1
  <2>4. CASE pc' = "out" /\ UNCHANGED <<call, store>>
    <3>1. TypeOK'
      BY <1>0, <1>1, <1>2, <2>1, <2>3, <2>4 DEF TypeOK, history
    <3> QED
      BY <2>4, <3>1 DEF Typed, Integrating, Stepping, Calls
  <2>5. CASE /\ Calculate("one", moles) \/ Calculate("stage", moles)
             /\ UNCHANGED store \/ store' = [store EXCEPT !.m = @ - moles]
    <3>1. /\ pc' = "call" /\ call'.for \in {"one", "stage"} /\ call'.moles = moles
          /\ call' \in [for : {"first", "one", "stage", "final", "last"}, moles : Int]
      BY <2>2, <2>5, CalculateCall
    <3>2. store' \in Amounts
      BY <1>0, <2>2, <2>5 DEF Amounts
    <3>3. TypeOK'
      BY <1>0, <1>1, <1>2, <2>1, <2>3, <3>1, <3>2 DEF TypeOK, history
    <3> QED
      BY <1>0, <1>1, <1>2, <2>1, <2>2, <3>1, <3>3 DEF Typed, Integrating, Stepping, Calls
  <2> QED
    BY <2>1, <2>4, <2>5
<1> QED
  BY <1>3, <1>4 DEF NewStep

LEMMA TypedOne ==
  ASSUME Typed, One
  PROVE  Typed'
<1>0. /\ TypeOK /\ store.m \in Nat /\ begun.m \in Nat
      /\ done + h <= KinTime /\ badsteps <= cell.bad_step_max
  BY DEF One, Typed, TypeOK, Amounts, Integrating, Stepping, Calls
<1>1. CASE pc' = "out" /\ store' = Saved(store.m) /\ UNCHANGED <<call, rk, equal>>
  <2>1. store' \in Amounts
    BY <1>0, <1>1, SavedAmounts
  <2>2. TypeOK'
    BY <1>0, <1>1, <2>1 DEF One, TypeOK, wrapper, history
  <2> QED
    BY <1>1, <2>2 DEF Typed, Integrating, Stepping, Calls
<1>2. CASE /\ equal' = FALSE /\ rk' = 3
           /\ (\E moles \in Rates(begun.m) : Calculate("stage", moles)) /\ UNCHANGED store
  <2> PICK moles \in Rates(begun.m) : Calculate("stage", moles)
    BY <1>2
  <2>5. moles \in Int /\ moles <= begun.m
    BY <1>0, RatesWithin
  <2>1. /\ pc' = "call" /\ call'.for = "stage" /\ call'.moles = moles
        /\ call' \in [for : {"first", "one", "stage", "final", "last"}, moles : Int]
    BY <2>5, CalculateCall
  <2>2. equal' \in BOOLEAN
    BY <1>2, Zenon
  <2>3. rk' \in {1, 2, 3, 6}
    BY <1>2
  <2>4. TypeOK'
    BY <1>0, <1>2, <2>1, <2>2, <2>3 DEF One, TypeOK, wrapper, history
  <2> QED
    BY <1>0, <2>1, <2>4, <2>5 DEF One, Typed, Integrating, Stepping, Calls, wrapper, history
<1> QED
  BY <1>1, <1>2 DEF One

LEMMA TypedFinal ==
  ASSUME Typed, Final
  PROVE  Typed'
<1>0. /\ TypeOK /\ store.m \in Nat /\ begun.ss \in Nat /\ KinTime \in Nat
      /\ done \in 0..KinTime /\ h \in 1..KinTime /\ done + h <= KinTime
  BY CellOf DEF Final, Typed, TypeOK, Amounts, Integrating, Calls
<1>1. store' \in Amounts
  <2>1. Saved(store.m) \in Amounts
    BY <1>0, SavedAmounts
  <2>2. store' = Saved(store.m) \/ store' = [Saved(store.m) EXCEPT !.ss = begun.ss]
    BY DEF Final
  <2> QED
    BY <1>0, <2>1, <2>2 DEF Amounts
<1>2. /\ pc' \in {"out", "step"} /\ rk' \in {1, 2, 3, 6}
      /\ h' \in 1..KinTime /\ done' \in 0..KinTime /\ (pc' = "step" => done' + h' <= KinTime)
  <2>1. CASE stage < 6 /\ pc' = "out" /\ rk' \in {1, rk} /\ UNCHANGED <<h, done>>
    BY <1>0, <2>1 DEF TypeOK
  <2>2. CASE done' = KinTime /\ pc' = "out" /\ UNCHANGED <<rk, h>>
    BY <1>0, <2>2 DEF TypeOK
  <2>3. CASE /\ done + h < KinTime /\ done' = done + h
             /\ pc' = "step" /\ h' \in 1..Most(done') /\ UNCHANGED rk
    <3> DEFINE time == done'
               new  == h'
    <3>1. time = done + h /\ new \in 1..(KinTime - time)
      BY <2>3 DEF Most
    <3> HIDE DEF time, new
    <3>2. time \in 0..KinTime /\ new \in 1..KinTime /\ time + new <= KinTime
      BY <1>0, <2>3, <3>1
    <3> QED
      BY <1>0, <2>3, <3>2 DEF TypeOK, time, new
  <2> QED
    BY <2>1, <2>2, <2>3 DEF Final
<1>3. TypeOK'
  BY <1>0, <1>1, <1>2 DEF Final, TypeOK, wrapper, history
<1> QED
  BY <1>2, <1>3 DEF Typed, Integrating, Stepping, Calls

LEMMA TypedStage ==
  ASSUME Typed, Stage
  PROVE  Typed'
<1>0. /\ TypeOK /\ call.moles \in Int /\ call.moles <= begun.m /\ begun.m \in Nat
      /\ done + h <= KinTime /\ badsteps \in 0..cell.bad_step_max /\ stage \in 2..6
      /\ cell.bad_step_max \in Nat /\ KinTime \in Nat /\ h \in 1..KinTime /\ done \in 0..KinTime
  BY CellOf DEF Stage, Typed, TypeOK, Integrating, Stepping, Calls, IsCell
<1>1. /\ UNCHANGED <<cell, result, begun, rk, done, runs, history>>
      /\ attempt' = attempt /\ knobs' = knobs /\ old' = old /\ kept' = kept
  BY DEF Stage, wrapper, history
<1>2. /\ LastSaved(begun.m - call.moles) \in Amounts
  BY <1>0, LastSavedAmounts
<1>3. CASE /\ Shorter /\ store' = LastSaved(begun.m - call.moles)
           /\ UNCHANGED <<call, badsteps, stage>>
  <2>1. /\ h' \in 1..KinTime /\ done + h' <= KinTime /\ equal' \in BOOLEAN /\ bad' \in BOOLEAN
        /\ pc' = "retry"
    BY <1>0, <1>3, ShorterStep
  <2>2. TypeOK'
    BY <1>0, <1>1, <1>2, <1>3, <2>1 DEF TypeOK, history
  <2>3. done' = done /\ badsteps' = badsteps /\ cell' = cell
    BY <1>1, <1>3
  <2>4. badsteps <= cell.bad_step_max
    BY <1>0
  <2>5. done' + h' <= KinTime /\ badsteps' <= cell'.bad_step_max
    BY <2>1, <2>3, <2>4, Zenon
  <2> QED
    BY <2>1, <2>2, <2>5 DEF Typed, Integrating, Stepping, Calls
<1>4. CASE /\ h > 1 /\ h' \in 1..(h - 1)
           /\ bad' = TRUE /\ badsteps' = badsteps + 1 /\ pc' = "step"
           /\ store' = LastSaved(begun.m - call.moles)
           /\ UNCHANGED <<call, equal, stage>>
  <2> DEFINE new == h'
  <2>1. new \in 1..(h - 1)
    BY <1>4
  <2> HIDE DEF new
  <2>2. new \in 1..KinTime /\ done + new <= KinTime
    BY <1>0, <2>1
  <2>3. h' \in 1..KinTime /\ done + h' <= KinTime
    BY <2>2 DEF new
  <2>4. bad' \in BOOLEAN
    BY <1>4, Zenon
  <2>5. badsteps' \in 0..(cell.bad_step_max + 1)
    BY <1>0, <1>4
  <2>6. TypeOK'
    BY <1>0, <1>1, <1>2, <1>4, <2>3, <2>4, <2>5 DEF TypeOK, history
  <2> QED
    BY <1>1, <1>4, <2>3, <2>6 DEF Typed, Integrating, Stepping, Calls
<1>5. CASE \E moles \in Rates(begun.m), same \in BOOLEAN :
             /\ equal' = (equal /\ (stage > 3 \/ same))
             /\ \/ /\ stage = 6 \/ (stage = rk /\ equal')
                   /\ Calculate("final", moles)
                   /\ store' = LastSaved(begun.m - moles)
                   /\ UNCHANGED stage
                \/ /\ stage < 6 /\ ~(stage = rk /\ equal')
                   /\ Calculate("stage", moles) /\ stage' = stage + 1
                   /\ store' = LastSaved(begun.m - call.moles)
             /\ UNCHANGED <<bad, badsteps, h>>
  <2>1. PICK moles \in Rates(begun.m), same \in BOOLEAN :
          /\ equal' = (equal /\ (stage > 3 \/ same))
          /\ \/ /\ Calculate("final", moles)
                /\ store' = LastSaved(begun.m - moles)
                /\ UNCHANGED stage
             \/ /\ stage < 6
                /\ Calculate("stage", moles) /\ stage' = stage + 1
                /\ store' = LastSaved(begun.m - call.moles)
          /\ UNCHANGED <<bad, badsteps, h>>
    BY <1>5, Zenon
  <2>2. moles \in Int /\ moles <= begun.m /\ begun.m - moles \in Nat
    BY <1>0, RatesWithin
  <2>3. equal' \in BOOLEAN
    BY <2>1, Zenon
  <2>4. UNCHANGED <<bad, badsteps, h>>
    BY <2>1
  <2>5. LastSaved(begun.m - moles) \in Amounts
    BY <1>0, <2>2, LastSavedAmounts
  <2>6. store' \in Amounts
    BY <1>2, <2>1, <2>5, Zenon
  <2>7. stage' \in 2..6
    <3>1. stage' = stage \/ (stage < 6 /\ stage' = stage + 1)
      BY <2>1, Zenon
    <3> QED
      BY <1>0, <3>1
  <2>8. Calculate("final", moles) \/ Calculate("stage", moles)
    BY <2>1, Zenon
  <2>9. /\ pc' = "call" /\ call'.for \in {"stage", "final"} /\ call'.moles = moles
        /\ call' \in [for : {"first", "one", "stage", "final", "last"}, moles : Int]
    BY <2>2, <2>8, CalculateCall
  <2>10. TypeOK'
    BY <1>0, <1>1, <2>3, <2>4, <2>6, <2>7, <2>9 DEF TypeOK, history
  <2> QED
    BY <1>0, <1>1, <2>2, <2>4, <2>9, <2>10 DEF Typed, Integrating, Stepping, Calls
<1> QED
  <2>1. \/ /\ Shorter /\ store' = LastSaved(begun.m - call.moles)
           /\ UNCHANGED <<call, badsteps, stage>>
        \/ /\ h > 1 /\ h' \in 1..(h - 1)
           /\ bad' = TRUE /\ badsteps' = badsteps + 1 /\ pc' = "step"
           /\ store' = LastSaved(begun.m - call.moles)
           /\ UNCHANGED <<call, equal, stage>>
        \/ \E moles \in Rates(begun.m), same \in BOOLEAN :
             /\ equal' = (equal /\ (stage > 3 \/ same))
             /\ \/ /\ stage = 6 \/ (stage = rk /\ equal')
                   /\ Calculate("final", moles)
                   /\ store' = LastSaved(begun.m - moles)
                   /\ UNCHANGED stage
                \/ /\ stage < 6 /\ ~(stage = rk /\ equal')
                   /\ Calculate("stage", moles) /\ stage' = stage + 1
                   /\ store' = LastSaved(begun.m - call.moles)
             /\ UNCHANGED <<bad, badsteps, h>>
    BY Zenon DEF Stage
  <2> QED
    BY <1>3, <1>4, <1>5, <2>1, Zenon

\* A step of the integration, or none.
LEMMA TypedNext ==
  ASSUME Typed, [Next]_vars
  PROVE  Typed'
<1>1. CASE UNCHANGED vars
  BY <1>1 DEF vars, wrapper, integration, Typed, TypeOK, Integrating, Stepping, MaxTry, history
<1> QED
  BY <1>1, TypedBegin, TypedEnter, TypedSkip, TypedTry, TypedConverge, TypedFail, TypedNegative,
     TypedStop, TypedFirst, TypedNewStep, TypedRepeat, TypedTooLarge, TypedOne, TypedStage,
     TypedFinal, TypedOut, TypedLast DEF Next

\* Typed holds throughout.
LEMMA AlwaysTyped == Spec => []Typed
<1>1. Init => Typed
  BY TypedInit
<1>2. Typed /\ [Next]_vars => Typed'
  BY TypedNext
<1> QED
  BY <1>1, <1>2, PTL DEF Spec

\* rk_kinetics() and set_and_run_wrapper() keep to their types, and the steps to the time.
THEOREM TypeCorrect == Spec => []TypeOK
<1>1. Typed => TypeOK
  BY DEF Typed
<1> QED
  BY <1>1, AlwaysTyped, PTL

--------------------------------------------------------------------------------
(* The parameters of convergence *)

\* The integration outside of a calculation does not touch them.
LEMMA ParametersOutside ==
  ASSUME TypeOK, Parameters, UNCHANGED <<cell, wrapper, found, stuck>>, Between,
         Between' \/ pc' = "idle", pc' \notin Within
  PROVE  Parameters'
<1>1. knobs' = SwitchedOff(found) /\ found' = found /\ stuck' = stuck /\ cell' = cell
  BY DEF Parameters, wrapper
<1>2. SwitchedOff(found') = SwitchedOff(found)
  BY <1>1
<1>3. ASSUME ~stuck
      PROVE  found = cell.knobs /\ knobs' = cell.knobs
  BY <1>1, <1>3, UserSwitches DEF Parameters, TypeOK
<1>4. pc' \notin {"attempt", "model"} /\ ~(pc' = "call" /\ call'.for = "first")
  BY DEF Between, Within, Calls
<1> QED
  BY <1>1, <1>2, <1>3, <1>4 DEF Parameters

\* A run begins with the parameters that it finds.
LEMMA ParametersBegin ==
  ASSUME TypeOK, Parameters, Begin
  PROVE  Parameters'
<1>1. /\ pc = "idle" /\ pc' = "call" /\ call'.for = "first"
      /\ knobs' = knobs /\ found' = knobs /\ stuck' = stuck /\ cell' = cell
  BY DEF Begin, Calculate, wrapper
<1> QED
  BY <1>1 DEF Parameters, Between, Within, Calls

LEMMA ParametersEnter ==
  ASSUME TypeOK, Parameters, Enter
  PROVE  Parameters'
<1> DEFINE given == IF call.for = "first" THEN found ELSE SwitchedOff(found)
<1>1. /\ pc = "call" /\ pc' = "attempt" /\ attempt' = 0 /\ call' = call /\ cell' = cell
      /\ found' = found /\ stuck' = stuck /\ store' = store /\ kept' = store /\ old' = knobs
      /\ knobs' = IF cell.pitzer THEN [knobs EXCEPT !.diagonal = TRUE, !.full = FALSE]
                  ELSE knobs
  BY DEF Enter, history
<1>2. knobs = given
  BY <1>1 DEF Parameters, Between
<1>3. SwitchedOff(old') = SwitchedOff(found')
  BY <1>1, <1>2, OffOnce DEF TypeOK
<1>4. knobs' = Start(0)'
  BY <1>1, <1>2 DEF Start
<1>5. ~stuck' => found' = cell'.knobs
  BY <1>1 DEF Parameters
<1> QED
  BY <1>1, <1>3, <1>4, <1>5 DEF Parameters, Between

\* An attempt that is passed over is not the first.
LEMMA ParametersSkip ==
  ASSUME TypeOK, Parameters, Skip
  PROVE  Parameters'
<1>1. attempt \in 0..14 /\ attempt # 0 /\ attempt' = attempt + 1
  BY DEF TypeOK, Skip, Skipped
<1>2. /\ pc = "attempt" /\ pc' = "attempt" /\ knobs' = knobs /\ cell' = cell /\ call' = call
      /\ found' = found /\ stuck' = stuck /\ old' = old /\ kept' = kept /\ store' = store
  BY DEF Skip, history
<1>3. knobs' = Start(attempt)'
  BY <1>1, <1>2 DEF Parameters, Start
<1> QED
  BY <1>1, <1>2, <1>3 DEF Parameters, Between, Within, Calls

LEMMA ParametersTry ==
  ASSUME TypeOK, Parameters, Try
  PROVE  Parameters'
<1>1. /\ knobs = Start(attempt) /\ SwitchedOff(old) = SwitchedOff(found)
      /\ store.sol = kept.sol /\ store.m = kept.m
      /\ attempt = 0 => store = kept
  BY DEF Parameters, Try, Within, Calls
<1>2. Again = kept
  BY <1>1 DEF Again, TypeOK, Amounts
<1>3. attempt \in 0..14
  BY DEF TypeOK
<1>4. store' = kept
  BY <1>1, <1>2, <1>3 DEF Try
<1>5. /\ pc = "attempt" /\ pc' = "model" /\ cell' = cell /\ call' = call /\ kept' = kept
      /\ found' = found /\ stuck' = stuck /\ old' = old /\ attempt' = attempt
      /\ knobs' = Changed(attempt, Start(attempt))
  BY <1>1 DEF Try, history
<1>6. knobs' = Changed(attempt', Start(attempt)')
  BY <1>5 DEF Start, Changed
<1> QED
  BY <1>1, <1>4, <1>5, <1>6 DEF Parameters, Between, Changed

\* A calculation leaves the water and the kinetics of the cell.
LEMMA ParametersAfter ==
  ASSUME TypeOK, Parameters, Converge \/ Fail \/ Negative
  PROVE  Parameters'
<1>1. /\ SwitchedOff(old) = SwitchedOff(found) /\ store = kept /\ attempt \in 0..14
      /\ pc = "model"
  BY DEF Parameters, Converge, Fail, Negative, TypeOK
<1>2. knobs' = SwitchedOff(found)
  BY <1>1 DEF Converge, Fail, Negative, Reset
<1>3. store'.sol = store.sol /\ store'.m = store.m
  BY DissolvedAmounts DEF Converge, Fail, Negative
<1>4. /\ cell' = cell /\ call' = call /\ found' = found /\ stuck' = stuck /\ old' = old
      /\ kept' = kept /\ (~stuck => found = cell.knobs)
  BY DEF Converge, Fail, Negative, history, Parameters
<1>5. CASE Fail
  <2>1. pc' = "attempt" /\ attempt' # 0
    BY <1>1, <1>5 DEF Fail
  <2>2. Start(attempt)' = SwitchedOff(found)
    BY <1>4, <2>1 DEF Start
  <2> QED
    BY <1>1, <1>2, <1>3, <1>4, <2>1, <2>2 DEF Parameters, Between
<1>6. CASE Converge \/ Negative
  <2>1. pc' \in {"returned", "negative"}
    BY <1>6 DEF Converge, Negative
  <2> QED
    BY <1>1, <1>2, <1>3, <1>4, <2>1 DEF Parameters
<1> QED
  BY <1>5, <1>6

\* An error leaves the parameters of the attempt that it ends.
LEMMA ParametersStop ==
  ASSUME TypeOK, Parameters, Stop
  PROVE  Parameters'
<1>1. /\ pc' = "idle" /\ knobs' = knobs /\ cell' = cell /\ found' = found
      /\ stuck' = (stuck \/ pc = "model") /\ (~stuck => found = cell.knobs)
  BY DEF Stop, wrapper, Parameters
<1>2. ASSUME ~stuck'
      PROVE  knobs = cell.knobs
  <2>1. ~stuck /\ pc # "model" /\ found = cell.knobs
    BY <1>1, <1>2
  <2>2. knobs = SwitchedOff(found)
    <3>1. CASE pc = "attempt" /\ attempt = MaxTry
      <4>1. attempt # 0
        BY <3>1, Attempts DEF TypeOK
      <4> QED
        BY <3>1, <4>1 DEF Parameters, Start
    <3>2. CASE pc = "step"
      BY <3>2 DEF Parameters, Between
    <3> QED
      BY <2>1, <3>1, <3>2 DEF Stop
  <2> QED
    BY <2>1, <2>2, UserSwitches DEF TypeOK
<1> QED
  BY <1>1, <1>2 DEF Parameters, Between, Within, Calls

LEMMA ParametersInit == Init => Parameters
BY DEF Init, Parameters, Between, Within, Calls

\* Where the other steps go.
LEMMA IntegrationSteps ==
  ASSUME Typed,
         First \/ NewStep \/ Repeat \/ TooLarge \/ One \/ Stage \/ Final \/ Out \/ Last
  PROVE  /\ UNCHANGED <<cell, wrapper, found, stuck>> /\ Between
         /\ Between' \/ pc' = "idle"
         /\ pc' \notin Within
         /\ ~broken' => ~broken
<1>2. CASE First
  BY <1>2 DEF First, Between, Within, Calls
<1>3. CASE NewStep
  BY <1>3 DEF NewStep, Shorter, Calculate, Between, Within, Calls, history
<1>4. CASE Repeat
  BY <1>4 DEF Repeat, Calculate, Between, Within, Calls, history
<1>5. CASE TooLarge
  BY <1>5 DEF TooLarge, Shorter, Between, Within, Calls, history
<1>6. CASE One
  BY <1>6 DEF One, Calculate, Between, Within, Calls, history
<1>7. CASE Stage
  BY <1>7 DEF Stage, Shorter, Calculate, Between, Within, Calls, history
<1>8. CASE Final
  BY <1>8 DEF Final, Between, Within, Calls, history
<1>9. CASE Out
  BY <1>9 DEF Out, Calculate, Between, Within, Calls, history
<1>10. CASE Last
  BY <1>10 DEF Last, Between, Within, Calls, history
<1> QED
  BY <1>2, <1>3, <1>4, <1>5, <1>6, <1>7, <1>8, <1>9, <1>10

LEMMA ParametersNext ==
  ASSUME Typed, Parameters, [Next]_vars
  PROVE  Parameters'
<1>0. TypeOK
  BY DEF Typed
<1>1. CASE UNCHANGED vars
  BY <1>1 DEF vars, Parameters, Between, Start, Changed
<1>2. CASE Enter \/ Skip \/ Try \/ Converge \/ Fail \/ Negative \/ Stop \/ Begin
  BY <1>0, <1>2, ParametersEnter, ParametersSkip, ParametersTry, ParametersAfter,
     ParametersStop, ParametersBegin
<1>3. CASE First \/ NewStep \/ Repeat \/ TooLarge \/ One \/ Stage \/ Final \/ Out \/ Last
  BY <1>0, <1>3, IntegrationSteps, ParametersOutside
<1> QED
  BY <1>1, <1>2, <1>3 DEF Next

\* The parameters are those that the run has begun with, but for what an attempt has changed.
LEMMA AlwaysParameters == Spec => []Parameters
<1>1. Init => Parameters
  BY ParametersInit
<1>2. Typed /\ Parameters /\ [Next]_vars => Parameters'
  BY ParametersNext
<1> QED
  BY <1>1, <1>2, AlwaysTyped, PTL DEF Spec

\* Every attempt of a run begins with the parameters that the run has begun with and with the
\* phases and reactants that the first attempt found, after any runs and errors.  The run has
\* begun with the parameters of KNOBS, unless an error has ended an attempt before it.
THEOREM AttemptsAreAlike == Spec => []AttemptsStartAlike
<1>1. Parameters => AttemptsStartAlike
  BY DEF Parameters, AttemptsStartAlike
<1> QED
  BY <1>1, AlwaysParameters, PTL

--------------------------------------------------------------------------------
(* The books of the element *)

LEMMA AmountsAreNumbers ==
  ASSUME TypeOK
  PROVE  /\ store.sol \in Nat /\ store.pp \in Nat /\ store.ss \in Nat /\ store.m \in Nat
         /\ kept.sol \in Nat /\ kept.pp \in Nat /\ kept.ss \in Nat /\ kept.m \in Nat
         /\ result.sol \in Nat /\ result.pp \in Nat /\ result.ss \in Nat
         /\ begun.pp \in Nat /\ begun.ss \in Nat /\ begun.m \in Nat
         /\ call.moles \in Int
BY DEF TypeOK, Amounts

LEMMA BooksInit == Init => Books
BY DEF Init, Books, Mass, MassOf, Whole, Stepping, Within, Calls

\* Within a calculation nothing is booked but its result.
LEMMA BooksWithin ==
  ASSUME Parameters, Parameters', Books, ~broken, UNCHANGED <<cell, call, kept, integration, broken>>,
         pc \in Within, pc' \in Within,
         pc' = "returned" => result'.sol + result'.pp + result'.ss
                               = kept.sol + call.moles + kept.pp + kept.ss
  PROVE  Books'
<1>1. store'.sol = store.sol /\ ~broken'
  BY DEF Parameters
<1>2. /\ begun' = begun /\ bad' = bad /\ rk' = rk /\ stage' = stage /\ call' = call /\ kept' = kept
      /\ cell' = cell
  BY DEF integration
<1> QED
  BY <1>1, <1>2 DEF Books, Stepping, Within, Calls, Whole, MassOf

LEMMA BooksOfACalculation ==
  ASSUME Typed, Parameters, Parameters', Books, ~broken,
         Skip \/ Try \/ Converge \/ Fail \/ Negative
  PROVE  Books'
<1>1. /\ UNCHANGED <<cell, call, kept, integration, broken>>
      /\ pc \in Within /\ pc' \in Within
  BY DEF Skip, Try, Converge, Fail, Negative, Within, Calls, history
<1>2. ASSUME pc' = "returned"
      PROVE  result'.sol + result'.pp + result'.ss = kept.sol + call.moles + kept.pp + kept.ss
  <2>1. TypeOK /\ Converge
    BY <1>2 DEF Typed, Skip, Try, Fail, Negative
  <2>2. store = kept
    BY <2>1 DEF Parameters, Converge
  <2> QED
    BY <2>1, <2>2, Distributed DEF Converge
<1> QED
  BY <1>1, <1>2, BooksWithin

LEMMA BooksEnter ==
  ASSUME Typed, Books, ~broken, Enter
  PROVE  Books'
<1>1. /\ begun' = begun /\ bad' = bad /\ rk' = rk /\ stage' = stage /\ call' = call /\ store' = store
      /\ cell' = cell /\ kept' = store /\ pc = "call" /\ pc' = "attempt" /\ ~broken'
  BY DEF Enter, integration, history
<1> QED
  BY <1>1 DEF Books, Stepping, Within, Calls, Whole, MassOf, Mass

LEMMA BooksBegin ==
  ASSUME Typed, Books, ~broken, Begin
  PROVE  Books'
<1>1. /\ rk' = rk /\ store' = store /\ cell' = cell /\ pc = "idle" /\ pc' = "call"
      /\ call' = [for |-> "first", moles |-> 0]
  BY DEF Begin, Calculate
<1>2. ~bad'
  BY Zenon DEF Begin
<1> QED
  BY <1>1, <1>2 DEF Books, Stepping, Within, Calls, Whole, MassOf, Mass

LEMMA BooksFirst ==
  ASSUME Typed, Parameters, Books, ~broken', First
  PROVE  Books'
<1>0. TypeOK /\ store.m \in Nat
  BY AmountsAreNumbers DEF Typed
<1>1. /\ pc = "returned" /\ pc' = "step" /\ store' = Saved(store.m) /\ ~broken
      /\ call.for = "first" /\ cell' = cell /\ rk' = rk /\ call' = call /\ bad' = bad
  BY DEF First, integration
<1>2. /\ MassOf(kept) = Whole /\ call.moles = 0 /\ ~bad
      /\ result.sol + result.pp + result.ss = kept.sol + call.moles + kept.pp + kept.ss
      /\ store.m = kept.m
  BY <1>1 DEF Books, Parameters, Within, Calls
<1>3. MassOf(store') = Whole
  BY <1>0, <1>1, <1>2, SavedAmounts, AmountsAreNumbers DEF MassOf
<1> QED
  BY <1>1, <1>2, <1>3 DEF Books, Stepping, Within, Calls, Whole, MassOf, Mass

LEMMA BooksOut ==
  ASSUME Typed, Books, ~broken, Out
  PROVE  Books'
<1>1. /\ rk' = rk /\ store' = store /\ cell' = cell /\ pc = "out" /\ pc' = "call"
      /\ call' = [for |-> "last", moles |-> 0] /\ bad' = bad
  BY DEF Out, Calculate, integration
<1> QED
  BY <1>1 DEF Books, Stepping, Within, Calls, Whole, MassOf, Mass

LEMMA BooksLast ==
  ASSUME Typed, Parameters, Books, ~broken, Last
  PROVE  Books'
<1>0. TypeOK /\ store.m \in Nat
  BY AmountsAreNumbers DEF Typed
<1>1. /\ pc = "returned" /\ pc' = "idle" /\ store' = Saved(store.m)
      /\ call.for = "last" /\ cell' = cell /\ rk' = rk
  BY DEF Last, integration
<1>2. /\ MassOf(kept) = Whole /\ call.moles = 0
      /\ result.sol + result.pp + result.ss = kept.sol + call.moles + kept.pp + kept.ss
      /\ store.m = kept.m
  BY <1>1 DEF Books, Parameters, Within, Calls
<1>3. MassOf(store') = Whole
  BY <1>0, <1>1, <1>2, SavedAmounts, AmountsAreNumbers DEF MassOf
<1> QED
  BY <1>1, <1>2, <1>3 DEF Books, Stepping, Within, Calls, Whole, MassOf, Mass

LEMMA BooksNewStep ==
  ASSUME Typed, Books, ~broken, NewStep
  PROVE  Books'
<1>0. /\ TypeOK /\ store \in Amounts
      /\ store.sol \in Nat /\ store.pp \in Nat /\ store.ss \in Nat /\ store.m \in Nat
  BY AmountsAreNumbers DEF Typed, TypeOK
<1>1. /\ begun' = [pp |-> store.pp, ss |-> store.ss, m |-> store.m]
      /\ rk' = rk /\ cell' = cell /\ ~broken' /\ pc = "step" /\ ~bad
  BY DEF NewStep, history
<1>2. Mass = Whole /\ Whole' = Whole /\ (rk = 2 => cell.rk = 2)
  BY <1>1 DEF Books, Whole, MassOf
<1>3. store.sol + begun'.pp + begun'.ss + begun'.m = Whole
  BY <1>0, <1>1, <1>2 DEF Mass
<1>4. CASE Shorter /\ UNCHANGED <<call, store, stage>>
  <2>1. pc' = "retry" /\ store' = store
    BY <1>4, Zenon DEF Shorter
  <2> QED
    BY <1>1, <1>2, <1>3, <2>1 DEF Books, Stepping, Within, Calls
<1>5. CASE \E moles \in Rates(store.m) :
             /\ stage' = 2
             /\ \/ /\ rk = 1 /\ equal /\ moles # 0
                   /\ Calculate("one", moles)
                   /\ store' = [store EXCEPT !.m = @ - moles]
                \/ /\ rk = 1 /\ equal /\ moles = 0
                   /\ pc' = "out" /\ UNCHANGED <<call, store>>
                \/ /\ rk # 1 \/ ~equal
                   /\ Calculate("stage", moles) /\ UNCHANGED store
             /\ UNCHANGED <<h, equal, bad>>
  <2>1. PICK moles \in Rates(store.m) :
          /\ \/ Calculate("one", moles) /\ store' = [store EXCEPT !.m = @ - moles]
             \/ pc' = "out" /\ UNCHANGED <<call, store>>
             \/ Calculate("stage", moles) /\ UNCHANGED store
          /\ UNCHANGED <<h, equal, bad>>
    BY <1>5, Zenon
  <2>2. ~bad'
    BY <1>1, <2>1
  <2>3. CASE pc' = "out" /\ UNCHANGED <<call, store>>
    <3>1. Mass' = Whole
      BY <1>2, <2>3 DEF Mass
    <3> QED
      BY <1>1, <1>2, <2>2, <2>3, <3>1 DEF Books, Stepping, Within, Calls
  <2>4. CASE Calculate("one", moles) /\ store' = [store EXCEPT !.m = @ - moles]
    <3>1. /\ store'.sol = store.sol /\ store'.pp = begun'.pp /\ store'.ss = begun'.ss
          /\ store'.m = begun'.m - moles
      BY <1>0, <1>1, <2>4 DEF Amounts
    <3>2. pc' = "call" /\ call'.for = "one" /\ call'.moles = moles
      BY <2>4 DEF Calculate
    <3> QED
      BY <1>1, <1>2, <1>3, <2>2, <3>1, <3>2 DEF Books, Stepping, Within, Calls
  <2>5. CASE Calculate("stage", moles) /\ UNCHANGED store
    <3>1. pc' = "call" /\ call'.for = "stage" /\ store' = store
      BY <2>5 DEF Calculate
    <3> QED
      BY <1>1, <1>2, <1>3, <2>2, <3>1 DEF Books, Stepping, Within, Calls
  <2> QED
    BY <2>1, <2>3, <2>4, <2>5
<1> QED
  BY <1>4, <1>5 DEF NewStep, history

LEMMA BooksRepeat ==
  ASSUME Typed, Books, ~broken, Repeat
  PROVE  Books'
<1>1. store' = [store EXCEPT !.m = begun.m] /\ store \in Amounts
  BY DEF Repeat, Typed, TypeOK
<1>2. /\ store'.sol = store.sol /\ rk' = rk /\ cell' = cell /\ begun' = begun /\ ~broken'
      /\ pc' = "call" /\ call'.for = "stage"
  BY <1>1 DEF Repeat, Calculate, Amounts, history
<1>3. ~bad'
  BY Zenon DEF Repeat
<1>4. store.sol + begun.pp + begun.ss + begun.m = Whole /\ Whole' = Whole
  BY <1>2 DEF Books, Repeat, Stepping, Whole, MassOf
<1> QED
  BY <1>2, <1>3, <1>4 DEF Books, Stepping, Within, Calls

LEMMA BooksTooLarge ==
  ASSUME Typed, Books, ~broken, TooLarge
  PROVE  Books'
<1>1. /\ pc = "negative" /\ call.for \in {"one", "stage", "final"}
      /\ rk' = rk /\ cell' = cell /\ begun' = begun /\ store' = store /\ ~broken'
  BY DEF TooLarge, Typed, TypeOK, history
<1>2. pc' = "retry"
  BY Zenon DEF TooLarge, Shorter
<1>3. store.sol + begun.pp + begun.ss + begun.m = Whole /\ Whole' = Whole
  BY <1>1 DEF Books, Stepping, Calls, Whole, MassOf
<1> QED
  BY <1>1, <1>2, <1>3 DEF Books, Stepping, Within, Calls

\* What a calculation of a step has returned, with what is left of the reactants.
LEMMA StepReturned ==
  ASSUME Typed, Parameters, Books, ~broken, pc = "returned", call.for \in {"one", "final"}
  PROVE  MassOf(Saved(store.m)) = Whole
<1>0. TypeOK /\ store.m \in Nat
  BY AmountsAreNumbers DEF Typed
<1>1. /\ kept.pp = begun.pp /\ kept.ss = begun.ss /\ kept.m = begun.m - call.moles
      /\ result.sol + result.pp + result.ss = kept.sol + call.moles + kept.pp + kept.ss
      /\ store.m = kept.m /\ store.sol = kept.sol
      /\ store.sol + begun.pp + begun.ss + begun.m = Whole
  BY DEF Books, Parameters, Stepping, Within, Calls
<1> QED
  BY <1>0, <1>1, SavedAmounts, AmountsAreNumbers

LEMMA BooksOne ==
  ASSUME Typed, Parameters, Books, ~broken, One
  PROVE  Books'
<1>1. /\ pc = "returned" /\ call.for = "one" /\ cell' = cell /\ begun' = begun /\ bad' = bad
      /\ ~broken' /\ Whole' = Whole
  BY DEF One, Whole, MassOf, history
<1>2. ~bad /\ store.sol + begun.pp + begun.ss + begun.m = Whole /\ (rk = 2 => cell.rk = 2)
  BY <1>1 DEF Books, Stepping, Calls
<1>3. CASE pc' = "out" /\ store' = Saved(store.m) /\ UNCHANGED <<call, rk, equal>>
  <2>1. Mass' = Whole
    BY <1>1, <1>3, StepReturned DEF Mass, MassOf
  <2> QED
    BY <1>1, <1>2, <1>3, <2>1 DEF Books, Stepping, Within, Calls
<1>4. CASE /\ equal' = FALSE /\ rk' = 3
           /\ (\E moles \in Rates(begun.m) : Calculate("stage", moles)) /\ UNCHANGED store
  <2>1. pc' = "call" /\ call'.for = "stage" /\ store' = store /\ rk' = 3
    BY <1>4 DEF Calculate
  <2> QED
    BY <1>1, <1>2, <2>1 DEF Books, Stepping, Within, Calls
<1> QED
  BY <1>3, <1>4 DEF One

LEMMA BooksStage ==
  ASSUME Typed, Books, ~broken, Stage
  PROVE  Books'
<1>0. TypeOK /\ call.moles \in Int /\ begun.m - call.moles \in Nat /\ begun.m \in Nat
  BY AmountsAreNumbers DEF Typed, Stage, Calls
<1>1. /\ pc = "returned" /\ call.for = "stage" /\ cell' = cell /\ begun' = begun /\ rk' = rk
      /\ ~broken' /\ Whole' = Whole
  BY DEF Stage, Whole, MassOf, history
<1>2. ~bad /\ store.sol + begun.pp + begun.ss + begun.m = Whole /\ (rk = 2 => cell.rk = 2)
  BY <1>1 DEF Books, Stepping, Calls
<1>3. LastSaved(begun.m - call.moles).sol = store.sol
  BY <1>0, LastSavedAmounts
<1>4. CASE /\ pc' = "retry" \/ (pc' = "step" /\ bad')
           /\ store' = LastSaved(begun.m - call.moles)
  <2>1. store'.sol = store.sol
    BY <1>3, <1>4
  <2> QED
    BY <1>1, <1>2, <1>4, <2>1 DEF Books, Stepping, Within, Calls
<1>5. CASE \E moles \in Rates(begun.m) :
             /\ \/ /\ stage = 6 \/ stage = rk
                   /\ Calculate("final", moles)
                   /\ store' = LastSaved(begun.m - moles)
                   /\ UNCHANGED stage
                \/ /\ Calculate("stage", moles)
                   /\ store' = LastSaved(begun.m - call.moles)
             /\ UNCHANGED bad
  <2>1. PICK moles \in Rates(begun.m) :
          /\ \/ /\ stage = 6 \/ stage = rk
                /\ Calculate("final", moles)
                /\ store' = LastSaved(begun.m - moles)
                /\ UNCHANGED stage
             \/ /\ Calculate("stage", moles)
                /\ store' = LastSaved(begun.m - call.moles)
          /\ UNCHANGED bad
    BY <1>5, Zenon
  <2>2. ~bad' /\ moles \in Int /\ begun.m - moles \in Nat
    BY <1>0, <1>2, <2>1, RatesWithin
  <2>3. CASE /\ stage = 6 \/ stage = rk
             /\ Calculate("final", moles)
             /\ store' = LastSaved(begun.m - moles)
             /\ UNCHANGED stage
    <3>1. /\ store'.sol = store.sol /\ store'.pp = begun.pp /\ store'.ss = begun.ss
          /\ store'.m = begun.m - moles
      BY <1>0, <2>2, <2>3, LastSavedAmounts
    <3>2. pc' = "call" /\ call'.for = "final" /\ call'.moles = moles
      BY <2>3 DEF Calculate
    <3>3. stage' = 2 => cell.rk = 2
      BY <1>2, <2>3
    <3> QED
      BY <1>1, <1>2, <2>2, <3>1, <3>2, <3>3 DEF Books, Stepping, Within, Calls
  <2>4. CASE /\ Calculate("stage", moles)
             /\ store' = LastSaved(begun.m - call.moles)
    <3>1. store'.sol = store.sol
      BY <1>3, <2>4
    <3>2. pc' = "call" /\ call'.for = "stage"
      BY <2>4 DEF Calculate
    <3> QED
      BY <1>1, <1>2, <2>2, <3>1, <3>2 DEF Books, Stepping, Within, Calls
  <2> QED
    BY <2>1, <2>3, <2>4
<1> QED
  BY <1>4, <1>5, Zenon DEF Stage, Shorter

\* A step that ends with order 2 would put back solid solutions, which the cell has not.
LEMMA BooksFinal ==
  ASSUME \A u \in Cells : u.rk = 2 => ~u.ss, Typed, Parameters, Books, ~broken, Final
  PROVE  Books'
<1>1. /\ pc = "returned" /\ call.for = "final" /\ cell' = cell /\ bad' = bad
      /\ ~broken' /\ Whole' = Whole /\ cell \in Cells
  BY DEF Final, Whole, MassOf, Typed, TypeOK, history
<1>2. ~bad /\ (rk = 2 => cell.rk = 2) /\ (stage = 2 => cell.rk = 2)
  BY <1>1 DEF Books, Calls
<1>3. store' = Saved(store.m)
  <2>1. ~(stage = 2 /\ cell.ss)
    BY <1>1, <1>2
  <2> QED
    BY <2>1 DEF Final
<1>4. Mass' = Whole
  BY <1>1, <1>3, StepReturned DEF Mass, MassOf
<1>5. pc' \in {"out", "step"} /\ rk' \in {1, rk}
  BY DEF Final
<1> QED
  BY <1>1, <1>2, <1>4, <1>5 DEF Books, Stepping, Within, Calls

LEMMA BooksNext ==
  ASSUME \A u \in Cells : u.rk = 2 => ~u.ss, Typed, Parameters, Parameters', Books, [Next]_vars
  PROVE  Books'
<1>1. CASE UNCHANGED vars
  BY <1>1 DEF vars, Books, Stepping, Whole, Mass, MassOf
<1>2. CASE broken'
  BY <1>2 DEF Books
<1>3. CASE ~broken' /\ Next
  <2>1. ~broken /\ ~Stop
    BY <1>3, IntegrationSteps
       DEF Next, Enter, Skip, Try, Converge, Fail, Negative, Stop, Begin, history
  <2> QED
    BY <1>3, <2>1, BooksEnter, BooksOfACalculation, BooksBegin, BooksFirst, BooksNewStep,
       BooksRepeat, BooksTooLarge, BooksOne, BooksStage, BooksFinal, BooksOut, BooksLast DEF Next
<1> QED
  BY <1>1, <1>2, <1>3

\* Without solid solutions at order 2, the element is neither lost nor made, for any method,
\* rates, distributions, failures of a calculation and times.
THEOREM MassIsKept ==
  ASSUME \A u \in Cells : u.rk = 2 => ~u.ss
  PROVE  Spec => []MassKept
<1>1. Init => Books
  BY BooksInit
<1>2. Typed /\ Parameters /\ Parameters' /\ Books /\ [Next]_vars => Books'
  BY BooksNext
<1>3. Books => MassKept
  BY DEF Books, MassKept, Whole
<1> QED
  BY <1>1, <1>2, <1>3, AlwaysTyped, AlwaysParameters, PTL DEF Spec
================================================================================
