----------------------------- MODULE ReactantStore -----------------------------
(***************************************************************************)
(* The simulations of the engine and the reactants they work on: the       *)
(* keywords of read.cpp and ReadClass.cxx that define reactants or ask for *)
(* work at the end of a simulation, and the loop of IPhreeqc::do_run       *)
(* (run_simulations of mainsubs.cpp): initial calculations, reactions(),   *)
(* run_as_cells(), copy_entities(), dump_entities(), delete_entities().    *)
(*                                                                         *)
(* A reaction works on copies numbered -2.  Each step either goes on from  *)
(* the result of the step before (INCREMENTAL_REACTIONS) or starts again   *)
(* from the entries in use, and only the last result is stored where SAVE  *)
(* asks for it.  IPhreeqcStop may end a run at any step; the maps and the  *)
(* requests for the end of the simulation then stay for the next run.      *)
(*                                                                         *)
(* Left out: MIX and the *_MIX blocks, ranges and unnumbered entries in    *)
(* definitions, the *_RAW and *_MODIFY blocks, numbers below 0 given by    *)
(* the user, inverse modelling, ADVECTION and TRANSPORT, and kinetics with *)
(* a time step of zero.  Entries -1, which step() writes before any use of *)
(* them, are part of calculation.                                          *)
(***************************************************************************)
EXTENDS Reactants, Sequences

CONSTANTS
  Defined,        \* numbers under which earlier runs left an entry of every kind
  MaxSimulations, \* bound: simulations, over all runs
  MaxKeywords     \* bound: keywords, over all simulations

ASSUME StoreAssumption ==
  Defined \subseteq Numbers /\ MaxSimulations \in Nat /\ MaxKeywords \in Nat

Working  == -2                          \* the number of the working copies
Slots    == Numbers \cup {Working}
Uses     == [Kinds -> Numbers \cup {None}]
Saves    == [Saved -> Ranges \cup {None2, <<Working, Working>>}]
Copies   == [kind : Kinds, from : Numbers, to : Ranges]
Deletion == [defined : BOOLEAN, numbers : SUBSET Numbers]

VARIABLES
  pc,          \* the step of the simulation, "idle" between runs
  store,       \* the maps: store[kind][number]
  incremental, \* incremental_reactions
  use,         \* use.n_*_user, None when not in use
  other,       \* is a REACTION, REACTION_TEMPERATURE or _PRESSURE in use?
  save,        \* save.n_*_user and save.n_*_user_end
  saveData,    \* save_data of reactions() and run_as_cells()
  newDefs,     \* Rxn_new_*: what this simulation defined
  task,        \* "batch" in reactions(), "cell" in run_as_cells()
  cell,        \* the cell run_as_cells() works on
  count,       \* count_steps
  step,        \* reaction_step
  result,      \* the calculated state: the entries in use, reacted
  copies,      \* copy_*: requests of COPY, in order
  new_copy,    \* "read" until tidy_model() sees that a COPY was read, then "yes"
  deletes,     \* delete_info
  cells,       \* run_info: the cells of RUN_CELLS, empty when not defined
  simulation,  \* history: simulations begun
  keywords,    \* history: keywords read
  aborted,     \* history: has a run been stopped?
  carried      \* history: were requests left when this simulation began?

inputVars   == <<use, other, save, newDefs>>
requestVars == <<copies, new_copy, deletes, cells>>
workVars    == <<saveData, task, cell, count, step, result>>
historyVars == <<simulation, keywords, aborted, carried>>
vars == <<pc, store, incremental, inputVars, requestVars, workVars, historyVars>>

NoResult   == [k \in Kinds |-> Absent]
NoUse      == [k \in Kinds |-> None]
NoSave     == [k \in Saved |-> None2]
NoDeletion == [defined |-> FALSE, numbers |-> {}]
NoDeletes  == [k \in Kinds |-> NoDeletion]

TypeOK ==
  /\ pc \in {"idle", "read", "initial", "reactions", "step", "stepSave", "lastSave",
             "cells", "copy", "dump", "delete"}
  /\ store \in [Kinds -> [Slots -> Entries \cup {Absent}]]
  /\ incremental \in BOOLEAN /\ other \in BOOLEAN
  /\ use \in Uses /\ save \in Saves /\ saveData \in Saves
  /\ newDefs \in [Kinds -> SUBSET Numbers]
  /\ task \in {"batch", "cell"} /\ cell \in Numbers \cup {None}
  /\ count \in 0..MaxSteps /\ step \in 0..MaxSteps
  /\ result \in [Kinds -> Entries \cup {Absent}]
  /\ copies \in Seq(Copies) /\ new_copy \in {"no", "read", "yes"}
  /\ deletes \in [Kinds -> Deletion]
  /\ cells \in SUBSET Numbers
  /\ simulation \in Nat /\ keywords \in Nat
  /\ aborted \in BOOLEAN /\ carried \in BOOLEAN

Requested == copies # <<>> \/ deletes # NoDeletes \/ cells # {}

\* Locals of the calculation, once it is over.
Idle ==
  /\ saveData' = NoSave /\ task' = "batch" /\ cell' = None
  /\ count' = 0 /\ step' = 0 /\ result' = NoResult

\* IPhreeqcStop out of the step in progress.
Abort ==
  /\ pc' = "idle" /\ aborted' = TRUE
  /\ Idle
  /\ UNCHANGED <<incremental, inputVars, copies, deletes, cells, simulation, keywords,
                 carried>>

--------------------------------------------------------------------------------
(* Reading *)

\* read_input: forgets what the simulation before used, saved and defined, but
\* not what it asked to be copied, deleted or run.
BeginSimulation ==
  /\ pc = "idle" /\ simulation < MaxSimulations
  /\ pc' = "read"
  /\ use' = NoUse /\ other' = FALSE /\ save' = NoSave
  /\ newDefs' = [k \in Kinds |-> {}]
  /\ simulation' = simulation + 1
  /\ carried' = Requested
  /\ new_copy' = IF new_copy = "read" THEN "no" ELSE new_copy
  /\ UNCHANGED <<store, incremental, copies, deletes, cells, workVars, keywords, aborted>>

ReadKeyword ==
  /\ pc = "read" /\ keywords < MaxKeywords
  /\ keywords' = keywords + 1
  /\ UNCHANGED <<pc, workVars, simulation, aborted, carried>>

\* SOLUTION n, EXCHANGE n, KINETICS n, ...: the first of a kind is also used.
ReadDefinition(k, n) ==
  /\ ReadKeyword
  /\ store' = [store EXCEPT ![k][n] =
                 [definedBy |-> simulation, new |-> k # "kinetics", reacted |-> 0]]
  /\ newDefs' = [newDefs EXCEPT ![k] = @ \cup {n}]
  /\ use' = [use EXCEPT ![k] = IF @ = None THEN n ELSE @]
  /\ UNCHANGED <<incremental, other, save, requestVars>>

\* REACTION, REACTION_TEMPERATURE, REACTION_PRESSURE.
ReadReaction ==
  /\ ReadKeyword
  /\ other' = TRUE
  /\ UNCHANGED <<store, incremental, use, save, newDefs, requestVars>>

\* INCREMENTAL_REACTIONS, which holds until it is changed.
ReadIncremental ==
  /\ ReadKeyword
  /\ incremental' = ~incremental
  /\ UNCHANGED <<store, inputVars, requestVars>>

\* USE kind n, USE kind none.
ReadUse(k, n) ==
  /\ ReadKeyword
  /\ use' = [use EXCEPT ![k] = n]
  /\ UNCHANGED <<store, incremental, other, save, newDefs, requestVars>>

\* SAVE kind n-m.
ReadSave(k, range) ==
  /\ ReadKeyword
  /\ save' = [save EXCEPT ![k] = range]
  /\ UNCHANGED <<store, incremental, use, other, newDefs, requestVars>>

\* COPY kind n n-m (copier_add).
ReadCopy(k, n, range) ==
  /\ ReadKeyword
  /\ copies' = Append(copies, [kind |-> k, from |-> n, to |-> range])
  /\ new_copy' = IF new_copy = "no" THEN "read" ELSE new_copy
  /\ UNCHANGED <<store, incremental, inputVars, deletes, cells>>

\* DELETE -kind numbers, or -kind alone for all of them; the lists of several
\* blocks add up.
ReadDelete(k, numbers) ==
  /\ ReadKeyword
  /\ deletes' = [deletes EXCEPT ![k] =
                   [defined |-> TRUE, numbers |-> @.numbers \cup numbers]]
  /\ UNCHANGED <<store, incremental, inputVars, copies, new_copy, cells>>

\* RUN_CELLS: a new list replaces the one before.
ReadRunCells(numbers) ==
  /\ ReadKeyword
  /\ cells' = numbers
  /\ UNCHANGED <<store, incremental, inputVars, copies, new_copy, deletes>>

Read ==
  \/ \E k \in Kinds, n \in Numbers : ReadDefinition(k, n)
  \/ ReadReaction
  \/ ReadIncremental
  \/ \E k \in Kinds, n \in Numbers \cup {None} : ReadUse(k, n)
  \/ \E k \in Saved, range \in Ranges : ReadSave(k, range)
  \/ \E k \in Kinds, n \in Numbers, range \in Ranges : ReadCopy(k, n, range)
  \/ \E k \in Kinds, numbers \in {{}} \cup {{n} : n \in Numbers} : ReadDelete(k, numbers)
  \/ \E numbers \in SUBSET Numbers \ {{}} : ReadRunCells(numbers)

\* tidy_model: the COPY blocks of this simulation count.
Tidied == IF new_copy = "read" THEN "yes" ELSE new_copy

\* END, or a fatal error of reading or tidying.
EndRead ==
  /\ pc = "read"
  /\ UNCHANGED store
  /\ \/ Abort /\ new_copy' \in {new_copy, Tidied}
     \/ /\ pc' = "initial" /\ new_copy' = Tidied
        /\ UNCHANGED <<incremental, inputVars, copies, deletes, cells, workVars,
                       historyVars>>

--------------------------------------------------------------------------------
(* Initial calculations *)

\* Mutant: only those the simulation itself uses.
ToCalculate_UsedOnly(k) ==
  {n \in newDefs[k] : n = use[k] /\ store[k][n] # Absent /\ store[k][n].new}

\* Definitions of this simulation that are still marked new.
ToCalculate(k) ==
  {n \in newDefs[k] : store[k][n] # Absent /\ store[k][n].new}

\* initial_solutions, initial_exchangers, ...: solutions come first.  They go
\* through the definitions of this simulation only.
InitialCalculation(k) ==
  /\ pc = "initial" /\ ToCalculate(k) # {}
  /\ k # "solution" => ToCalculate("solution") = {}
  /\ \/ /\ \E n \in ToCalculate(k) :
             /\ \A m \in ToCalculate(k) : n <= m
             /\ store' = [store EXCEPT ![k][n] = Calculated(@)]
        /\ UNCHANGED <<pc, incremental, inputVars, requestVars, workVars, historyVars>>
     \/ Abort /\ UNCHANGED <<store, new_copy>>

InitialDone ==
  /\ pc = "initial" /\ \A k \in Kinds : ToCalculate(k) = {}
  /\ pc' = "reactions"
  /\ UNCHANGED <<store, incremental, inputVars, requestVars, workVars, historyVars>>

--------------------------------------------------------------------------------
(* A calculation of several reaction steps *)

Used == {k \in Kinds : use[k] # None}

\* copy_use(-2): the entries in use, to the working copies.
CopyUse ==
  [k \in Kinds |-> [store[k] EXCEPT ![Working] =
     IF k \in Used /\ store[k][use[k]] # Absent THEN store[k][use[k]] ELSE @]]

\* copy_use(-2) also redirects SAVE to the working copies.
SaveToWorking == [k \in Saved |-> IF k \in Used THEN <<Working, Working>> ELSE None2]

\* saver(): the calculated state under every number of the range.  A function
\* x*_save returns at once if its kind is not in use; the first number is still
\* copied to the others.
Save(entries, ranges) ==
  [k \in Kinds |->
     IF k = "kinetics" \/ ranges[k] = None2 THEN entries[k]
     ELSE LET range == {n \in Slots : ranges[k][1] <= n /\ n <= ranges[k][2]}
          IN IF k \in Used
               THEN [n \in Slots |-> IF n \in range THEN result[k] ELSE entries[k][n]]
               ELSE Copied(entries[k], ranges[k][1], range)]

\* Mutant: the increment, whatever the mode.
Amount_OneIncrement == 1

\* What a number of steps has added by step s: all of them at once, or the
\* increment of this one.
Amount == IF incremental THEN 1 ELSE step

StartSteps(what) ==
  /\ task' = what
  /\ saveData' = save
  /\ store' = CopyUse
  /\ save' = SaveToWorking
  /\ count' \in 1..MaxSteps /\ step' = 1
  /\ pc' = "step"
  /\ UNCHANGED <<incremental, use, other, newDefs, requestVars, result, historyVars>>

SomethingToReact == "solution" \in Used /\ (other \/ Used # {"solution"})

\* set_use and the start of reactions(): nothing to do unless a solution and
\* something to react it with are in use.
Reactions ==
  /\ pc = "reactions"
  /\ IF ~SomethingToReact
       THEN /\ pc' = "cells" /\ cell' = None
            /\ UNCHANGED <<store, incremental, inputVars, requestVars, saveData, task,
                           count, step, result, historyVars>>
       ELSE IF AllFound(store, use)
              THEN StartSteps("batch") /\ UNCHANGED cell
              ELSE Abort /\ UNCHANGED <<store, new_copy>>

\* Mutant: a step always goes on from the one before.
StartOfStep_GoesOn == store

\* The entries a step starts from: the working copies are renewed unless
\* reactions are incremental.
StartOfStep == IF step > 1 /\ ~incremental THEN CopyUse ELSE store

\* Mutant: one turn too many.
MoreSteps_OneMore == step <= count

MoreSteps == step < count

\* One turn of the loop over reaction_step up to print_all: run_reactions(-2, ..)
\* advances the kinetic reactants in place.
RunStep ==
  /\ pc = "step"
  /\ LET after == [k \in Kinds |-> IF k \in Used
                                      THEN Reacted(StartOfStep[k][Working], Amount)
                                      ELSE Absent]
     IN \/ /\ result' = after
           /\ store' = [StartOfStep EXCEPT !["kinetics"][Working] =
                          IF "kinetics" \in Used THEN after["kinetics"] ELSE @]
           /\ pc' = IF MoreSteps THEN "stepSave" ELSE "lastSave"
           /\ UNCHANGED <<incremental, inputVars, requestVars, saveData, task, cell,
                          count, step, historyVars>>
        \/ Abort /\ store' = StartOfStep /\ UNCHANGED new_copy

\* "saves back into -2"
StepSave ==
  /\ pc = "stepSave"
  /\ store' = Save(store, save)
  /\ step' = step + 1
  /\ pc' = "step"
  /\ UNCHANGED <<incremental, inputVars, requestVars, saveData, task, cell, count,
                 result, historyVars>>

\* "save end of reaction": kinetic reactants are always written back.
LastSave ==
  /\ pc = "lastSave"
  /\ save' = saveData
  /\ store' = Save([store EXCEPT !["kinetics"] =
                      IF "kinetics" \in Used
                        THEN Copied(@, Working, {use["kinetics"]}) ELSE @], saveData)
  /\ pc' = "cells"
  /\ saveData' = NoSave /\ count' = 0 /\ step' = 0 /\ result' = NoResult
  /\ task' = "batch"
  /\ UNCHANGED <<incremental, use, other, newDefs, requestVars, cell, historyVars>>

--------------------------------------------------------------------------------
(* The end of a simulation *)

\* set_advection(i, TRUE, TRUE, i): whatever has the number of the cell.
UseCell(i)  == [k \in Kinds |-> IF store[k][i] # Absent THEN i ELSE None]
SaveCell(i) == [k \in Saved |-> IF store[k][i] # Absent THEN <<i, i>> ELSE None2]

\* The cells run_as_cells has still to come to.
CellsLeft == {i \in cells : (cell = None \/ i > cell) /\ store["solution"][i] # Absent}

\* run_as_cells, the next cell.
NextCell ==
  /\ pc = "cells"
  /\ \E i \in CellsLeft :
       /\ \A j \in CellsLeft : i <= j
       /\ cell' = i
       /\ use' = UseCell(i)
       /\ saveData' = SaveCell(i)
       /\ save' = [k \in Saved |-> IF UseCell(i)[k] # None THEN <<Working, Working>>
                                                          ELSE None2]
       /\ store' = [k \in Kinds |-> Copied(store[k], i, {Working})]
  /\ task' = "cell"
  /\ count' \in 1..MaxSteps /\ step' = 1
  /\ pc' = "step"
  /\ UNCHANGED <<incremental, other, newDefs, requestVars, result, historyVars>>

\* Mutant: the list of cells stays defined.
CellsDone_KeepsList ==
  /\ pc = "cells" /\ CellsLeft = {}
  /\ cell' = None
  /\ pc' = "copy"
  /\ UNCHANGED <<store, incremental, inputVars, requestVars, saveData, task, count,
                 step, result, historyVars>>

CellsDone ==
  /\ pc = "cells" /\ CellsLeft = {}
  /\ cells' = {} /\ cell' = None
  /\ pc' = "copy"
  /\ UNCHANGED <<store, incremental, inputVars, copies, new_copy, deletes, saveData, task,
                 count, step, result, historyVars>>

\* copy_entities, one request.  It is called in simulations with a COPY, or after one that
\* was stopped.
CopyEntity ==
  /\ pc = "copy" /\ new_copy = "yes" /\ copies # <<>>
  /\ LET c == Head(copies) IN
       store' = [store EXCEPT ![c.kind] = Copied(@, c.from, c.to[1]..c.to[2])]
  /\ copies' = Tail(copies)
  /\ UNCHANGED <<pc, incremental, inputVars, new_copy, deletes, cells, workVars, historyVars>>

CopyDone ==
  /\ pc = "copy" /\ (new_copy = "yes" => copies = <<>>)
  /\ pc' = "dump" /\ new_copy' = "no"
  /\ UNCHANGED <<store, incremental, inputVars, copies, deletes, cells, workVars, historyVars>>

\* dump_entities, which stops the run if it cannot open the file.
DumpEntities ==
  /\ pc = "dump"
  /\ UNCHANGED store
  /\ \/ Abort /\ UNCHANGED new_copy
     \/ pc' = "delete" /\ UNCHANGED <<incremental, inputVars, requestVars, workVars,
                                      historyVars>>

\* delete_entities: a list without numbers clears the whole map.
DeleteEntities ==
  /\ pc = "delete"
  /\ store' = [k \in Kinds |-> [n \in Slots |->
       IF deletes[k].defined /\ (deletes[k].numbers = {} \/ n \in deletes[k].numbers)
         THEN Absent ELSE store[k][n]]]
  /\ deletes' = NoDeletes
  /\ pc' = "idle"
  /\ UNCHANGED <<incremental, inputVars, copies, new_copy, cells, workVars, historyVars>>

--------------------------------------------------------------------------------
(* Specification *)

Init ==
  /\ pc = "idle"
  /\ store = [k \in Kinds |-> [n \in Slots |->
       IF n \in Defined THEN [definedBy |-> 0, new |-> FALSE, reacted |-> 0]
                        ELSE Absent]]
  /\ incremental \in BOOLEAN
  /\ use = NoUse /\ other = FALSE /\ save = NoSave /\ saveData = NoSave
  /\ newDefs = [k \in Kinds |-> {}]
  /\ task = "batch" /\ cell = None /\ count = 0 /\ step = 0 /\ result = NoResult
  /\ copies = <<>> /\ new_copy = "no" /\ deletes = NoDeletes /\ cells = {}
  /\ simulation = 0 /\ keywords = 0 /\ aborted = FALSE /\ carried = FALSE

Next ==
  \/ BeginSimulation \/ Read \/ EndRead
  \/ (\E k \in Kinds : InitialCalculation(k)) \/ InitialDone
  \/ Reactions \/ RunStep \/ StepSave \/ LastSave
  \/ NextCell \/ CellsDone \/ CopyEntity \/ CopyDone
  \/ DumpEntities \/ DeleteEntities

Spec == Init /\ [][Next]_vars

--------------------------------------------------------------------------------
(* Properties *)

\* What happens to the entries a user can name is what ReactantMap says: a
\* reaction of several steps, done on working copies and perhaps stopped half
\* way, changes them at once or not at all (mainsubs.cpp reactions, saver).
Map == INSTANCE ReactantMap
         WITH map <- [k \in Kinds |-> [n \in Numbers |-> store[k][n]]]
StoreSpec == Map!Spec

\* The reaction that is saved is the one asked for: it starts from the entries
\* in use as they were before its first step, all kinds have seen the same
\* number of steps, incremental or not, and SAVE stores it where it was told
\* to before the steps borrowed `save`.  RUN_CELLS i uses and saves whatever is
\* numbered i ("it is the equivalent of the following: USE solution i ...").
ReactionsAtomic ==
  [][pc = "lastSave" =>
       Map!React(IF task = "cell" THEN UseCell(cell) ELSE use,
                 IF task = "cell" THEN SaveCell(cell) ELSE saveData, count)]_vars

\* A reaction starts only from entries whose initial calculation was made.
NewAreCalculated ==
  pc = "step" => \A k \in Used : ~store[k][Working].new

\* It does as long as no run was stopped.
NewAreCalculatedUnlessStopped == aborted \/ NewAreCalculated

\* Requests of COPY, DELETE and RUN_CELLS are carried out by the simulation that
\* made them, once: only a stopped run leaves some to the next one.
RequestsCarriedOutOnce == carried => aborted
===============================================================================
