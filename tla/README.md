# VIPhreeqc in TLA+

VIPhreeqc is the geochemical engine PHREEQC wrapped as a library: an `IPhreeqc`
object takes text (a database, then inputs), runs the simulations the text
describes and hands back text, tables and error reports; a C interface addresses
such objects by number, and Vitens adds getters for properties of a solution.

This directory models the parts of it that decide *what happens in which order*:
the calls of an object and every way they can end, selected output over several
runs, the table of values, the simulations of the engine over its maps of reactants, the
reuse of a set of equations, the integration of kinetics in a cell, the cells of a column,
the BASIC interpreter, the search of inverse modelling, and the registry of
instances. The chemistry, Newton-Raphson over real numbers, is not modelled; where
its outcome decides control (it converges, it reports, it stops) it is a
nondeterministic step.

Paths below are relative to the repository, so `src/IPhreeqc.cpp` is the file the
"map" of PROJECT.json calls `src/src/IPhreeqc.cpp`.

## The system

| part | state it keeps | operations | modelled in |
|---|---|---|---|
| IPhreeqc session (`src/IPhreeqc.cpp`) | switches, text buffers, line buffers, accumulated input, `DatabaseLoaded`, `UpdateComponents`, error reporters | `LoadDatabase[String]`, `RunFile`, `RunString`, `RunAccumulated`, `AccumulateLine`, setters and getters | `IPhreeqcSession` |
| Input streams and line reader (`phreeqcpp/common/PHRQ_io.cpp`, `Parser.cxx`) | a stack of streams, the current line, `io_error_count` | `push_istream`, `pop_istream`, `get_logical_line`, `get_option` | the stack, includes and the end of the input: `IPhreeqcSession` |
| Keyword readers (`phreeqcpp/read.cpp`, ...) | definitions of all kinds, flags of what is new | `read_input` and a reader per keyword | `read_input`'s loop, `SELECTED_OUTPUT`, `USER_PUNCH`, `PRINT`; reactants, `USE`, `SAVE`, `COPY`, `DELETE`, `RUN_CELLS` |
| Selected output of a session (`IPhreeqc.cpp`, `SelectedOutput.*`, `tidy.cpp`, `print.cpp`) | a map of definitions in the engine; maps of switches, files, strings, tables and lines in the session | opening files, `tidy_punch`, `punch_all`, closing | `SelectedOutputSession` |
| Selected output table (`src/CSelectedOutput.cpp`) | headings, heading to column, columns, a row count | `PushBack`, `EndRow`, `Clear`, `Get` | `SelectedOutputTable` |
| Inverse modelling search (`phreeqcpp/inverse.cpp`) | lists `good`, `bad`, `minimal`; three nested loop states | `solve_inverse`, `minimal_solve`, `next_set_phases` | `InverseSearch` |
| Instance registry (`src/IPhreeqcLib.cpp`) | the map `Instances`, the counter `InstancesIndex`, `map_lock` | `CreateIPhreeqc`, `DestroyIPhreeqc`, `GetInstance` | `InstanceRegistry` |
| Simulation loop and reactant store (`mainsubs.cpp`, `ReadClass.cxx`, `Use.cpp`) | maps of solutions, exchangers, ...; working copies -2; what is new, used, saved; requests of COPY, DELETE, RUN_CELLS | the loop of `do_run`: `read_input`, initial calculations, `reactions`, `run_as_cells`, `copy_entities`, `delete_entities`, `saver` | `ReactantStore` |
| Making of a model (`prep.cpp`) | unknowns, lists over them, the array of the solver, `last_model` | `prep`, `quick_setup`, `build_model`, `reprep`, `reset_last_model` | `ModelCache` |
| Convergence retry and kinetics (`kinetics.cpp`, `step.cpp`) | parameters of the solver, changed for each try; time step, order, copies of phases | `set_and_run_wrapper`, `rk_kinetics` | `CellKinetics` |
| Transport and advection (`transport.cpp`, `advection.cpp`) | cells, stagnant layers, temporary solutions | `transport`, `mix_stag`, `advection` | `ColumnTransport` |
| BASIC interpreter (`PBasic.cpp`) | lines, variables, a stack of loops and subroutines, a pointer into DATA | one procedure per statement | `BasicControl`; `PUNCH` into a table in `SelectedOutputTable` |
| Aqueous model, isotopes, reactant classes | real numbers | numerical | where they decide control, as a choice |
| Serializer, Var/CVar, Fortran and wasm wrappers, charts | none or a single value | conversions | not modelled |

### How the parts interact

A client calls the C interface with a number; `GetInstance` looks the number up
under `map_lock` and the member function runs without the lock. A member function
that runs input opens the files whose switches are on, checks that there is a
database, pushes its stream on the stack of the engine's io object, and lets the
engine read, tidy and calculate one simulation after the other. The engine calls
back into the session through virtual functions (`error_msg`, `punch_msg`,
`fpunchf`, `fpunchf_end_row`, ...), which spread each message over a file, a string
and, for selected output, a table. `error_msg` with `STOP` throws `IPhreeqcStop`,
which the run function catches; what follows the `try` block closes the files,
collects the line buffers and pops the streams. `LoadDatabase` is itself a caller of
`RunString` (`test_db`), with the file switches put away and `reading_db` set.

A simulation works on maps of reactants. A reaction copies the entries in use to the
number -2, has each step calculated there and saves the last result under the numbers of
SAVE; TRANSPORT and ADVECTION do the same for one cell after the other. A calculation goes
through `run_reactions`, `rk_kinetics` (if the cell has kinetics) and
`set_and_run_wrapper`, which tries the solver with one set of parameters after the other;
each attempt calls `prep`, which makes the equations or takes those of the calculation
before. Rates and `USER_PUNCH` are programs of the interpreter, run in the middle of it.

Everything in an object happens in one thread. Only the registry is used by several.

### What is hard

* **A call may end at any step.** `IPhreeqcStop` ends it at any message; any other
  exception is rethrown past the statements that put things in order.
* **State lives in two objects and for different times.** Definitions of selected
  output survive a run, tables and strings do not; `pr.punch` is initialised by a load,
  `PHRQ_io::punch_on` is not; `input_error` is forgotten by every `read_input`.
* **Long legal sequences.** Accumulated input stays after a run; a failed load leaves
  flags that the next call must cope with; a definition read by an aborted run gets its
  headings in a later one.
* **Columns that come late or twice.** A table must stay rectangular whatever is pushed.
* **Pruning.** The inverse search skips most sets; a set saved or a flag reset at the
  wrong moment loses models without a sign. Its masks are shifted as `int`.
* **Work in place.** Reactions, cells of a column and steps of kinetics are calculated in
  place, with copies under odd numbers that have to be put back or passed on at the right
  moment; a run may be stopped while they are there.
* **Reuse.** The equations of the calculation before are kept if a *description* of them
  fits; what the description leaves out must not matter.
* **One stack for three kinds of record.** FOR, WHILE and GOSUB share one; jumps leave
  records behind that the next NEXT, WEND or RETURN meets.
* **Threads.** An instance is used after the lock was given back, taken apart before it
  is unregistered, and its address may be reused at once.

PROJECT.json lists each of these at its line under "hazards", with the properties that
would catch it going wrong, or why none does.

### What makes each part correct

* A session: what a call changes for itself (switches, files, streams) is back when it
  returns; its result, texts and lines are about this call alone; no call runs on
  leftovers of another; every call returns.
* Selected output: file, string and table receive the same rows, under headings.
* The table: complete rows that never change, whatever the order of pushes.
* The inverse search: exactly the minimal models, each once; and it ends.
* The registry: a number means the same instance for ever, then nothing.
* The reactant store: a reaction happens at once or not at all, whatever numbers it
  borrows; a request is carried out once, by the simulation that made it.
* A model that is reused is the one that would be made.
* An attempt of the solver begins with the parameters of its run and the phases of its
  calculation; no step of kinetics makes or loses mass.
* A column: calculated cell by cell, it has the result of mixing all cells at once; every
  cell has its kinetics integrated over the time of a shift.
* BASIC: a program does what its nested blocks mean, and a run leaves nothing to the next.

## The modules

### IPhreeqcSession, and the contract it implements

A call walks through `pc`: `openOutput`, `checkDatabase`, ... `closeOutput` for a run,
`unload`, `openDatabase`, ... `restore` for a load, whose test run goes through the run's
steps with `caller` telling who entered it. `routine` tells which run function is in
progress, because they differ in what they flag and clear (`RunAccumulated` sets
`ClearAccumulated`).

| code | action |
|---|---|
| `SetOutputFileOn`, `SetLogFileOn`, `SetErrorFileOn` | `SetFileOn` |
| `Set...StringOn` | `SetStringOn` |
| `AccumulateLine`, `ClearAccumulatedLines`, `AddError`, `AddWarning` | `AccumulateLine`, `ClearAccumulatedLines`, `AddReport` |
| `ListComponents`, `GetComponentCount` | `ListComponents` |
| `RunString`, `RunFile`, `RunAccumulated` up to `open_output_files` | `BeginRun`, `OpenOutputFiles` |
| `check_database` | `CheckDatabase` |
| `do_run`, its loop and `read_input` | `StartRun`, `NextSimulation`, `ReadBlock`, `PushInclude`, `IncludeMissing`, `PopStream`, `EndOfInput` |
| `tidy_model` and the calculations | `TidyModel`, `Calculate` |
| `error_msg(.., true)` anywhere in a run | `WorkStops` |
| another exception | `WorkEscapes` |
| the end of `do_run` | `Finish` |
| the statements after the `try` block | `CloseOutput` |
| `LoadDatabase`, `load_db`, `load_db_str`, `UnLoadDatabase`, `test_db` | `BeginLoad`, `UnLoadDatabase`, `OpenDatabase`, `Loaded`, `TestDatabase`, `Restore` |

A text is the set of the *origins* of its messages: "this" call, an "earlier" one, the
"client". That is all `ReturnedText` and the contract tell apart. `SetErrorOn` stays at its
default, on. The first stream of the stack is the run's own; "dead" stands for the
address of a stream that no longer exists.

`SessionContract` says what `IPhreeqc.hpp` promises: calls do not overlap, only loads
decide whether the object is usable, "ok" needs a usable object, and what a run returns
with is its own. `IPhreeqcSession` implements it under the mapping at its end
(`ContractSpec`).

### SelectedOutputSession

The same calls seen from selected output. A run is `BeginRun`; then, per simulation,
blocks (`DefineSelectedOutput`, `SetActive`, `PrintSelectedOutput`, `OtherBlock`), the
insertion of tables and the opening loop of `do_run` (`Insert`, `OpenPunchFile`,
`EndOpening`), `tidy_punch` (`TidyModel`), rows (`PunchAll`) and `EndSimulation`; then
`Finish`, or from any step `Abort` or `AbortRow`. A file and a string are sequences of
`"heading"`, `"row"` and `"part"`; a table is a number of rows. Every definition is taken
to have a column, and the separator and file-name options of the block are left out.

### SelectedOutputTable, and the rows it implements

`PushBack` and `EndRow` of `CSelectedOutput` translated in full: the heading map, the
columns, the back-filling of a late column, the padding of short ones. Around them is the
code that drives them: `punch_identifiers` (`PunchIdentifier`), `punch_user_punch`
(`PunchUserPunch`, `Punch`, `EndUserPunch`), the padding loop of `IPhreeqc::EndRow`
(`PushBackEmpty`, `EndRow`), `punch_model` (`BeginModel`, `PunchModelValue`, `EndModel`)
and an abort anywhere. A cell holds the number of the punch it comes from, so that a
property can tell a value of this row from one left behind.

`PunchedRows` is the abstract table: ended rows, with a cell for every column, that never
change, and a current row whose last value per heading counts.

### InverseSearch

`solve_inverse` is three nested loops: over the sets of solutions (`soln_bits`, a number
that is decremented), over the number of phases (`model_size`), over the sets of that
many phases (`now`, advanced by `next_set_phases`, which is `NextCombination`). A set
that is known (`subset_bad`, `superset_minimal`) is skipped; the rest is given to the
solver, and a feasible one to `minimal_solve`, whose loop over columns is `TryWithout`.
A word is the set of its bits; `One(p)` is `1 << p` computed as an `int` and widened,
so at the sign bit it has many ones.

The linear program is replaced by the models it has (`models`): a set is feasible exactly
if it contains one, and `cl1` returns any one it contains. The sets of models that are
searched are those of `ModelSets`, closed under union because the solutions of a linear
program are convex. `Stop` is the solver's `STOP` when it exceeds its iterations.

### InstanceRegistry

Each thread walks through the places of `CreateIPhreeqc`, of `DestroyIPhreeqc` and of a
call that looks its instance up; `Lock` and `Unlock` are the mutex. The constructor
allocates an address (`Construct`), takes a number (`Count`) and registers it (`Insert`);
the destructor takes the instance apart (`Destroy`), erases it (`Erase`) and frees the
address (`Free`), which may be allocated again. `OutOfMemory` is `bad_alloc`, in the
insertion, which keeps the lock, or later in the constructor.

The module assumes of clients what the interface needs of them: numbers are ones it has
returned, and a living instance is used by one thread at a time (`MayCall`). Calls with
the number of an instance that was destroyed are allowed.

### ReactantStore, and the map it implements

A simulation walks through `pc`: `"read"` (an action per keyword), `"initial"` (initial
calculations of the definitions of this simulation, solutions first), `"reactions"`,
`"step"`, `"stepSave"`, `"lastSave"` (the loop of `reactions()`), `"cells"` (`run_as_cells`, which
goes through the same steps for one cell after the other), `"copy"`, `"dump"`, `"delete"`. From
every step `Abort` is possible: `IPhreeqcStop` leaves the maps and the requests as they are.

| code | action |
|---|---|
| `read_input` | `BeginSimulation`, `EndRead` |
| definitions, `REACTION`, `INCREMENTAL_REACTIONS`, `USE`, `SAVE`, `COPY`, `DELETE`, `RUN_CELLS` | `ReadDefinition`, `ReadReaction`, `ReadIncremental`, `ReadUse`, `ReadSave`, `ReadCopy`, `ReadDelete`, `ReadRunCells` |
| `initial_solutions`, `initial_exchangers`, ... | `InitialCalculation`, `InitialDone` |
| `set_use`, `copy_use`, `run_reactions`, `saver`, of `reactions` | `Reactions`, `RunStep`, `StepSave`, `LastSave` |
| `run_as_cells` | `NextCell`, then the steps above, `CellsDone` |
| `copy_entities`, `dump_entities`, `delete_entities` | `CopyEntity`, `CopyDone`, `DumpEntities`, `DeleteEntities` |

An entry is abstracted to the simulation that defined it, whether it is marked new, and how
many reaction steps it has seen. `ReactantMap` is the abstract store: an entry changes when a
block defines it, when its initial calculation is made, when a *whole* reaction is done and
when COPY or DELETE name it. `Reactants` has what both share.

### ModelCache

`prep()` either makes the unknowns (`Setup`) and the lists over them (`BuildModel`), or keeps
those there are (`QuickSetup`) because `check_same_model` (`SameModel`) finds that the saved
description fits. `x` is what the solver would be given, `last` the description, `array` who
allocated the array of the solver (a size of 0 is what forces a new model). A calculation
may change the model while it iterates (`SwitchToNumeric`, `Reprep`), a read of the
database or the start of a column forces a new one (`TidyModel`, `StartOfColumn`), inverse
modelling takes the array (`InverseModels`), and a stop may come at every place. Reactants are
names: a total, a phase, a component; moles do not matter here. `Description` is what `save_model`
writes down and `Fits` the comparison of `check_same_model`; `DescriptionTells` says that reactants
that compare equal have the same equations. The proofs assume it, TLC evaluates it on the instance.

### CellKinetics

The amounts of one element in a cell: in the solution, its phases, its solid solutions and its
kinetic reactants. `pc` is where `rk_kinetics` is (`"step"`, `"retry"`, `"out"`) or where the call
of `set_and_run_wrapper` is that it waits for (`"call"`, `"attempt"`, `"model"`, `"returned"`,
`"negative"`); `call.for` tells which of its calls. `Changed(j, p)` is the list of what attempt `j`
changes, from the source's chain of conditions. `Stage` and `Final` have the exits of the
methods of order 1, 2, 3 and 6; `TooLarge` and `Repeat` the smaller time steps. `Rates` lets the
reactants dissolve or, if negative, precipitate: no more than is left of them, no more than the
cell has of the element. Within that, rates, the error of a step and the new time step are
any; a calculation distributes what is there in any way. What a run of the cell has begun
with (`found`) and whether an error has ended an attempt (`stuck`) are history variables: no
action looks at them.

### ColumnTransport, and the column it implements

`transport()` as loops over cells: the calculations before the first step (`First`), the half
time step before the flow (`Half`), the flow (`Flow`), the cells after it (`OneCell`), a mixing
run (`Disperse`), and `mix_stag` (`StagnantCell`, `GroupDone`). `advection()` is the same with a
flow and one mixing run in each step. Each calculation is two or three steps: `Begin`,
`Integrate`, `LastCalculation`, and `Saver`. `sol` is the map of solutions with its temporary
numbers: -2 for the cell whose old solution its neighbour still needs, `Waiting(k)` for a
stagnant cell, `SaveOld` for what kinetics put aside. `AfterRun` is how mixing runs, flow and
steps follow each other. What a calculation computes is an operator the instance supplies.

`Column` is the column of the equations: all cells are mixed at once from the waters before the
step. `settled` is the column after the last loop that was completed; `ColumnTransport` implements
`Column` with it as the water and solids. `ColumnCells` has the geometry.

### BasicControl, and the programs it is checked with

One action per statement. A line holds one statement; conditions and assignments are the
simplest that make control depend on data. `Count` and `EndOfFor` are the scan of `cmdfor` for
the end of a loop that is not entered, `Matching` and `Upto` how NEXT, WEND and RETURN drop records,
`ItemAt` the pointer into the DATA lines. `Stop` is `PhreeqcStop` out of a BASIC function, which
passes by the cleanup at the end of `basic_run`.

There are two references. `NestedBasic` reads the loops of a program off its lines, by counting what
they begin and close (`LoopsOf`). The programs whose loops lie within or behind one another
(`IsNested`) may leave loops by GOTO and call subroutines outside of loops; where their statements
go is said without the records of loops (`NestedStep`, `RunsByBlocks`). For `StructuredBasic`, `Lines`
writes nested blocks down as a program, and `Meaning` says what they punch, by recursion over the
blocks and without lines, records or scans.

## What is checked

| run | question | bounds |
|---|---|---|
| `session` | does every sequence of calls keep switches, files, streams, texts and results in step, return, and implement the contract? | one file switch, one text buffer, one reporter, two simulations, one include |
| `session_escapes` | is what a call says of itself right, even after exceptions that escaped from earlier ones? | the same, one simulation |
| `selected_output` | do file, string and table receive the same rows under headings? | user numbers 1 and 2; a definition, two simulations, two rows in a run |
| `selected_table` | is the table a list of complete rows? | two user headings, one option, one model heading, one `no_heading_n`, three punches |
| `inverse` | exactly the minimal models, each once; does it end? | three solutions, three phases; none, one, or two models and their union; `int` of 7 bits |
| `registry` | does a number mean the same instance for ever? | three threads, three addresses, four instances |
| `reactant_store` | does a reaction happen at once or not at all, and is a request carried out once? | solutions, exchangers, kinetics; numbers 1 and 2, 1 defined before; two simulations, three keywords, two reaction steps |
| `basic` | does a program do what its blocks mean, each statement and all together, and end? | programs of two nested blocks and a subroutine, two variables, three DATA lines; 14 broken programs; two runs |
| `model_cache` | is a reused model the one that would be made? | seven sets of reactants, one read of the database, stops everywhere |
| `column` | does calculating in place have the result of mixing at once, with the right times? | 27 columns of one to three cells, up to two stagnant layers, three mixing runs; two shifts, two runs |
| `kinetics` | are parameters and phases put back, and is mass kept? | seven cells of all orders, two of them for two runs, three units of time, one repetition that counts as bad, errors anywhere |
| `kinetics_order2` | the same for order 2 with solid solutions | one cell, two units of time |

Why the bounds are enough. *session*: the channels do not interact, except that the error
file and the error report receive the same message, so one of each shows everything; a
second simulation is where `input_error` is forgotten and a first error must be
remembered; one include is enough for a stream above the run's own. Calls themselves are
not bounded: the state space is finite because texts are sets of origins. *selected_output*:
1 keeps its old definition when it is read again and 2 does not (`read_selected_output`
treats 1 specially); the second simulation has tables that exist already. Runs are not
bounded. *selected_table*: three punches let a heading come late (after one row), be
missing in the next, and come back. *inverse*: with three phases a round can prune by
sets of an earlier round and of an earlier size; all pairs of models are initial states,
and so are both values of `-minimal`. *registry*: three threads are a user, a destroyer and a
creator; four instances at three addresses force an address to be used again.
The threads and addresses are interchangeable, so symmetry is used there; the run has no
liveness property.

*reactant_store*: a second simulation meets what a first has left, stopped or not; two steps
tell incremental reactions from others; three keywords are a definition, a USE or REACTION
and a request. The proofs have no bound. *basic*: two blocks within each other make two records on
the stack, the subroutine a third; the loops of the bounds 1 to 0, 1 to 2 and 2 to 1 are not
entered, counted up and down; one DATA line is empty. 1274 of the 1382 programs are in
`NestedPrograms`; 8 others are broken, 96 have an `ON .. GOSUB` in a loop, and 4 leave a WHILE for
a WEND that takes its record. *model_cache*: the sets differ
pairwise in at least one kind or option that the description has or lacks; calculations
are not bounded. *column*: three cells have one with neighbours on both sides; two shifts have one
after a shift; two runs let the second start from what a stopped one has left. The
calculations are affine maps modulo primes in which each argument has a weight of its own, so
that a wrong argument gives another number. *kinetics*: three units allow a step to be shortened
twice; one unit of the element in each place is what can be lost; the second run of a cell
begins with the parameters that an error has left in the first.

Deadlock is checked in the runs `session`, `selected_output`, `selected_table`, and in
`model_cache`. It is not in `inverse`, `basic`, `column`, `kinetics` and `reactant_store`, which end
at their bounds, in `session_escapes`, where a leftover stream stops the model, and in `registry`,
where a `bad_alloc` in the insertion leaves the lock taken for ever (a hazard listed in
PROJECT.json). `SessionEscapes.cfg` differs from `Session.cfg` in `Escapes`: may an exception other
than `IPhreeqcStop` leave a run? `KineticsOrder2.cfg` differs from `Kinetics.cfg` in the cells.

### The properties

*IPhreeqcSession*: `FilesFollowClient`, `InputStackClean` (what a call borrows it gives back),
`ResultTellsErrors` (0 exactly if no error was issued, although `input_error` is
forgotten), `ReturnedText` (buffers and lines agree and are of this call),
`BatchesNotMixed` (accumulated input), `ContractSpec`, `CallReturns`.

*SelectedOutputSession*: `TablesForDefinitions` (no null table is dereferenced),
`BuffersMatchTable` (headings first, then a row for every row of the table).

*SelectedOutputTable*: `ColumnsFilled`, `UserColumns` (a heading of `USER_PUNCH` holds this
row's value or nothing), `RowsSpec`.

*InverseSearch*: `ModelsOnce`, `AllMinimalFound`, `SearchEnds`.

*InstanceRegistry*: `CallsReachTheirInstance`, `RegistryExact`.

*ReactantStore*: `StoreSpec` and `ReactionsAtomic` (what changes, and that it is the reaction that
was asked for), `NewAreCalculatedUnlessStopped` (none starts from an entry without its initial
calculation), `RequestsCarriedOutOnce`. The last two exclude histories with a stop: a stopped
run leaves definitions that no later simulation calculates, and requests that a later one
carries out.

*ModelCache*: `SolvesItsOwnModelUnlessTorn`, `UnknownsFit` (the vector of unknowns is long enough).

*CellKinetics*: `AttemptsStartAlike` says what each attempt starts with in every history, those with
errors included: the parameters its run has begun with, and the reactants its calculation has
found. That these parameters are those of KNOBS it says as long as no error has ended an attempt;
after one they are those of the attempt that was stopped, which nothing resets. `MassKept` is
about cells of which no run has ended with an error and no first calculation with
MASS_BALANCE.

*ColumnTransport*: `ColumnSpec`, `GivenOnceAShift` (the time of kinetics, and the REACTION, of a
shift).

*NestedBasic*: `RunsByBlocks` (FOR, NEXT, WHILE, WEND and RETURN find the loop or call that the text
gives them). *StructuredBasic*: `RunsAsWritten`, `RunEnds`.

Each has a mutant, a definition beside the one it changes whose name says what goes wrong
(`EndOfInput_IgnoresEof`, `Passed_TakesNew`, ...), that the run must refute. So the
properties are not true by the shape of the model.

### Fairness

`FairSpec` of `IPhreeqcSession` is weak fairness of `CallStep`: the thread that made a call
runs it. Nothing makes a client call. `FairSpec` of `InverseSearch` is weak fairness of its
single thread. `BasicControl` assumes it of `Statement \/ Cleanup`: the interpreter goes on once it
is called; nothing makes a caller run a program again, and a run may be stopped. The other
modules state no liveness property and assume no fairness; in
particular nothing is assumed of the scheduling of threads in the registry.

`CallReturns` says that the *loop structure* of a call ends: simulations and includes are
bounded in the model, and an include cycle in the input is not in it.

## Where code and words disagree

One disagreement is a run:

* `kinetics_order2`: a step of order 2 whose rates turn out to be equal is saved, and then, under the
  comment "Free space", the solid solutions of *before* the step are put in the place of the
  saved ones (`kinetics.cpp:680`); the exits of the other orders free the copy. What has
  precipitated is lost. `MassKept` of the run `kinetics` holds for the other orders and for
  cells without solid solutions.

The others are in the models, without a property of their own:

* After an aborted run that defined reactants, `ListComponents` keeps returning the list from
  before: `do_run` sets `UpdateComponents` only at its end (`IPhreeqc.cpp:1512`).
* An exception other than `IPhreeqcStop` leaves the run's stream on the stack; the assertion at
  the start of the next run (`IPhreeqc.cpp:1227`) fails. `InputStackClean` is claimed for
  sessions without such exceptions.
* `PRINT -selected_output false`, a load, and a run aborted before `tidy_punch` leave
  `PHRQ_io::punch_on` off while `pr.punch` is on. A later run fills the table and not the
  string (`outOfStep` in `BuffersMatchTable`).
* The loops that clear the lines of selected output (`lit != begin()`, `IPhreeqc.cpp:1181` and 1113)
  never run; the lines of earlier runs are counted for an empty string.
* An inverse model ends its line and not its row (`inverse.cpp:2201`), so its values are overwritten
  by the next model and merged into the next row.
* With 32 columns, which the search accepts (`inverse.cpp:1056`), the topmost bit spreads over the
  upper half of the word and models are found again and again. The proof of `ModelsOnce` needs
  fewer columns than bits.
* Definitions and requests of a stopped run, see above; a stopped `RUN_CELLS` runs again in the next.
* A stop while the lists of a model are made, or inside inverse modelling, leaves an array with a
  size, which `prep` takes for a whole model (`torn` in `ModelCache`).
* `check_same_model` compares solid solutions by their names. The instance gives each name one
  definition.
* `ON .. GOSUB` with an index out of range leaves a record on the stack (`PBasic.cpp:6644`), so that a
  NEXT around it fails and a RETURN after it jumps back. The programs of the instance have
  such an `ON` only where neither follows.
* The scan of a FOR that is not entered keeps one balance for its own variable and one for the others
  and for NEXT alone (`PBasic.cpp:6266`). It stops too early if a loop within, of the same variable,
  is closed by NEXT alone. `IsNested` excludes it; TLC finds `RunsByBlocks` violated without that.

## What is proved

The proofs hold for all values of the constants that satisfy the module's assumption, and
rest on nothing else. Each has an inductive invariant; a lemma for every action keeps it.

* `SessionProofs`. `SessionTyped`, `ResultsTellErrors` and `RunsReturnTheirText` for every `Escapes`;
  `FilesAlwaysFollow` (from `SwitchesAreRestored` and `StreamsAlwaysFollow`), `InputStackIsClean`,
  `RunsHaveDatabase`, `BatchesNeverMix` and the refinement `SessionKeepsContract` under
  `Escapes = FALSE`, the condition without which TLC finds each of them violated. Each invariant
  needs to say what holds *inside* a call: who called whom at which step (`CallShape`), which
  switches are put away and which streams open (`SwitchesKept`), that no stream outlives
  its run (`NoStreamLeft`), which steps have a database (`DatabaseKnown`), and that an
  error message leaves a trace in `io_error_count` that survives the `read_input`s to
  come (`ErrorsCounted`). Of the buffers, `TextOfRun` says what they hold at each step of a run:
  nothing of an earlier one, no lines before the end, and then those of the texts; of the
  accumulated input, `BatchClosed` says that what was submitted is either still being run or
  marked to be cleared. `SessionKeepsContract` takes the steps one by one: the last of a
  call is the contract's step of that call, whatever it was and wherever it stopped, the
  others change nothing a client sees. `CallsRunOut`, for every `Escapes` and every bound on the
  input, is what safety has to say of `CallReturns`: each step of a call leaves less `CallWork`,
  in a lexicographic order that is proved well-founded (`LessWorkWellFounded`). First comes the
  place in the course of a load or run, then the simulations to come with the steps left of the
  one under way, then the files to include, the streams to pop and what a block can still
  report. The end of input that `do_run` looks at is what makes the second shrink.
* `SelectedOutputProofs`, about three modules.
  Of *SelectedOutputTable* it proves `TableTyped`, `ColumnsStayFilled`, `UserPunchColumns`, and
  `TableImplementsRows`: initial states map to initial states of `PunchedRows` and each step to
  a step or a stutter. The invariant is `TableTypeOK` with `ColumnsFilled`, and, for
  `UserPunchColumns`, that the columns up to `n_user_punch_index` hold this punch's value.
  Of *SelectedOutputSession* it proves `SessionTyped`, `EveryDefinitionHasTable` and `BuffersFollowTables`
  for any user numbers and bounds. `BuffersMatchTable` speaks of a simulation that
  punches; the invariant `SessionInv` carries it there through the blocks, the opening loop and
  `tidy_model`: no file is open that is not on, and none that is on is left out once the
  loop has passed it (`Opened`); an open file without headings belongs to a new definition, and
  then this simulation has a block, for which `tidy_model` writes them (`HeadingsFirst`); and the
  buffers have the rows of the tables at every step of a run, not only there (`RowsCounted`, which
  also bounds the tables).
  Of *BasicControl* it proves `BasicTyped` and `RecordsFitTheirLoops` for every program, also those that
  jump in and out of loops: a record is that of a FOR, WHILE, GOSUB or ON of the program, so
  that NEXT goes on behind its FOR with its variable, limit and step, WEND evaluates the
  condition of a WHILE, and every line that is executed is there. Which loop it is that they
  find is `NestedRunsByBlocks`, for every program of nested loops. Its invariant `Stacked` (as a theorem
  `NestedProgramsKeepTheirStack`) says that each loop around the line has its record on the
  stack, and that each record above it is of a loop within (`Inner`): one that a jump has
  left, which NEXT and WEND drop because they cannot take it for theirs, or one that is itself
  still around the line. Below the record of a call the same holds of the line of the call, so
  that RETURN uncovers what the call has covered. That the scan of a loop that is not entered stops
  at its own end, and not before, compares two cardinalities: within a loop at most as many lines
  close loops as begin them (`BegunBeforeClosed`, by the injection of ends into beginnings), and
  at its end one more does (`ClosedAtItsEnd`); each of the two balances of `cmdfor` counts loops
  of one sort (`SortOf`).
* `InverseSearchProofs`. `SearchTyped` and `PruningIsSound` for every problem and width;
  `MinimalModelsAreMinimal`, `ModelsAreFoundOnce` and `SearchFindsAll` if there are fewer columns than an
  `int` has bits, a condition that is needed. The invariant says that every column
  `minimal_solve` has passed is needed (`Exact(Tried)`); it is kept because
  infeasibility is monotone: a column that could not be spared in a larger set
  cannot be in a smaller one. For `SearchFindsAll` the invariant `Complete` says of every minimal model
  that is still missing where the search has yet to come: not to a word of solutions it has
  passed (`WordsPassed`), a size it has left (`SizesPassed`) or a set it has visited (`SetsPassed`, and, if
  the round may quit, no part of one); and if `minimal_solve` has it, it is not reduced (`ReducedToItself`).
  A set that is pruned is no missing model: infeasible sets have no models, and a superset of a
  minimal model found before is not minimal. That `next_set_phases` passes no set of its size
  over is shown from the order of the sets (`Before`).
  `SearchRunsOut` is what safety has to say of `SearchEnds`: every step of the search leaves less
  `Work` (the stage, the words, sizes and sets to come, and the steps left of the set), in a
  lexicographic order that is proved well-founded (`LessWellFounded`), so that the loops of
  `solve_inverse` and `minimal_solve` cannot go on for ever. The invariant `Rounds` says where
  a round of a word stands; it needs no bound on the columns, for words that do not fit an `int`
  are visited too, if not told apart.
* `InstanceRegistryProofs`. `RegistryTyped`, `MutualExclusion`, `CallsAreRouted`,
  `NumbersAreAlwaysNew`, `RegistryStaysExact` for any number of threads, addresses and
  instances. The invariant adds to the mutual exclusion what each thread holds at each
  place (`Held`), that no two threads hold one instance or create one number (`Apart`), that
  the living are registered where they are (`LivingWell`) and the dead are not (`DeadGone`).

* `ReactantStoreProofs`. `TypeCorrect`, `NewAreCalculatedBeforeUse`, `RequestsOnce`, `ReactionsAreAtomic`
  and `StoreImplementsMap` for all numbers, kinds, steps and bounds. The invariant says what each
  place of a simulation has: steps that are counted and a solution that was found
  (`StepsStand`), working copies that have seen the steps so far, or none of them, depending on
  INCREMENTAL_REACTIONS (`WorkingCopies`), a result that has seen one more (`ResultOfSteps`), the
  user's SAVE numbers put away while `save` is borrowed (`SavesOfUser`), requests that only stand
  where they are carried out (`Requests`), and entries marked new only where they wait for their
  initial calculation (`NewOnes`). From it, `LastSave` is the one step of a reaction that changes
  an entry a user can name, and it is `React` of the abstract map.
* `CellKineticsProofs`. `TypeCorrect`, `AttemptsAreAlike` and `MassIsKept` for all cells, methods, rates
  and times; the last if order 2 is not used with solid solutions, the case of the disagreement above that
  `kinetics_order2` shows. `Parameters` says where the parameters are those the run has begun with,
  with or without the switches of an attempt (`Start`, `Between`), and where the copies are those
  the call has found (`old`, `kept`); it holds after errors too. `Books` says which amounts of a
  cell have to add up at each place: those of the whole cell between calls, those without the
  kinetic reactants and with what the stages have added inside a step. A stop inside a step leaves
  the amounts as they are, and `MassIsKept` claims nothing of such a cell (`broken`).
* `ModelCacheProofs`. `ModelsTyped`, and `ReusedModelsAreRight` under `DescriptionTells`. `Current` says
  that the equations the solver is given are those of the reactants in use, `Reusable` that `last`
  describes the reactants whose equations are in `x`, unless a new model is forced. `VectorIsLongEnough`
  compares what `setup_unknowns` counts with what each `setup_` function makes, one lemma for each
  kind of reactant (`SolutionLength`, `ExchangeLength`, `SurfaceLength` and so on). The potentials of a surface are
  counted for each of its charges and made with the first component that has the charge; that
  the two come to the same number is `ChargesCounted`.
* `ColumnTransportProofs`. `ColumnTyped`, `TimesAreGivenOnce`, and `ColumnIsImplemented`: for any number
  of cells, layers, mixing runs and shifts, and any calculations that `ColumnsAssumption` allows,
  the loops that save in place and in temporary solutions implement `Column`. The invariant `Kept`
  says at each place which cells still have what the loop has found (`Contained`: a cell is what
  it was, or has its result, or its result waits in -2 or in `Waiting` of the cell), and what
  the calculation under way has done so far (`Calculation`). The loops keep it because a cell is
  only overwritten after its neighbour was mixed with it. `Accounts` is the invariant of time: where
  the loops over mixing runs, cells and layers are (`Order`), and, for each cell, how many parts
  of the shift it has had by then (`Timed`); that the parts make up the shift is lemma `Shares`.

Only model-checked: `CallReturns`, `SearchEnds` and `RunEnds`, since liveness and `ENABLED` are out of
the prover's reach (of the first two the half that is safety, that no call and no search is
endless, is proved as `CallsRunOut` and `SearchRunsOut`; that one under way always has a step is
left to TLC; `RunEnds` is about the loops of given programs, and others do run for ever); and `RunsAsWritten`, whose reference is recursive, an induction over data.
`StructuredBasic` is the only module with recursive operators, and no claim is proved of it: that each
statement of a nested program goes where the text says is proved, what the statements of a
run come to is checked. All other properties of the runs are theorems, on the conditions named
above.

## What is not modelled, and why

* The chemistry: real-valued iteration, with the Pitzer and SIT models and isotopes.
* The bodies of the keyword readers other than those named above: they fill tables and
  have no behaviour beyond that.
* Of the reactant store: MIX and the `*_MIX` blocks, ranges of numbers in definitions, `*_RAW` and
  `*_MODIFY`, numbers below 0 given by the user, and the text DUMP writes.
* Of the making of a model: `-same_model` of TRANSPORT, by which the user vouches for what
  `check_same_model` would test, its look for the phase or rate a surface is related to
  (`prep.cpp:5862`; a model is made anew more often with it), and the boundary phases of an
  initial solution.
* Of kinetics: CVODE, a library with its own control of steps, the coefficients of the methods, and
  exchangers and surfaces whose sites grow with a kinetic reactant.
* Of the registry: what a call does to an instance that another thread destroys meanwhile. The
  interface gives the lock back before the instance is used and cannot prevent it.
* Of transport: multicomponent and implicit diffusion, electro-migration, heat, moving surfaces, and
  the mixing of stagnant cells with a boundary solution or by user-defined MIX, and a MIX of
  ADVECTION with others than the cells on both sides.
* Of BASIC: expressions, strings, DIM, several statements in a line, and the editing commands of an
  interactive interpreter.
* `setup_inverse`, `range` and the printing of inverse models: they build matrices and format
  results, and change none of the lists of the search.
* The static strings some getters of the C interface return, and the file-scope tables of diffusive
  transport: no statement of the interface says which calls of different instances may overlap.
* The Vitens getters, serializer, wrappers and charts: reads, conversions, or code for
  another platform.

## Plan

Done, in this order: `SessionContract`, `IPhreeqcSession`, `SelectedOutputTable` with
`PunchedRows`, `SelectedOutputSession`, `InverseSearch`, `InstanceRegistry` and their proof
modules; `Reactants`, `ReactantMap`, `ReactantStore` with `ReactantStoreProofs`; `BasicControl` with
`NestedBasic` and `StructuredBasic`; `ModelCache` with `ModelCacheProofs`; `ColumnCells`, `Column`,
`ColumnTransport` with `ColumnTransportProofs`; `CellKinetics` with `CellKineticsProofs`.

Next, most important first:

1. Stagnant cells mixed with a boundary solution, and multicomponent diffusion, in `ColumnTransport`: the
   latter needs the fluxes between two cells to be kept apart from their solutions.
2. MIX and the ranges of numbers in `ReactantStore`.
