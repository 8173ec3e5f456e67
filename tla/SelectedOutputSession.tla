------------------------- MODULE SelectedOutputSession -------------------------
(***************************************************************************)
(* Selected output through an IPhreeqc object: the SELECTED_OUTPUT         *)
(* definitions of the engine (Phreeqc::SelectedOutput_map) and, for each   *)
(* user number, the four places a punched row goes to: the file, the       *)
(* string buffer, the table of values and, after the run, the line buffer  *)
(* (src/src/IPhreeqc.cpp, phreeqcpp/read.cpp, tidy.cpp and print.cpp).     *)
(*                                                                         *)
(* A run reads simulations; each is inserted and opened, tidied and then   *)
(* punched row by row.  A run may be aborted at every step.  A row is      *)
(* abstracted to "row", a line of headings to "heading" and what an        *)
(* aborted row leaves behind to "part"; a table to its number of rows.     *)
(* Every definition is taken to have a column.  The lines of inverse       *)
(* models, which end no row, are in SelectedOutputTable and not here.      *)
(***************************************************************************)
EXTENDS Naturals, Sequences, FiniteSets

CONSTANTS
  Users,          \* user numbers of SELECTED_OUTPUT, and of the client's switches
  MaxDefinitions, \* bound: SELECTED_OUTPUT blocks in one run
  MaxSimulations, \* bound: simulations in one run
  MaxRows         \* bound: rows punched in one run

ASSUME SelectedAssumption ==
  /\ Users \subseteq Nat
  /\ 1 \in Users
  /\ MaxDefinitions \in Nat /\ MaxSimulations \in Nat /\ MaxRows \in Nat

Lines   == {"heading", "row", "part"}
Pcs     == {"idle", "readInput", "readBlock", "open", "tidy", "punch"}
Results == {"none", "ok", "errors"}

VARIABLES
  pc,         \* the step of the run in progress, "idle" between runs
  result,     \* what the latest run returned
  current,    \* CurrentSelectedOutputUserNumber
  fileOn,     \* SelectedOutputFileOnMap; a missing entry is FALSE
  strOn,      \* SelectedOutputStringOn; a missing entry is FALSE
  defs,       \* the user numbers in SelectedOutput_map
  newDef,     \* those with new_def
  inactive,   \* those with active = false
  stream,     \* those with an open punch_ostream
  prPunch,    \* PhreeqcPtr->pr.punch
  punchOn,    \* PHRQ_io::punch_on
  newPunch,   \* has this simulation a SELECTED_OUTPUT block?
  inputError, \* has this run reported an error?
  toOpen,     \* numbers the opening loop of do_run has still to visit
  tables,     \* the user numbers in SelectedOutputMap
  rows,       \* m_nRowCount of each table
  text,       \* SelectedOutputStringMap
  file,       \* what has been written to each open file since it was opened
  lines,      \* the user numbers with lines in SelectedOutputLinesMap
  used,       \* bounds: definitions, simulations and rows of this run
  base,       \* history: the rows of the table when the file was last opened
  outOfStep,  \* history: were rows of this run punched while punchOn # prPunch?
  unopened    \* history: numbers whose file could not be opened in this run

switchVars == <<current, fileOn, strOn>>
defVars    == <<defs, newDef, inactive, stream, file, base, unopened>>
punchVars  == <<prPunch, punchOn, outOfStep>>
readVars   == <<newPunch, inputError, toOpen>>
bufferVars == <<tables, rows, text>>
vars == <<pc, result, switchVars, defVars, punchVars, readVars, bufferVars, lines, used>>

TypeOK ==
  /\ pc \in Pcs /\ result \in Results
  /\ current \in Users
  /\ fileOn \in [Users -> BOOLEAN] /\ strOn \in [Users -> BOOLEAN]
  /\ defs \in SUBSET Users /\ newDef \in SUBSET defs /\ inactive \in SUBSET defs
  /\ stream \in SUBSET Users /\ unopened \in SUBSET Users
  /\ prPunch \in BOOLEAN /\ punchOn \in BOOLEAN /\ outOfStep \in BOOLEAN
  /\ newPunch \in BOOLEAN /\ inputError \in BOOLEAN /\ toOpen \in SUBSET Users
  /\ tables \in SUBSET Users
  /\ rows \in [Users -> 0..MaxRows] /\ base \in [Users -> 0..MaxRows]
  /\ text \in [Users -> Seq(Lines)] /\ file \in [Users -> Seq(Lines)]
  /\ lines \in SUBSET Users
  /\ used \in [definitions : 0..MaxDefinitions, simulations : 0..MaxSimulations,
               rows : 0..MaxRows]

None == [n \in Users |-> <<>>]

--------------------------------------------------------------------------------
(* Writing *)

\* get_sel_out_string_on(n) looks up the current user number, not n.
StringOn(n) == strOn[current]

\* punch_msg and fpunchf of IPhreeqc: to the string if it is on, to the file if
\* it is open, both only while the io object's punch_on is set.
Written(buffer, to, what, on) ==
  [n \in Users |-> IF on /\ n \in to THEN Append(buffer[n], what) ELSE buffer[n]]

StringUsers == {n \in Users : StringOn(n)}

\* tidy_punch: a line of headings for every new definition, whatever pr.punch
\* says; punch_on is set to pr.punch only if there was one.
TidyPunch(new, open, written) ==
  /\ text' = Written(text, new \cap StringUsers, "heading", TRUE)
  /\ file' = Written(written, new \cap open, "heading", TRUE)
  /\ newDef' = {}
  /\ punchOn' = IF new = {} THEN punchOn ELSE prPunch

--------------------------------------------------------------------------------
(* What a client does between calls *)

\* SetCurrentSelectedOutputUserNumber
SetCurrent(n) ==
  /\ pc = "idle"
  /\ current' = n
  /\ UNCHANGED <<fileOn, strOn>>
  /\ UNCHANGED <<pc, result, defVars, punchVars, readVars, bufferVars, lines, used>>

SetFileOn(value) ==
  /\ pc = "idle"
  /\ fileOn' = [fileOn EXCEPT ![current] = value]
  /\ UNCHANGED <<current, strOn>>
  /\ UNCHANGED <<pc, result, defVars, punchVars, readVars, bufferVars, lines, used>>

SetStringOn(value) ==
  /\ pc = "idle"
  /\ strOn' = [strOn EXCEPT ![current] = value]
  /\ UNCHANGED <<current, fileOn>>
  /\ UNCHANGED <<pc, result, defVars, punchVars, readVars, bufferVars, lines, used>>

\* Mutant: new_def and active outlive their definitions.
LoadDatabase_KeepsFlags ==
  /\ pc = "idle"
  /\ current' = 1
  /\ fileOn' = [n \in Users |-> FALSE] /\ strOn' = fileOn'
  /\ defs' = {} /\ UNCHANGED <<newDef, inactive>>
  /\ prPunch' = TRUE /\ UNCHANGED <<punchOn, outOfStep>>
  /\ tables' = {} /\ rows' = [n \in Users |-> 0]
  /\ text' \in {text, None}
  /\ result' = "none"
  /\ UNCHANGED <<pc, stream, file, base, unopened, readVars, lines, used>>

\* LoadDatabase of a database without SELECTED_OUTPUT blocks.  The engine is
\* initialised anew, the io object is not; the loops that should clear the
\* strings and the lines have the condition it # begin() and never run.  The
\* strings are cleared by the test run of a load that succeeds.
LoadDatabase ==
  /\ pc = "idle"
  /\ current' = 1
  /\ fileOn' = [n \in Users |-> FALSE] /\ strOn' = fileOn'
  /\ defs' = {} /\ newDef' = {} /\ inactive' = {}
  /\ prPunch' = TRUE /\ UNCHANGED <<punchOn, outOfStep>>
  /\ tables' = {} /\ rows' = [n \in Users |-> 0]
  /\ text' \in {text, None}
  /\ result' = "none"
  /\ UNCHANGED <<pc, stream, file, base, unopened, readVars, lines, used>>

--------------------------------------------------------------------------------
(* A run *)

\* check_database.  The loop that should clear the lines never runs.
BeginRun ==
  /\ pc = "idle"
  /\ tables' = {} /\ rows' = [n \in Users |-> 0]
  /\ text' = None
  /\ result' = "none"
  /\ pc' = "readInput"
  /\ UNCHANGED <<defVars, switchVars, punchVars, readVars, lines, used>>

\* A block of the input; the first one of a simulation counts it.
Block ==
  /\ pc \in {"readInput", "readBlock"}
  /\ pc = "readInput" => used.simulations < MaxSimulations
  /\ pc' = "readBlock"

Counted(definitions) ==
  [used EXCEPT !.simulations = IF pc = "readInput" THEN @ + 1 ELSE @,
               !.definitions = @ + definitions]

\* read_selected_output of a block that defines something: the definition and
\* its open stream are replaced, and a file that is on is opened.  Number 1
\* keeps what -active said.
DefineSelectedOutput(n) ==
  /\ Block
  /\ used.definitions < MaxDefinitions
  /\ used' = Counted(1)
  /\ defs' = defs \cup {n} /\ newDef' = newDef \cup {n}
  /\ inactive' = IF n = 1 THEN inactive ELSE inactive \ {n}
  /\ newPunch' = TRUE
  /\ \/ /\ fileOn[n]
        /\ stream' = stream \cup {n}
        /\ file' = [file EXCEPT ![n] = <<>>]
        /\ base' = [base EXCEPT ![n] = rows[n]]
        /\ UNCHANGED <<inputError, unopened>>
     \/ /\ fileOn[n]                    \* "Can`t open file"
        /\ stream' = stream \ {n}
        /\ file' = [file EXCEPT ![n] = <<>>]
        /\ inputError' = TRUE
        /\ unopened' = unopened \cup {n}
        /\ UNCHANGED base
     \/ /\ ~fileOn[n]
        /\ stream' = stream \ {n}
        /\ file' = [file EXCEPT ![n] = <<>>]
        /\ UNCHANGED <<base, inputError, unopened>>
  /\ UNCHANGED <<result, toOpen, switchVars, punchVars, bufferVars, lines>>

\* A block that says only -active.
SetActive(n, value) ==
  /\ Block
  /\ n \in defs
  /\ used' = Counted(0)
  /\ inactive' = IF value THEN inactive \ {n} ELSE inactive \cup {n}
  /\ newPunch' = TRUE
  /\ UNCHANGED <<defs, newDef, stream, file, base, unopened, inputError, toOpen>>
  /\ UNCHANGED <<result, switchVars, punchVars, bufferVars, lines>>

\* PRINT; -selected_output
PrintSelectedOutput(value) ==
  /\ Block
  /\ used' = Counted(0)
  /\ prPunch' = value /\ punchOn' = value
  /\ UNCHANGED <<outOfStep, result, defVars, readVars, switchVars, bufferVars, lines>>

\* Any other block, which may have an input error.
OtherBlock ==
  /\ Block
  /\ used' = Counted(0)
  /\ inputError' \in {inputError, TRUE}
  /\ UNCHANGED <<newPunch, toOpen>>
  /\ UNCHANGED <<result, defVars, switchVars, punchVars, bufferVars, lines>>

\* Mutant: tables are made for the definitions of this simulation only.
Insert_NewOnly ==
  /\ pc = "readBlock"
  /\ tables' = tables \cup newDef
  /\ toOpen' = IF prPunch THEN defs ELSE {}
  /\ pc' = "open"
  /\ UNCHANGED <<result, newPunch, inputError, rows, text>>
  /\ UNCHANGED <<defVars, switchVars, punchVars, lines, used>>

\* The head of do_run's loop after read_input: a table and a string for every
\* definition that has none.
Insert ==
  /\ pc = "readBlock"
  /\ tables' = tables \cup defs
  /\ toOpen' = IF prPunch THEN defs ELSE {}
  /\ pc' = "open"
  /\ UNCHANGED <<result, newPunch, inputError, rows, text>>
  /\ UNCHANGED <<defVars, switchVars, punchVars, lines, used>>

\* The opening loop of do_run: a file that is on and not open is opened for the
\* definition of an earlier run, and headings are written at once.
OpenPunchFile(n) ==
  /\ pc = "open"
  /\ n \in toOpen /\ \A m \in toOpen : n <= m
  /\ toOpen' = toOpen \ {n}
  /\ \/ /\ fileOn[n] /\ n \notin stream
        /\ stream' = stream \cup {n}
        /\ base' = [base EXCEPT ![n] = rows[n]]
        /\ TidyPunch(newDef \cup {n}, stream', [file EXCEPT ![n] = <<>>])
        /\ unopened' = unopened \ {n}
     \/ /\ fileOn[n] /\ n \notin stream  \* "Unable to open", a warning
        /\ unopened' = unopened \cup {n}
        /\ UNCHANGED <<newDef, stream, file, base, text, punchOn>>
     \/ /\ ~fileOn[n] \/ n \in stream
        /\ UNCHANGED <<newDef, stream, file, base, unopened, text, punchOn>>
  /\ UNCHANGED <<pc, result, defs, inactive, prPunch, outOfStep, newPunch, inputError, tables, rows>>
  /\ UNCHANGED <<switchVars, lines, used>>

EndOpening ==
  /\ pc = "open" /\ toOpen = {}
  /\ pc' = "tidy"
  /\ UNCHANGED <<result, switchVars, defVars, punchVars, readVars, bufferVars, lines, used>>

\* Mutant: new headings only for a definition that is active.
TidyModel_ActiveOnly ==
  /\ pc = "tidy" /\ ~inputError
  /\ \E newModel \in BOOLEAN :
       IF newPunch \/ newModel THEN TidyPunch(newDef \ inactive, stream, file)
       ELSE UNCHANGED <<text, file, newDef, punchOn>>
  /\ pc' = "punch"
  /\ UNCHANGED <<result, defs, inactive, stream, base, unopened, prPunch, outOfStep>>
  /\ UNCHANGED <<tables, rows>>
  /\ UNCHANGED <<switchVars, readVars, lines, used>>

\* tidy_model: tidy_punch after a SELECTED_OUTPUT block, or for a new model.
TidyModel ==
  /\ pc = "tidy" /\ ~inputError
  /\ \E newModel \in BOOLEAN :
       IF newPunch \/ newModel THEN TidyPunch(newDef, stream, file)
       ELSE UNCHANGED <<text, file, newDef, punchOn>>
  /\ pc' = "punch"
  /\ UNCHANGED <<result, defs, inactive, stream, base, unopened, prPunch, outOfStep>>
  /\ UNCHANGED <<tables, rows>>
  /\ UNCHANGED <<switchVars, readVars, lines, used>>

\* punch_all for the definitions of done: a row to the file, the string and the
\* table; the table takes it whatever punch_on says.
Punched(done) ==
  /\ text' = Written(text, done \cap StringUsers, "row", punchOn)
  /\ file' = Written(file, done \cap stream, "row", punchOn)
  /\ rows' = [n \in Users |-> IF n \in done THEN rows[n] + 1 ELSE rows[n]]

PunchAll ==
  /\ pc = "punch" /\ prPunch
  /\ used.rows < MaxRows
  /\ used' = [used EXCEPT !.rows = @ + 1]
  /\ Punched(defs \ inactive)
  /\ outOfStep' = (outOfStep \/ ~punchOn)
  /\ UNCHANGED <<pc, result, defs, newDef, inactive, stream, base, unopened, tables>>
  /\ UNCHANGED <<prPunch, punchOn, switchVars, readVars, lines>>

\* The calculation may have reported an error without giving up.
EndSimulation ==
  /\ pc = "punch"
  /\ pc' = "readInput"
  /\ newPunch' = FALSE
  /\ inputError' \in {inputError, TRUE}
  /\ UNCHANGED <<result, toOpen>>
  /\ UNCHANGED <<switchVars, defVars, punchVars, bufferVars, lines, used>>

\* close_output_files: every stream of SelectedOutput_map is closed.
CloseOutputFiles == stream' = {}

\* The run returns; what is said of the run in progress is forgotten.
Return(outcome) ==
  /\ CloseOutputFiles
  /\ pc' = "idle" /\ result' = outcome
  /\ newPunch' = FALSE /\ inputError' = FALSE /\ toOpen' = {}
  /\ file' = None /\ base' = [n \in Users |-> 0]
  /\ unopened' = {} /\ outOfStep' = FALSE
  /\ used' = [definitions |-> 0, simulations |-> 0, rows |-> 0]
  /\ UNCHANGED <<defs, newDef, inactive, switchVars, tables>>

\* The end of the input, met before any block of a simulation: do_run appends
\* the strings to the lines and the run returns.
Finish ==
  /\ pc = "readInput"
  /\ lines' = lines \cup {n \in defs \cap StringUsers : text[n] # <<>>}
  /\ Return(IF inputError THEN "errors" ELSE "ok")
  /\ UNCHANGED <<prPunch, punchOn, rows, text>>

\* IPhreeqcStop while the input is read, tidied or calculated, or no database is
\* loaded; an inverse model (dump_netpath) that stops leaves pr.punch and
\* punch_on FALSE.
Abort ==
  /\ pc \in {"readInput", "readBlock", "tidy", "punch"}
  /\ Return("errors")
  /\ \/ UNCHANGED <<prPunch, punchOn>>
     \/ pc = "punch" /\ prPunch' = FALSE /\ punchOn' = FALSE
  /\ UNCHANGED <<rows, text, lines>>

\* A USER_PUNCH program stops in the row of n: the numbers before n have their
\* row, n has a part of it that its table does not count.
AbortRow(n) ==
  /\ pc = "punch" /\ prPunch
  /\ used.rows < MaxRows /\ n \in defs \ inactive
  /\ LET done == {m \in defs \ inactive : m < n} IN
       /\ text' = Written(Written(text, done \cap StringUsers, "row", punchOn),
                          {n} \cap StringUsers, "part", punchOn)
       /\ rows' = [m \in Users |-> IF m \in done THEN rows[m] + 1 ELSE rows[m]]
  /\ Return("errors")
  /\ UNCHANGED <<prPunch, punchOn, lines>>

--------------------------------------------------------------------------------
(* The specification *)

Init ==
  /\ pc = "idle" /\ result = "none"
  /\ current = 1
  /\ fileOn = [n \in Users |-> FALSE] /\ strOn = fileOn
  /\ defs = {} /\ newDef = {} /\ inactive = {} /\ stream = {} /\ unopened = {}
  /\ prPunch = TRUE /\ punchOn = TRUE /\ outOfStep = FALSE
  /\ newPunch = FALSE /\ inputError = FALSE /\ toOpen = {}
  /\ tables = {} /\ rows = [n \in Users |-> 0] /\ base = rows
  /\ text = None /\ file = None
  /\ lines = {}
  /\ used = [definitions |-> 0, simulations |-> 0, rows |-> 0]

Next ==
  \/ \E n \in Users : SetCurrent(n)
  \/ \E value \in BOOLEAN : SetFileOn(value) \/ SetStringOn(value)
  \/ LoadDatabase
  \/ BeginRun
  \/ \E n \in Users : DefineSelectedOutput(n)
  \/ \E n \in Users, value \in BOOLEAN : SetActive(n, value)
  \/ \E value \in BOOLEAN : PrintSelectedOutput(value)
  \/ OtherBlock
  \/ Insert
  \/ \E n \in Users : OpenPunchFile(n)
  \/ EndOpening
  \/ TidyModel
  \/ PunchAll
  \/ EndSimulation
  \/ Finish
  \/ Abort
  \/ \E n \in Users : AbortRow(n)

Spec == Init /\ [][Next]_vars

--------------------------------------------------------------------------------
(* Properties *)

RowsIn(buffer) == Cardinality({i \in DOMAIN buffer : buffer[i] = "row"})

\* fpunchf dereferences SelectedOutputMap[n] of every definition it punches, a
\* null pointer if there is none; definitions survive a run and tables do not,
\* so do_run has to insert them again for every simulation.
TablesForDefinitions ==
  pc \in {"open", "tidy", "punch"} => tables = defs

\* While a run lasts a file is open exactly if its switch is on (the ASSERTs of
\* punch_msg and do_run; or it could not be opened), whether this run or an earlier
\* one defined it, and none is open between runs.  An open file has its headings
\* before the first row, and then exactly one row for every row added to the table
\* since it was opened; the string has the rows of the table from the start (unless
\* rows were punched with a punch_on that no longer follows pr.punch).
BuffersMatchTable ==
  /\ pc = "idle" => stream = {}
  /\ pc = "punch" => \A n \in defs :
       /\ prPunch /\ n \notin unopened => (n \in stream <=> fileOn[n])
       /\ n \in stream => file[n] # <<>> /\ Head(file[n]) = "heading"
       /\ n \in stream /\ ~outOfStep => RowsIn(file[n]) = rows[n] - base[n]
       /\ StringOn(n) /\ ~outOfStep => RowsIn(text[n]) = rows[n]

================================================================================
