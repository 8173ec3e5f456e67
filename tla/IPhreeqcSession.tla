---------------------------- MODULE IPhreeqcSession ----------------------------
(***************************************************************************)
(* One IPhreeqc object between its client and the PHREEQC engine: the      *)
(* calls LoadDatabase, LoadDatabaseString, RunString, RunFile and          *)
(* RunAccumulated (src/src/IPhreeqc.cpp), the switches a client may set    *)
(* between calls, and what a call does to the output streams, the string   *)
(* buffers, the line buffers, the input-stream stack, the accumulated      *)
(* input, the database flags and the component cache.                      *)
(*                                                                         *)
(* An object is used by one thread at a time, so a call is a sequence of   *)
(* steps that nothing interleaves with.  What makes it hard is where a     *)
(* call may end: IPhreeqcStop, thrown by error_msg(.., STOP), leaves it at *)
(* any step of reading, tidying or calculating, and so does any other C++  *)
(* exception (bad_alloc, or one thrown by a BASIC callback), which the     *)
(* call hands on to its client.                                            *)
(*                                                                         *)
(* Text is abstracted to its origin: a buffer is the set of the calls      *)
(* whose messages it holds, "this" call (the latest one that ran or loaded *)
(* something), an "earlier" one, or the "client" itself (AddError).        *)
(* What the engine computes is left out; Calculate only says which         *)
(* messages and which outcome a calculation may have.                      *)
(***************************************************************************)
EXTENDS Naturals, Sequences, FiniteSets

CONSTANTS
  Files,          \* channels with a file switch: part of {"output","log","error"}
  Buffers,        \* string channels of the engine's text: part of {"output","log"}
  Reports,        \* reporters, ErrorReporter and WarningReporter: part of {"error","warning"}
  Escapes,        \* may an exception other than IPhreeqcStop leave a call?
  MaxSimulations, \* bound: simulations in one input
  MaxIncludes     \* bound: files included by one input

ASSUME SessionAssumption ==
  /\ Files \subseteq {"output", "log", "error"}
  /\ Buffers \subseteq {"output", "log"}
  /\ Reports \subseteq {"error", "warning"}
  /\ Escapes \in BOOLEAN
  /\ MaxSimulations \in Nat
  /\ MaxIncludes \in Nat

Channels == Buffers \cup Reports
Ages     == {"this", "earlier", "client"}
Runs     == {"RunAccumulated", "RunFile", "RunString"}
Loads    == {"LoadDatabase", "LoadDatabaseString"}
Results  == {"none", "ok", "errors", "exception"}

VARIABLES
  pc,          \* the step of the call in progress, "idle" between calls
  caller,      \* who entered the run: the "client", or a member of Loads
  routine,     \* the run function in progress, "ReadDatabase", or "none"
  on,          \* OutputFileOn, LogFileOn, ErrorFileOn
  saved,       \* LoadDatabase's local copies of those switches, FALSE outside it
  stream,      \* is output_ostream, log_ostream, error_ostream open?
  strOn,       \* OutputStringOn, LogStringOn, ErrorStringOn, WarningStringOn
  text,        \* OutputString, LogString and the reporters' streams
  lines,       \* OutputLines, LogLines, ErrorLines, WarningLines
  accum,       \* StringInput: "pending" lines, and lines already "submitted"
  clearAccum,  \* ClearAccumulated
  dbLoaded,    \* DatabaseLoaded
  readingDb,   \* PhreeqcPtr->reading_db
  istreams,    \* PHRQ_io::istream_list, the front first
  sims,        \* PhreeqcPtr->simulation
  includes,    \* files included so far by this input
  inputError,  \* is PhreeqcPtr->input_error > 0?
  ioError,     \* is PHRQ_io::io_error_count > 0?
  updateComponents, \* UpdateComponents
  componentsFresh,  \* is Components what list_components would return now?
  result,      \* what the latest call returned
  clientOn,    \* history: the file switches the client asked for
  reported     \* history: has this call issued an error message?

callVars  == <<pc, caller, routine, result>>
fileVars  == <<on, saved, stream, clientOn>>
textVars  == <<strOn, text, lines>>
accumVars == <<accum, clearAccum>>
dbVars    == <<dbLoaded, readingDb>>
inputVars == <<istreams, sims, includes>>
errorVars == <<inputError, ioError, reported>>
compVars  == <<updateComponents, componentsFresh>>
vars == <<callVars, fileVars, textVars, accumVars, dbVars, inputVars, errorVars,
          compVars>>

--------------------------------------------------------------------------------
(* Types *)

ReadPcs == {"readInput", "readBlock"}
WorkPcs == ReadPcs \cup {"tidy", "calculate"}
RunPcs  == {"openOutput", "checkDatabase", "openInput", "startRun",
            "nextSimulation", "finish", "closeOutput"} \cup WorkPcs
LoadPcs == {"unload", "openDatabase", "loaded", "testDatabase", "restore"}
Pcs     == {"idle", "undefined"} \cup RunPcs \cup LoadPcs

TypeOK ==
  /\ pc \in Pcs
  /\ caller \in {"client"} \cup Loads
  /\ routine \in Runs \cup {"none", "ReadDatabase"}
  /\ on \in [Files -> BOOLEAN] /\ saved \in [Files -> BOOLEAN]
  /\ stream \in [Files -> BOOLEAN] /\ clientOn \in [Files -> BOOLEAN]
  /\ strOn \in [Channels -> BOOLEAN]
  /\ text \in [Channels -> SUBSET Ages] /\ lines \in [Channels -> SUBSET Ages]
  /\ accum \in SUBSET {"pending", "submitted"} /\ clearAccum \in BOOLEAN
  /\ dbLoaded \in BOOLEAN /\ readingDb \in BOOLEAN
  /\ istreams \in Seq({"main", "include", "dead"})
  /\ sims \in 0..MaxSimulations /\ includes \in 0..MaxIncludes
  /\ inputError \in BOOLEAN /\ ioError \in BOOLEAN /\ reported \in BOOLEAN
  /\ updateComponents \in BOOLEAN /\ componentsFresh \in BOOLEAN
  /\ result \in Results

--------------------------------------------------------------------------------
(* Messages *)

\* The channels a message of the engine reaches: Phreeqc::error_msg writes to
\* the output and the log before it reports, PHRQ_io::warning_msg as well.
Reaches == [quiet   |-> {},
            output  |-> {"output"},
            warning |-> {"warning", "output", "log"},
            error   |-> {"error", "output", "log"}]

Says(kind, before) ==
  [c \in Channels |-> IF c \in Reaches[kind] /\ strOn[c]
                        THEN before[c] \cup {"this"} ELSE before[c]]

\* Phreeqc::get_input_errors() # 0
HasErrors == inputError \/ ioError

\* A message; an error message (CONTINUE) also counts as an input error.
Message(kind) ==
  /\ text' = Says(kind, text)
  /\ IF kind = "error"
       THEN /\ inputError' = (inputError \/ ~ioError)
            /\ ioError' = TRUE
            /\ reported' = TRUE
       ELSE UNCHANGED errorVars

\* Where a call goes on after it has caught IPhreeqcStop.
AfterStop == IF routine = "ReadDatabase" THEN "loaded" ELSE "closeOutput"

\* Phreeqc::error_msg(.., STOP): the message, then throw IPhreeqcStop.
Stop == Message("error") /\ pc' = AfterStop

Aged(buffers) == [c \in Channels |-> IF buffers[c] = {} THEN {} ELSE {"earlier"}]

--------------------------------------------------------------------------------
(* What a client does between calls *)

SetFileOn(c, value) ==
  /\ pc = "idle"
  /\ on' = [on EXCEPT ![c] = value]
  /\ clientOn' = [clientOn EXCEPT ![c] = value]
  /\ UNCHANGED <<saved, stream>>
  /\ UNCHANGED <<callVars, textVars, accumVars, dbVars, inputVars, errorVars, compVars>>

SetStringOn(c, value) ==
  /\ pc = "idle"
  /\ strOn' = [strOn EXCEPT ![c] = value]
  /\ UNCHANGED <<text, lines>>
  /\ UNCHANGED <<callVars, fileVars, accumVars, dbVars, inputVars, errorVars, compVars>>

AccumulateLine ==
  /\ pc = "idle"
  /\ accum' = (IF clearAccum THEN {} ELSE accum) \cup {"pending"}
  /\ clearAccum' = FALSE
  /\ text' = [c \in Channels |-> IF c \in Reports THEN {} ELSE text[c]]
  /\ UNCHANGED <<strOn, lines>>
  /\ UNCHANGED <<callVars, fileVars, dbVars, inputVars, errorVars, compVars>>

ClearAccumulatedLines ==
  /\ pc = "idle"
  /\ accum' = {}
  /\ UNCHANGED clearAccum
  /\ UNCHANGED <<callVars, fileVars, textVars, dbVars, inputVars, errorVars, compVars>>

\* AddError and AddWarning
AddReport(c) ==
  /\ pc = "idle"
  /\ text' = [text EXCEPT ![c] = @ \cup {"client"}]
  /\ UNCHANGED <<strOn, lines>>
  /\ UNCHANGED <<callVars, fileVars, accumVars, dbVars, inputVars, errorVars, compVars>>

ListComponents ==
  /\ pc = "idle"
  /\ updateComponents
  /\ updateComponents' = FALSE
  /\ componentsFresh' = TRUE
  /\ UNCHANGED <<callVars, fileVars, textVars, accumVars, dbVars, inputVars, errorVars>>

--------------------------------------------------------------------------------
(* RunAccumulated, RunFile, RunString *)

\* RunFile and RunString clear the accumulated lines at once, RunAccumulated
\* leaves that to the next AccumulateLine.
EnterRun(r) ==
  /\ routine' = r
  /\ pc' = "openOutput"
  /\ IF r = "RunAccumulated"
       THEN /\ accum' = (IF accum = {} THEN {} ELSE {"submitted"})
            /\ UNCHANGED clearAccum
       ELSE accum' = {} /\ clearAccum' = FALSE

BeginRun(r) ==
  /\ pc = "idle"
  /\ EnterRun(r)
  /\ caller' = "client"
  /\ text' = Aged(text)
  /\ lines' = Aged(lines)
  /\ reported' = FALSE
  /\ result' = "none"
  /\ UNCHANGED <<strOn, inputError, ioError>>
  /\ UNCHANGED <<fileVars, dbVars, inputVars, compVars>>

OpenOutputFiles ==
  /\ pc = "openOutput"
  /\ stream' = [c \in Files |-> stream[c] \/ on[c]]
  /\ pc' = "checkDatabase"
  /\ UNCHANGED <<on, saved, clientOn, caller, routine, result>>
  /\ UNCHANGED <<textVars, accumVars, dbVars, inputVars, errorVars, compVars>>

\* Mutant: the texts of the last run are released only on success.
CheckDatabase_KeepsText ==
  /\ pc = "checkDatabase"
  /\ LET released == [c \in Channels |-> {}] IN
     \/ /\ dbLoaded
        /\ text' = released
        /\ inputError' = FALSE /\ ioError' = FALSE
        /\ pc' = IF routine = "RunFile" THEN "openInput" ELSE "startRun"
        /\ UNCHANGED reported
     \/ /\ ~dbLoaded                    \* "No database is loaded"
        /\ text' = Says("error", text)
        /\ inputError' = TRUE /\ ioError' = TRUE
        /\ reported' = TRUE
        /\ pc' = "closeOutput"
  /\ lines' = [c \in Channels |-> IF c \in Buffers THEN {} ELSE lines[c]]
  /\ UNCHANGED <<strOn, caller, routine, result>>
  /\ UNCHANGED <<fileVars, accumVars, dbVars, inputVars, compVars>>

\* check_database: every text is released, the lines of the reports are not.
\* The error counts are reset only after it.
CheckDatabase ==
  /\ pc = "checkDatabase"
  /\ LET released == [c \in Channels |-> {}] IN
     \/ /\ dbLoaded
        /\ text' = released
        /\ inputError' = FALSE /\ ioError' = FALSE
        /\ pc' = IF routine = "RunFile" THEN "openInput" ELSE "startRun"
        /\ UNCHANGED reported
     \/ /\ ~dbLoaded                    \* "No database is loaded"
        /\ text' = Says("error", released)
        /\ inputError' = TRUE /\ ioError' = TRUE
        /\ reported' = TRUE
        /\ pc' = "closeOutput"
  /\ lines' = [c \in Channels |-> IF c \in Buffers THEN {} ELSE lines[c]]
  /\ UNCHANGED <<strOn, caller, routine, result>>
  /\ UNCHANGED <<fileVars, accumVars, dbVars, inputVars, compVars>>

OpenInput ==
  /\ pc = "openInput"
  /\ \/ pc' = "startRun" /\ UNCHANGED <<text, errorVars>>
     \/ Stop                            \* "RunFile: Unable to open"
  /\ UNCHANGED <<caller, routine, result, strOn, lines>>
  /\ UNCHANGED <<fileVars, accumVars, dbVars, inputVars, compVars>>

\* The head of do_run: the run's own stream goes on top of the stack.
StartRun ==
  /\ pc = "startRun"
  /\ istreams' = <<"main">> \o istreams
  /\ sims' = 0
  /\ includes' = 0
  /\ pc' = "nextSimulation"
  /\ UNCHANGED <<caller, routine, result>>
  /\ UNCHANGED <<fileVars, textVars, accumVars, dbVars, errorVars, compVars>>

\* Mutant: the iteration that meets the end of the input is counted.
NextSimulation_CountsEof ==
  /\ pc = "nextSimulation"
  /\ text' = Says("output", text)
  /\ inputError' = FALSE
  /\ pc' = "readInput"
  /\ sims' = sims + 1 /\ UNCHANGED <<istreams, includes>>
  /\ UNCHANGED <<caller, routine, result, strOn, lines, ioError, reported>>
  /\ UNCHANGED <<fileVars, accumVars, dbVars, compVars>>

\* Mutant: read_input forgets io_error_count as well.
NextSimulation_ForgetsIoErrors ==
  /\ pc = "nextSimulation"
  /\ text' = Says("output", text)
  /\ inputError' = FALSE /\ ioError' = FALSE
  /\ pc' = "readInput"
  /\ UNCHANGED <<caller, routine, result, strOn, lines, reported>>
  /\ UNCHANGED <<fileVars, accumVars, dbVars, inputVars, compVars>>

\* The head of do_run's loop and of read_input, which forgets input_error.
NextSimulation ==
  /\ pc = "nextSimulation"
  /\ text' = Says("output", text)
  /\ inputError' = FALSE
  /\ pc' = "readInput"
  /\ UNCHANGED <<caller, routine, result, strOn, lines, ioError, reported>>
  /\ UNCHANGED <<fileVars, accumVars, dbVars, inputVars, compVars>>

--------------------------------------------------------------------------------
(* read_input over PHRQ_io::get_line *)

Readable == istreams # <<>> /\ Head(istreams) # "dead"

\* One keyword block; it may define reactants, and it may report.
ReadBlock ==
  /\ pc \in ReadPcs
  /\ Readable
  /\ pc = "readInput" => sims < MaxSimulations
  /\ sims' = IF pc = "readInput" THEN sims + 1 ELSE sims
  /\ pc' = "readBlock"
  /\ \E kind \in DOMAIN Reaches : Message(kind)
  /\ componentsFresh' \in {componentsFresh, FALSE}
  /\ UNCHANGED <<caller, routine, result, strOn, lines, istreams, includes,
                 updateComponents>>
  /\ UNCHANGED <<fileVars, accumVars, dbVars>>

\* An INCLUDE$ line whose file opens: its stream goes on top.
PushInclude ==
  /\ pc \in ReadPcs
  /\ Readable
  /\ includes < MaxIncludes
  /\ includes' = includes + 1
  /\ istreams' = <<"include">> \o istreams
  /\ text' = Says("output", text)
  /\ UNCHANGED <<sims, strOn, lines>>
  /\ UNCHANGED <<callVars, fileVars, accumVars, dbVars, errorVars, compVars>>

\* An INCLUDE$ line whose file does not open: get_line calls the io object's
\* error_msg itself, so only io_error_count knows.
IncludeMissing ==
  /\ pc \in ReadPcs
  /\ Readable
  /\ text' = [c \in Channels |-> IF c \in {"error", "output"} /\ strOn[c]
                                   THEN text[c] \cup {"this"} ELSE text[c]]
  /\ ioError' = TRUE
  /\ reported' = TRUE
  /\ pc' = AfterStop
  /\ UNCHANGED <<caller, routine, result, strOn, lines, inputError>>
  /\ UNCHANGED <<fileVars, accumVars, dbVars, inputVars, compVars>>

\* The top stream is at its end.
PopStream ==
  /\ pc \in ReadPcs
  /\ Readable
  /\ istreams' = Tail(istreams)
  /\ UNCHANGED <<sims, includes>>
  /\ UNCHANGED <<callVars, fileVars, textVars, accumVars, dbVars, errorVars, compVars>>

\* get_line reads a stream that has been destroyed: undefined behaviour.
ReadDeadStream ==
  /\ pc \in ReadPcs
  /\ istreams # <<>> /\ Head(istreams) = "dead"
  /\ pc' = "undefined"
  /\ UNCHANGED <<caller, routine, result>>
  /\ UNCHANGED <<fileVars, textVars, accumVars, dbVars, inputVars, errorVars, compVars>>

\* Mutant: the loop does not look at what read_input returns.
EndOfInput_IgnoresEof ==
  /\ \/ pc = "readBlock" /\ pc' = "tidy"
     \/ /\ pc = "readInput" /\ istreams = <<>>
        /\ pc' = "tidy"
  /\ UNCHANGED <<caller, routine, result>>
  /\ UNCHANGED <<fileVars, textVars, accumVars, dbVars, inputVars, errorVars, compVars>>

\* END after a block, or the end of the last stream.  Without any block the
\* end of the input is EOF, on which do_run leaves its loop; read_database
\* does not look at it.
EndOfInput ==
  /\ \/ pc = "readBlock" /\ pc' = "tidy"
     \/ /\ pc = "readInput" /\ istreams = <<>>
        /\ pc' = IF routine = "ReadDatabase" THEN "tidy" ELSE "finish"
  /\ UNCHANGED <<caller, routine, result>>
  /\ UNCHANGED <<fileVars, textVars, accumVars, dbVars, inputVars, errorVars, compVars>>

--------------------------------------------------------------------------------
(* The engine's work on one simulation *)

\* tidy_model: stops if anything has been reported since the call began,
\* otherwise it may still find errors of its own and stop.
TidyModel ==
  /\ pc = "tidy"
  /\ ~HasErrors
  /\ pc' = IF routine = "ReadDatabase" THEN "loaded" ELSE "calculate"
  /\ readingDb' = IF routine = "ReadDatabase" THEN FALSE ELSE readingDb
  /\ \E kind \in {"quiet", "warning"} : Message(kind)
  /\ UNCHANGED <<caller, routine, result, strOn, lines, dbLoaded>>
  /\ UNCHANGED <<fileVars, accumVars, inputVars, compVars>>

\* initial_solutions() ... delete_entities(): results, and maybe new reactants.
Calculate ==
  /\ pc = "calculate"
  /\ \E kind \in DOMAIN Reaches : Message(kind)
  /\ componentsFresh' \in {componentsFresh, FALSE}
  /\ pc' = "nextSimulation"
  /\ UNCHANGED <<caller, routine, result, strOn, lines, updateComponents>>
  /\ UNCHANGED <<fileVars, accumVars, dbVars, inputVars>>

\* Any of them gives up: error_msg(.., STOP), possibly after it has changed
\* reactants.
WorkStops ==
  /\ pc \in WorkPcs
  /\ Stop
  /\ componentsFresh' \in {componentsFresh, FALSE}
  /\ UNCHANGED <<caller, routine, result, strOn, lines, updateComponents>>
  /\ UNCHANGED <<fileVars, accumVars, dbVars, inputVars>>

\* Any other exception: the handler reports and rethrows to the client, past
\* the statements after the handler.  The call's own stream is destroyed, its
\* address stays on the stack (bound: one such address at a time).
WorkEscapes ==
  /\ Escapes /\ \A i \in DOMAIN istreams : istreams[i] # "dead"
  /\ pc \in WorkPcs
  /\ Message("error")
  /\ pc' = "idle"
  /\ routine' = "none"
  /\ result' = "exception"
  /\ istreams' = [i \in DOMAIN istreams |->
                    IF istreams[i] = "main" THEN "dead" ELSE istreams[i]]
  /\ componentsFresh' \in {componentsFresh, FALSE}
  /\ UNCHANGED <<caller, strOn, lines, sims, includes, updateComponents>>
  /\ UNCHANGED <<fileVars, accumVars, dbVars>>

\* The end of do_run: the line buffers are filled.
Finish ==
  /\ pc = "finish"
  /\ updateComponents' = TRUE
  /\ lines' = [c \in Channels |->
                 IF c \in Reports THEN text[c]
                 ELSE IF strOn[c] THEN lines[c] \cup text[c] ELSE lines[c]]
  /\ pc' = "closeOutput"
  /\ UNCHANGED <<caller, routine, result, strOn, text, componentsFresh>>
  /\ UNCHANGED <<fileVars, accumVars, dbVars, inputVars, errorVars>>

\* What every run function does last, whatever it closes; test_db, which may
\* have called it, resets reading_db.
EndRun ==
  /\ pc = "closeOutput"
  /\ sims' = 0 /\ includes' = 0
  /\ routine' = "none"
  /\ IF caller = "client"
       THEN /\ pc' = "idle"
            /\ result' = IF HasErrors THEN "errors" ELSE "ok"
            /\ UNCHANGED readingDb
       ELSE pc' = "restore" /\ readingDb' = FALSE /\ UNCHANGED result
  /\ UNCHANGED <<caller, on, saved, clientOn, strOn, text, accum, dbLoaded>>
  /\ UNCHANGED <<errorVars, compVars>>

\* The line buffers of the reports are taken from them.
UpdateErrors ==
  lines' = [c \in Channels |-> IF c \in Reports THEN text[c] ELSE lines[c]]

\* Mutant: clear_istream is skipped after an error.
CloseOutput_LeavesIstreams ==
  /\ EndRun
  /\ clearAccum' = (clearAccum \/ routine = "RunAccumulated")
  /\ stream' = [c \in Files |-> FALSE]
  /\ UpdateErrors
  /\ istreams' = IF HasErrors THEN istreams ELSE <<>>

\* Mutant: the report lines are left to the end of do_run.
CloseOutput_NoUpdateErrors ==
  /\ EndRun
  /\ clearAccum' = (clearAccum \/ routine = "RunAccumulated")
  /\ stream' = [c \in Files |-> FALSE]
  /\ UNCHANGED lines
  /\ istreams' = <<>>

\* Mutant: a RunAccumulated with errors leaves its batch open.
CloseOutput_KeepsBatch ==
  /\ EndRun
  /\ clearAccum' = (clearAccum \/ (routine = "RunAccumulated" /\ ~HasErrors))
  /\ stream' = [c \in Files |-> FALSE]
  /\ UpdateErrors
  /\ istreams' = <<>>

\* The end of the run function: close_output_files, update_errors, clear_istream.
CloseOutput ==
  /\ EndRun
  /\ clearAccum' = (clearAccum \/ routine = "RunAccumulated")
  /\ stream' = [c \in Files |-> FALSE]
  /\ UpdateErrors
  /\ istreams' = <<>>

--------------------------------------------------------------------------------
(* LoadDatabase, LoadDatabaseString *)

\* Mutant: the switches are saved after they have been turned off.
BeginLoad_SavesTooLate(l) ==
  /\ pc = "idle"
  /\ caller' = l
  /\ saved' = [c \in Files |-> FALSE]
  /\ on' = [c \in Files |-> FALSE]
  /\ text' = Aged(text)
  /\ lines' = Aged(lines)
  /\ reported' = FALSE
  /\ result' = "none"
  /\ pc' = "unload"
  /\ UNCHANGED <<routine, stream, clientOn, strOn, inputError, ioError>>
  /\ UNCHANGED <<accumVars, dbVars, inputVars, compVars>>

BeginLoad(l) ==
  /\ pc = "idle"
  /\ caller' = l
  /\ saved' = on
  /\ on' = [c \in Files |-> FALSE]
  /\ text' = Aged(text)
  /\ lines' = Aged(lines)
  /\ reported' = FALSE
  /\ result' = "none"
  /\ pc' = "unload"
  /\ UNCHANGED <<routine, stream, clientOn, strOn, inputError, ioError>>
  /\ UNCHANGED <<accumVars, dbVars, inputVars, compVars>>

\* UnLoadDatabase: the engine is cleaned up and initialised anew.
UnLoadDatabase ==
  /\ pc = "unload"
  /\ dbLoaded' = FALSE /\ readingDb' = FALSE
  /\ updateComponents' = TRUE /\ componentsFresh' = TRUE
  /\ accum' = {} /\ clearAccum' = FALSE
  /\ text' = [c \in Channels |-> IF c \in Reports THEN {} ELSE text[c]]
  /\ inputError' = FALSE /\ ioError' = FALSE
  /\ routine' = "ReadDatabase"
  /\ pc' = "openDatabase"
  /\ UNCHANGED <<caller, result, strOn, lines, reported>>
  /\ UNCHANGED <<fileVars, inputVars>>

\* The database's stream goes on the stack and read_database begins.
OpenDatabase ==
  /\ pc = "openDatabase"
  /\ \/ /\ istreams' = <<"main">> \o istreams
        /\ sims' = 0 /\ includes' = 0
        /\ readingDb' = TRUE
        /\ Message("output")
        /\ pc' = "readInput"
     \/ /\ caller = "LoadDatabase"      \* "LoadDatabase: Unable to open"
        /\ Stop
        /\ UNCHANGED <<inputVars, readingDb>>
  /\ UNCHANGED <<caller, routine, result, strOn, lines, dbLoaded>>
  /\ UNCHANGED <<fileVars, accumVars, compVars>>

\* The end of load_db and load_db_str: 0 errors make the database loaded.
Loaded ==
  /\ pc = "loaded"
  /\ istreams' = <<>> /\ sims' = 0 /\ includes' = 0
  /\ routine' = "none"
  /\ dbLoaded' = ~HasErrors
  /\ pc' = IF HasErrors THEN "restore" ELSE "testDatabase"
  /\ UNCHANGED <<caller, result, readingDb>>
  /\ UNCHANGED <<fileVars, textVars, accumVars, errorVars, compVars>>

\* test_db runs a SOLUTION of pure water through RunString.
TestDatabase ==
  /\ pc = "testDatabase"
  /\ readingDb' = TRUE
  /\ EnterRun("RunString")
  /\ UNCHANGED <<caller, result, dbLoaded>>
  /\ UNCHANGED <<fileVars, textVars, inputVars, errorVars, compVars>>

\* The end of LoadDatabase: the file switches get their values back.
Restore ==
  /\ pc = "restore"
  /\ on' = saved
  /\ saved' = [c \in Files |-> FALSE]
  /\ result' = IF HasErrors THEN "errors" ELSE "ok"
  /\ pc' = "idle"
  /\ UNCHANGED <<caller, routine, stream, clientOn>>
  /\ UNCHANGED <<textVars, accumVars, dbVars, inputVars, errorVars, compVars>>

--------------------------------------------------------------------------------
(* The specification *)

\* The constructor
Init ==
  /\ pc = "idle" /\ caller = "client" /\ routine = "none"
  /\ on = [c \in Files |-> FALSE] /\ saved = on /\ stream = on /\ clientOn = on
  /\ strOn = [c \in Channels |-> c \in Reports]
  /\ text = [c \in Channels |-> {}] /\ lines = text
  /\ accum = {} /\ clearAccum = FALSE
  /\ dbLoaded = FALSE /\ readingDb = FALSE
  /\ istreams = <<>> /\ sims = 0 /\ includes = 0
  /\ inputError = FALSE /\ ioError = FALSE /\ reported = FALSE
  /\ updateComponents = TRUE /\ componentsFresh = TRUE
  /\ result = "none"

ClientStep ==
  \/ \E c \in Files, value \in BOOLEAN : SetFileOn(c, value)
  \/ \E c \in Channels, value \in BOOLEAN : SetStringOn(c, value)
  \/ AccumulateLine
  \/ ClearAccumulatedLines
  \/ \E c \in Reports : AddReport(c)
  \/ ListComponents
  \/ \E r \in Runs : BeginRun(r)
  \/ \E l \in Loads : BeginLoad(l)

\* What the call in progress does next
CallStep ==
  \/ OpenOutputFiles \/ CheckDatabase \/ OpenInput \/ StartRun \/ NextSimulation
  \/ ReadBlock \/ PushInclude \/ IncludeMissing \/ PopStream \/ ReadDeadStream
  \/ EndOfInput \/ TidyModel \/ Calculate \/ WorkStops \/ WorkEscapes
  \/ Finish \/ CloseOutput
  \/ UnLoadDatabase \/ OpenDatabase \/ Loaded \/ TestDatabase \/ Restore

Next == ClientStep \/ CallStep

Spec == Init /\ [][Next]_vars

\* The thread that made the call runs it: a call in progress takes its steps.
FairSpec == Spec /\ WF_vars(CallStep)

--------------------------------------------------------------------------------
(* Properties *)

\* LoadDatabase turns the file switches off while it works (IPhreeqc.cpp:628-633)
\* and hands them back whatever happens in load_db and test_db: between calls a
\* switch has the value the client gave it.
SwitchesRestored == pc = "idle" => on = clientOn

\* The ASSERTs of error_msg, warning_msg, output_msg and log_msg tie each switch
\* to its stream: while messages may be issued a file is open exactly if its
\* switch is on.  So a load, test run included, never truncates a file the
\* client asked for, and between calls nothing is open.
StreamsFollowSwitches ==
  /\ pc \in RunPcs \ {"openOutput"} => stream = on
  /\ pc \in {"idle", "openOutput"} \cup LoadPcs => stream = [c \in Files |-> FALSE]
  /\ caller \in Loads /\ pc # "idle" => on = [c \in Files |-> FALSE]

\* LoadDatabase turns the files off for itself only, and no file is open that the
\* switches in force do not ask for.
FilesFollowClient == SwitchesRestored /\ StreamsFollowSwitches

\* do_run, load_db and load_db_str ASSERT that no input stream is left when they
\* push theirs; a stream left behind would be read by the next run.
InputStackClean ==
  /\ pc \in {"idle", "openDatabase", "startRun"} => istreams = <<>>
  /\ pc \in ReadPcs => \A i \in DOMAIN istreams : istreams[i] # "dead"

\* A run gets past check_database only with a database, and outside test_db it
\* never runs in database mode, in which read_input echoes nothing and DATABASE
\* may appear anywhere, although a failed load leaves that mode on.
RunsNeedDatabase ==
  pc \in RunPcs \ {"openOutput", "checkDatabase", "closeOutput"} /\ routine \in Runs
    => dbLoaded /\ (readingDb <=> caller \in Loads)

\* input_error is forgotten by every read_input, the one that meets the end of
\* the input included; still a call returns 0 exactly if it issued no error
\* message.
ResultTellsErrors ==
  pc = "idle" => /\ result = "ok" => ~reported
                 /\ result = "errors" => reported

\* When a run has returned, every buffer speaks of that run only: nothing of an
\* earlier run or load is left in the texts, the lines of the engine's text are
\* part of the text (all of it if the run succeeded), and the report lines are
\* those of the report, unless the client has changed the report since.
ReturnedText ==
  pc = "idle" /\ caller = "client" /\ result \in {"ok", "errors"} =>
    /\ \A c \in Channels : "earlier" \notin text[c] \cup lines[c]
    /\ \A c \in Buffers : lines[c] \subseteq text[c]
    /\ result = "ok" => \A c \in Buffers : lines[c] = text[c]
    /\ \A c \in Reports : text[c] \ {"client"} \in {{}, lines[c]}

\* The accumulated input is one batch: lines a RunAccumulated has already taken
\* are never run again together with lines accumulated after it.
BatchesNotMixed == accum # {"pending", "submitted"}

\* A call that has begun returns.
CallReturns == (pc # "idle") ~> (pc = "idle")

\* What the client sees of the calls: see SessionContract.
Contract == INSTANCE SessionContract WITH
  phase  <- IF pc = "idle" THEN "idle"
            ELSE IF caller = "client" THEN "running" ELSE "loading",
  usable <- dbLoaded,
  result <- result,
  shown  <- text

ContractSpec == Contract!Spec

================================================================================
