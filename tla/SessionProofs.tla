----------------------------- MODULE SessionProofs -----------------------------
(***************************************************************************)
(* Proofs about IPhreeqcSession, for every set of channels and every       *)
(* length of input.  What an error count says of a call holds whatever     *)
(* ends the call; what the end of a call restores holds as long as no      *)
(* exception but IPhreeqcStop leaves one (Escapes = FALSE).                *)
(* Whatever ends it, a call cannot go on for ever.                         *)
(***************************************************************************)
EXTENDS IPhreeqcSession, SequenceTheorems, FiniteSetTheorems, NaturalsInduction,
        WellFoundedInduction, TLAPS

Kinds == {"quiet", "output", "warning", "error"}

LEMMA KindsOfMessages == DOMAIN Reaches = Kinds
  BY DEF Reaches, Kinds

\* A message leaves the buffers and the error counts well typed.
LEMMA MessageTyped ==
  ASSUME TypeOK, NEW kind \in Kinds, Message(kind)
  PROVE  /\ text' \in [Channels -> SUBSET Ages]
         /\ inputError' \in BOOLEAN /\ ioError' \in BOOLEAN /\ reported' \in BOOLEAN
<1>1. text' \in [Channels -> SUBSET Ages]
  BY DEF TypeOK, Message, Says, Ages
<1>2. CASE kind = "error"
  BY <1>1, <1>2 DEF TypeOK, Message
<1>3. CASE kind # "error"
  BY <1>1, <1>3 DEF TypeOK, Message, errorVars
<1> QED
  BY <1>2, <1>3

--------------------------------------------------------------------------------
(* Types *)

LEMMA StacksTyped ==
  ASSUME istreams \in Seq({"main", "include", "dead"}), NEW s \in {"main", "include"}
  PROVE  /\ <<s>> \o istreams \in Seq({"main", "include", "dead"})
         /\ istreams # <<>> => Tail(istreams) \in Seq({"main", "include", "dead"})
<1> DEFINE S == {"main", "include", "dead"}
<1>1. <<s>> \in Seq(S)
  OBVIOUS
<1>2. <<s>> \o istreams \in Seq(S)
  BY <1>1, ConcatProperties
<1>3. istreams # <<>> => Tail(istreams) \in Seq(S)
  BY HeadTailProperties
<1> QED
  BY <1>2, <1>3

LEMMA InitTyped == Init => TypeOK
<1> SUFFICES ASSUME Init PROVE TypeOK
  OBVIOUS
<1>1. /\ on \in [Files -> BOOLEAN] /\ saved \in [Files -> BOOLEAN]
      /\ stream \in [Files -> BOOLEAN] /\ clientOn \in [Files -> BOOLEAN]
      /\ strOn \in [Channels -> BOOLEAN]
  BY DEF Init
<1>2. text \in [Channels -> SUBSET Ages] /\ lines \in [Channels -> SUBSET Ages]
  BY DEF Init
<1>3. /\ istreams \in Seq({"main", "include", "dead"})
      /\ sims \in 0..MaxSimulations /\ includes \in 0..MaxIncludes
  BY SessionAssumption DEF Init
<1> QED
  BY <1>1, <1>2, <1>3 DEF Init, TypeOK, Pcs, Results

LEMMA ClientStepTyped == TypeOK /\ ClientStep => TypeOK'
<1> SUFFICES ASSUME TypeOK, ClientStep PROVE TypeOK'
  OBVIOUS
<1> USE DEF callVars, fileVars, textVars, accumVars, dbVars, inputVars, errorVars, compVars
<1>1. ASSUME NEW c \in Files, NEW value \in BOOLEAN, SetFileOn(c, value) PROVE TypeOK'
  BY <1>1 DEF TypeOK, SetFileOn
<1>2. ASSUME NEW c \in Channels, NEW value \in BOOLEAN, SetStringOn(c, value) PROVE TypeOK'
  BY <1>2 DEF TypeOK, SetStringOn
<1>3. CASE AccumulateLine
  <2>1. accum' \in SUBSET {"pending", "submitted"}
    BY <1>3 DEF TypeOK, AccumulateLine
  <2>2. text' \in [Channels -> SUBSET Ages]
    BY <1>3 DEF TypeOK, AccumulateLine
  <2> QED
    BY <1>3, <2>1, <2>2, ZenonT(60) DEF TypeOK, AccumulateLine
<1>4. CASE ClearAccumulatedLines
  BY <1>4 DEF TypeOK, ClearAccumulatedLines
<1>5. ASSUME NEW c \in Reports, AddReport(c) PROVE TypeOK'
  BY <1>5 DEF TypeOK, AddReport, Channels, Ages
<1>6. CASE ListComponents
  BY <1>6 DEF TypeOK, ListComponents
<1>7. ASSUME NEW r \in Runs, BeginRun(r) PROVE TypeOK'
  BY <1>7 DEF TypeOK, BeginRun, EnterRun, Aged, Ages, Pcs, RunPcs, Runs, Results
<1>8. ASSUME NEW l \in Loads, BeginLoad(l) PROVE TypeOK'
  BY <1>8 DEF TypeOK, BeginLoad, Aged, Ages, Pcs, LoadPcs, Results
<1> QED
  BY <1>1, <1>2, <1>3, <1>4, <1>5, <1>6, <1>7, <1>8 DEF ClientStep

LEMMA CallStepTyped == TypeOK /\ CallStep => TypeOK'
<1> SUFFICES ASSUME TypeOK, CallStep PROVE TypeOK'
  OBVIOUS
<1> USE DEF callVars, fileVars, textVars, accumVars, dbVars, inputVars, errorVars, compVars
<1>a. AfterStop \in Pcs
  BY DEF AfterStop, Pcs, RunPcs, LoadPcs
<1>1. CASE OpenOutputFiles
  BY <1>1 DEF TypeOK, OpenOutputFiles, Pcs, RunPcs
<1>2. CASE CheckDatabase
  BY <1>2, ZenonT(60) DEF TypeOK, CheckDatabase, Says, Ages, Pcs, RunPcs
<1>3. CASE OpenInput
  <2>1. CASE Stop
    BY <1>3, <2>1, <1>a, MessageTyped DEF TypeOK, OpenInput, Stop, Kinds
  <2>2. CASE ~Stop
    BY <1>3, <2>2 DEF TypeOK, OpenInput, Pcs, RunPcs
  <2> QED
    BY <2>1, <2>2
<1>4. CASE StartRun
  BY <1>4, StacksTyped, SessionAssumption DEF TypeOK, StartRun, Pcs, RunPcs
<1>5. CASE NextSimulation
  BY <1>5, ZenonT(60) DEF TypeOK, NextSimulation, Says, Ages, Pcs, RunPcs, WorkPcs, ReadPcs
<1>6. CASE ReadBlock
  <2>1. PICK kind \in Kinds : Message(kind)
    BY <1>6, KindsOfMessages DEF ReadBlock
  <2>2. sims' \in 0..MaxSimulations
    BY <1>6, SessionAssumption DEF TypeOK, ReadBlock
  <2> QED
    BY <1>6, <2>1, <2>2, MessageTyped, ZenonT(60) DEF TypeOK, ReadBlock, Pcs, RunPcs, WorkPcs, ReadPcs
<1>7. CASE PushInclude
  BY <1>7, StacksTyped, SessionAssumption DEF TypeOK, PushInclude, Says, Ages
<1>8. CASE IncludeMissing
  BY <1>8, <1>a DEF TypeOK, IncludeMissing, Ages
<1>9. CASE PopStream
  BY <1>9, StacksTyped DEF TypeOK, PopStream, Readable
<1>10. CASE ReadDeadStream
  BY <1>10 DEF TypeOK, ReadDeadStream, Pcs
<1>11. CASE EndOfInput
  BY <1>11 DEF TypeOK, EndOfInput, Pcs, RunPcs, WorkPcs
<1>12. CASE TidyModel
  <2>1. PICK kind \in Kinds : Message(kind)
    BY <1>12 DEF TidyModel, Kinds
  <2> QED
    BY <1>12, <2>1, MessageTyped DEF TypeOK, TidyModel, Pcs, RunPcs, WorkPcs, LoadPcs
<1>13. CASE Calculate
  <2>1. PICK kind \in Kinds : Message(kind)
    BY <1>13, KindsOfMessages DEF Calculate
  <2> QED
    BY <1>13, <2>1, MessageTyped, ZenonT(60) DEF TypeOK, Calculate, Pcs, RunPcs
<1>14. CASE WorkStops
  BY <1>14, <1>a, MessageTyped DEF TypeOK, WorkStops, Stop, Kinds
<1>15. CASE WorkEscapes
  <2>1. istreams' \in Seq({"main", "include", "dead"})
    BY <1>15, SMTT(30) DEF TypeOK, WorkEscapes
  <2> QED
    BY <1>15, <2>1, MessageTyped DEF TypeOK, WorkEscapes, Kinds, Pcs, Results
<1>16. CASE Finish
  BY <1>16 DEF TypeOK, Finish, Pcs, RunPcs
<1>17. CASE CloseOutput
  <2>1. /\ stream' \in [Files -> BOOLEAN] /\ lines' \in [Channels -> SUBSET Ages]
        /\ sims' \in 0..MaxSimulations /\ includes' \in 0..MaxIncludes
        /\ istreams' \in Seq({"main", "include", "dead"})
    BY <1>17, SessionAssumption DEF TypeOK, CloseOutput, EndRun, UpdateErrors
  <2>2. /\ pc' \in Pcs /\ routine' = "none" /\ result' \in Results
        /\ clearAccum' \in BOOLEAN /\ readingDb' \in BOOLEAN
    BY <1>17 DEF TypeOK, CloseOutput, EndRun, UpdateErrors, Pcs, LoadPcs, Results
  <2> QED
    BY <1>17, <2>1, <2>2 DEF TypeOK, CloseOutput, EndRun, UpdateErrors
<1>18. CASE UnLoadDatabase
  BY <1>18 DEF TypeOK, UnLoadDatabase, Pcs, LoadPcs
<1>19. CASE OpenDatabase
  <2>1. PICK kind \in Kinds : Message(kind)
    BY <1>19 DEF OpenDatabase, Stop, Kinds
  <2>2. /\ sims' \in 0..MaxSimulations /\ includes' \in 0..MaxIncludes
        /\ readingDb' \in BOOLEAN
    <3>1. (sims' = 0 \/ sims' = sims) /\ (includes' = 0 \/ includes' = includes)
      BY <1>19 DEF OpenDatabase
    <3>2. readingDb' = TRUE \/ readingDb' = readingDb
      BY <1>19 DEF OpenDatabase
    <3>3. sims' \in 0..MaxSimulations /\ includes' \in 0..MaxIncludes
      BY <3>1, SessionAssumption DEF TypeOK
    <3>4. readingDb' \in BOOLEAN
      BY <3>2 DEF TypeOK
    <3> QED
      BY <3>3, <3>4
  <2>3. istreams' \in Seq({"main", "include", "dead"})
    BY <1>19, StacksTyped DEF TypeOK, OpenDatabase
  <2>4. pc' \in Pcs
    BY <1>19, <1>a DEF OpenDatabase, Stop, Pcs, RunPcs, WorkPcs, ReadPcs
  <2> QED
    BY <1>19, <2>1, <2>2, <2>3, <2>4, MessageTyped DEF TypeOK, OpenDatabase
<1>20. CASE Loaded
  BY <1>20, SessionAssumption DEF TypeOK, Loaded, HasErrors, Pcs, LoadPcs
<1>21. CASE TestDatabase
  BY <1>21 DEF TypeOK, TestDatabase, EnterRun, Runs, Pcs, RunPcs
<1>22. CASE Restore
  BY <1>22 DEF TypeOK, Restore, HasErrors, Pcs, Results
<1> QED
  BY <1>1, <1>2, <1>3, <1>4, <1>5, <1>6, <1>7, <1>8, <1>9, <1>10, <1>11, <1>12, <1>13,
     <1>14, <1>15, <1>16, <1>17, <1>18, <1>19, <1>20, <1>21, <1>22 DEF CallStep

LEMMA StutterTyped == TypeOK /\ UNCHANGED vars => TypeOK'
  BY DEF TypeOK, vars, callVars, fileVars, textVars, accumVars, dbVars, inputVars,
         errorVars, compVars

LEMMA StepTyped == TypeOK /\ [Next]_vars => TypeOK'
  BY ClientStepTyped, CallStepTyped, StutterTyped DEF Next

\* Every variable keeps its type, for every set of channels and every input.
THEOREM SessionTyped == Spec => []TypeOK
  BY InitTyped, StepTyped, PTL DEF Spec

--------------------------------------------------------------------------------
(* The results tell the errors *)

\* Steps before a call's error counts are reset, and those after.
BeforeReset == {"openOutput", "checkDatabase", "unload", "openDatabase", "testDatabase"}
AfterReset  == (RunPcs \ {"openOutput", "checkDatabase"})
                 \cup {"openDatabase", "loaded", "testDatabase", "restore"}

\* io_error_count never forgets what a call has reported, input_error does.
ErrorsCounted ==
  /\ inputError => ioError
  /\ pc \in BeforeReset => ~reported
  /\ pc \in AfterReset => (ioError <=> reported)
  /\ ResultTellsErrors

LEMMA MessageCounted ==
  ASSUME inputError => ioError, NEW kind, Message(kind)
  PROVE  /\ inputError' => ioError'
         /\ (ioError <=> reported) => (ioError' <=> reported')
         /\ kind = "error" => ioError' /\ reported'
         /\ kind # "error" => UNCHANGED errorVars
<1>1. CASE kind = "error"
  BY <1>1 DEF Message
<1>2. CASE kind # "error"
  BY <1>2 DEF Message, errorVars
<1> QED
  BY <1>1, <1>2

LEMMA StopCounted ==
  ASSUME inputError => ioError, Stop
  PROVE  /\ inputError' => ioError'
         /\ ioError' /\ reported'
         /\ pc' \in {"loaded", "closeOutput"}
  BY MessageCounted DEF Stop, AfterStop

LEMMA ClientStepCounts == TypeOK /\ ErrorsCounted /\ ClientStep => ErrorsCounted'
<1> SUFFICES ASSUME TypeOK, ErrorsCounted, ClientStep PROVE ErrorsCounted'
  OBVIOUS
<1> USE DEF callVars, errorVars, ErrorsCounted, ResultTellsErrors, BeforeReset, AfterReset,
            RunPcs, WorkPcs, ReadPcs
<1>1. CASE UNCHANGED <<callVars, errorVars>>
  BY <1>1
<1>2. ASSUME NEW r \in Runs, BeginRun(r) PROVE ErrorsCounted'
  BY <1>2 DEF BeginRun, EnterRun
<1>3. ASSUME NEW l \in Loads, BeginLoad(l) PROVE ErrorsCounted'
  BY <1>3 DEF BeginLoad
<1> QED
  BY <1>1, <1>2, <1>3 DEF ClientStep, SetFileOn, SetStringOn, AccumulateLine,
     ClearAccumulatedLines, AddReport, ListComponents

LEMMA CallStepCounts == TypeOK /\ ErrorsCounted /\ CallStep => ErrorsCounted'
<1> SUFFICES ASSUME TypeOK, ErrorsCounted, CallStep PROVE ErrorsCounted'
  OBVIOUS
<1> USE DEF callVars, errorVars, TypeOK, ErrorsCounted, ResultTellsErrors, BeforeReset,
            AfterReset, RunPcs, WorkPcs, ReadPcs
<1>1. CASE OpenOutputFiles
  BY <1>1 DEF OpenOutputFiles
<1>2. CASE CheckDatabase
  BY <1>2 DEF CheckDatabase
<1>3. CASE OpenInput
  <2>1. CASE Stop
    BY <1>3, <2>1, StopCounted DEF OpenInput
  <2>2. CASE ~Stop
    BY <1>3, <2>2 DEF OpenInput
  <2> QED
    BY <2>1, <2>2
<1>4. CASE StartRun
  BY <1>4 DEF StartRun
<1>5. CASE NextSimulation
  BY <1>5 DEF NextSimulation
<1>6. CASE ReadBlock
  BY <1>6, MessageCounted DEF ReadBlock
<1>7. CASE PushInclude
  BY <1>7 DEF PushInclude
<1>8. CASE IncludeMissing
  BY <1>8 DEF IncludeMissing, AfterStop
<1>9. CASE PopStream
  BY <1>9 DEF PopStream
<1>10. CASE ReadDeadStream
  BY <1>10 DEF ReadDeadStream
<1>11. CASE EndOfInput
  BY <1>11 DEF EndOfInput
<1>12. CASE TidyModel
  BY <1>12, MessageCounted DEF TidyModel
<1>13. CASE Calculate
  BY <1>13, MessageCounted DEF Calculate
<1>14. CASE WorkStops
  BY <1>14, StopCounted DEF WorkStops
<1>15. CASE WorkEscapes
  BY <1>15, MessageCounted DEF WorkEscapes
<1>16. CASE Finish
  BY <1>16 DEF Finish
<1>17. CASE CloseOutput
  BY <1>17 DEF CloseOutput, EndRun, UpdateErrors, HasErrors
<1>18. CASE UnLoadDatabase
  BY <1>18 DEF UnLoadDatabase
<1>19. CASE OpenDatabase
  <2>1. CASE Stop
    BY <1>19, <2>1, StopCounted DEF OpenDatabase
  <2>2. CASE ~Stop
    BY <1>19, <2>2, MessageCounted DEF OpenDatabase
  <2> QED
    BY <2>1, <2>2
<1>20. CASE Loaded
  BY <1>20 DEF Loaded, HasErrors
<1>21. CASE TestDatabase
  BY <1>21 DEF TestDatabase, EnterRun
<1>22. CASE Restore
  BY <1>22 DEF Restore, HasErrors
<1> QED
  BY <1>1, <1>2, <1>3, <1>4, <1>5, <1>6, <1>7, <1>8, <1>9, <1>10, <1>11, <1>12, <1>13,
     <1>14, <1>15, <1>16, <1>17, <1>18, <1>19, <1>20, <1>21, <1>22 DEF CallStep

\* A call returns 0 exactly if it has issued no error message, although every
\* read_input forgets input_error.
THEOREM ResultsTellErrors == Spec => []ResultTellsErrors
<1>1. Init => ErrorsCounted
  BY DEF Init, ErrorsCounted, ResultTellsErrors, BeforeReset, AfterReset, RunPcs, WorkPcs,
         ReadPcs
<1>2. TypeOK /\ ErrorsCounted /\ UNCHANGED vars => ErrorsCounted'
  BY DEF vars, callVars, errorVars, ErrorsCounted, ResultTellsErrors
<1>3. TypeOK /\ ErrorsCounted /\ [Next]_vars => ErrorsCounted'
  BY <1>2, ClientStepCounts, CallStepCounts DEF Next
<1>4. ErrorsCounted => ResultTellsErrors
  BY DEF ErrorsCounted
<1> QED
  BY <1>1, <1>3, <1>4, SessionTyped, PTL DEF Spec

--------------------------------------------------------------------------------
(* What a call that no other exception leaves restores *)

\* Who called, and which function runs at which step.
CallShape ==
  /\ pc \in LoadPcs => caller \in Loads
  /\ pc \in {"openDatabase", "loaded"} => routine = "ReadDatabase"
  /\ pc \in WorkPcs /\ routine = "ReadDatabase" => caller \in Loads
  /\ pc \in RunPcs \ (ReadPcs \cup {"tidy"}) => routine \in Runs
  /\ pc \in RunPcs => routine # "none"

SwitchesKept ==
  /\ caller = "client" \/ pc = "idle" => on = clientOn
  /\ caller \in Loads /\ pc # "idle" => saved = clientOn
  /\ StreamsFollowSwitches

NoStreamLeft ==
  /\ istreams \in Seq({"main", "include"})
  /\ pc \notin {"nextSimulation", "finish", "closeOutput", "loaded"} \cup WorkPcs
       => istreams = <<>>

\* Is the object in database mode exactly while test_db runs?
ModeMatches == readingDb <=> caller \in Loads

DatabaseKnown ==
  /\ RunsNeedDatabase
  /\ pc \in {"openOutput", "checkDatabase"} /\ dbLoaded => ModeMatches
  /\ pc \in {"idle", "testDatabase", "restore"} /\ dbLoaded => ~readingDb
  /\ pc = "closeOutput" /\ dbLoaded /\ caller = "client" => ~readingDb
  /\ pc = "loaded" /\ ~HasErrors => ~readingDb
  /\ pc \in {"closeOutput", "restore"} /\ ~HasErrors => dbLoaded

LEMMA ClientStepShape == TypeOK /\ CallShape /\ ClientStep => CallShape'
<1> SUFFICES ASSUME TypeOK, CallShape, ClientStep PROVE CallShape'
  OBVIOUS
<1> USE DEF callVars, CallShape, LoadPcs, RunPcs, WorkPcs, ReadPcs, Runs, Loads
<1>1. CASE UNCHANGED callVars
  BY <1>1
<1>2. ASSUME NEW r \in Runs, BeginRun(r) PROVE CallShape'
  BY <1>2 DEF BeginRun, EnterRun
<1>3. ASSUME NEW l \in Loads, BeginLoad(l) PROVE CallShape'
  BY <1>3 DEF BeginLoad
<1> QED
  BY <1>1, <1>2, <1>3 DEF ClientStep, SetFileOn, SetStringOn, AccumulateLine,
     ClearAccumulatedLines, AddReport, ListComponents

LEMMA CallStepShape == TypeOK /\ CallShape /\ CallStep => CallShape'
<1> SUFFICES ASSUME TypeOK, CallShape, CallStep PROVE CallShape'
  OBVIOUS
<1> USE DEF callVars, CallShape, LoadPcs, RunPcs, WorkPcs, ReadPcs, Runs, Loads
<1>1. CASE OpenOutputFiles
  BY <1>1 DEF OpenOutputFiles
<1>2. CASE CheckDatabase
  BY <1>2 DEF CheckDatabase
<1>3. CASE OpenInput
  BY <1>3 DEF OpenInput, Stop, AfterStop
<1>4. CASE StartRun
  BY <1>4 DEF StartRun
<1>5. CASE NextSimulation
  BY <1>5 DEF NextSimulation
<1>6. CASE ReadBlock
  BY <1>6 DEF ReadBlock
<1>7. CASE PushInclude
  BY <1>7 DEF PushInclude
<1>8. CASE IncludeMissing
  BY <1>8 DEF TypeOK, IncludeMissing, AfterStop
<1>9. CASE PopStream
  BY <1>9 DEF PopStream
<1>10. CASE ReadDeadStream
  BY <1>10 DEF ReadDeadStream
<1>11. CASE EndOfInput
  BY <1>11 DEF TypeOK, EndOfInput
<1>12. CASE TidyModel
  BY <1>12 DEF TypeOK, TidyModel
<1>13. CASE Calculate
  BY <1>13 DEF Calculate
<1>14. CASE WorkStops
  BY <1>14 DEF TypeOK, WorkStops, Stop, AfterStop
<1>15. CASE WorkEscapes
  BY <1>15 DEF WorkEscapes
<1>16. CASE Finish
  BY <1>16 DEF Finish
<1>17. CASE CloseOutput
  BY <1>17 DEF TypeOK, CloseOutput, EndRun, UpdateErrors
<1>18. CASE UnLoadDatabase
  BY <1>18 DEF UnLoadDatabase
<1>19. CASE OpenDatabase
  BY <1>19 DEF OpenDatabase, Stop, AfterStop
<1>20. CASE Loaded
  BY <1>20 DEF Loaded
<1>21. CASE TestDatabase
  BY <1>21 DEF TestDatabase, EnterRun
<1>22. CASE Restore
  BY <1>22 DEF Restore
<1> QED
  BY <1>1, <1>2, <1>3, <1>4, <1>5, <1>6, <1>7, <1>8, <1>9, <1>10, <1>11, <1>12, <1>13,
     <1>14, <1>15, <1>16, <1>17, <1>18, <1>19, <1>20, <1>21, <1>22 DEF CallStep

LEMMA ClientStepKeepsSwitches ==
  TypeOK /\ CallShape /\ SwitchesKept /\ ClientStep => SwitchesKept'
<1> SUFFICES ASSUME TypeOK, CallShape, SwitchesKept, ClientStep PROVE SwitchesKept'
  OBVIOUS
<1> USE DEF callVars, fileVars, SwitchesKept, StreamsFollowSwitches, RunPcs, LoadPcs,
            WorkPcs, ReadPcs, Loads
<1>1. CASE UNCHANGED <<callVars, fileVars>>
  BY <1>1
<1>2. ASSUME NEW c \in Files, NEW value \in BOOLEAN, SetFileOn(c, value)
      PROVE SwitchesKept'
  BY <1>2 DEF SetFileOn
<1>3. ASSUME NEW r \in Runs, BeginRun(r) PROVE SwitchesKept'
  BY <1>3 DEF BeginRun, EnterRun
<1>4. ASSUME NEW l \in Loads, BeginLoad(l) PROVE SwitchesKept'
  BY <1>4 DEF BeginLoad
<1> QED
  BY <1>1, <1>2, <1>3, <1>4 DEF ClientStep, SetStringOn, AccumulateLine,
     ClearAccumulatedLines, AddReport, ListComponents

LEMMA CallStepKeepsSwitches ==
  ASSUME Escapes = FALSE
  PROVE  TypeOK /\ CallShape /\ SwitchesKept /\ CallStep => SwitchesKept'
<1> SUFFICES ASSUME TypeOK, CallShape, SwitchesKept, CallStep PROVE SwitchesKept'
  OBVIOUS
<1> USE DEF callVars, fileVars, CallShape, SwitchesKept, StreamsFollowSwitches, RunPcs,
            LoadPcs, WorkPcs, ReadPcs, Runs, Loads
<1>1. CASE OpenOutputFiles
  <2>1. stream' = on
    BY <1>1 DEF OpenOutputFiles, TypeOK
  <2> QED
    BY <1>1, <2>1 DEF OpenOutputFiles
<1>2. CASE CheckDatabase
  BY <1>2 DEF CheckDatabase
<1>3. CASE OpenInput
  BY <1>3 DEF OpenInput, Stop, AfterStop
<1>4. CASE StartRun
  BY <1>4 DEF StartRun
<1>5. CASE NextSimulation
  BY <1>5 DEF NextSimulation
<1>6. CASE ReadBlock
  BY <1>6 DEF ReadBlock
<1>7. CASE PushInclude
  BY <1>7 DEF PushInclude
<1>8. CASE IncludeMissing
  BY <1>8 DEF IncludeMissing, AfterStop
<1>9. CASE PopStream
  BY <1>9 DEF PopStream
<1>10. CASE ReadDeadStream
  BY <1>10 DEF ReadDeadStream
<1>11. CASE EndOfInput
  BY <1>11 DEF EndOfInput
<1>12. CASE TidyModel
  BY <1>12 DEF TidyModel
<1>13. CASE Calculate
  BY <1>13 DEF Calculate
<1>14. CASE WorkStops
  BY <1>14 DEF WorkStops, Stop, AfterStop
<1>15. CASE WorkEscapes
  BY <1>15 DEF WorkEscapes
<1>16. CASE Finish
  BY <1>16 DEF Finish
<1>17. CASE CloseOutput
  BY <1>17 DEF CloseOutput, EndRun, UpdateErrors
<1>18. CASE UnLoadDatabase
  BY <1>18 DEF UnLoadDatabase
<1>19. CASE OpenDatabase
  BY <1>19 DEF OpenDatabase, Stop, AfterStop
<1>20. CASE Loaded
  BY <1>20 DEF Loaded
<1>21. CASE TestDatabase
  BY <1>21 DEF TestDatabase, EnterRun
<1>22. CASE Restore
  BY <1>22 DEF Restore
<1> QED
  BY <1>1, <1>2, <1>3, <1>4, <1>5, <1>6, <1>7, <1>8, <1>9, <1>10, <1>11, <1>12, <1>13,
     <1>14, <1>15, <1>16, <1>17, <1>18, <1>19, <1>20, <1>21, <1>22 DEF CallStep

LEMMA StacksClean ==
  ASSUME istreams \in Seq({"main", "include"}), NEW s \in {"main", "include"}
  PROVE  /\ <<s>> \o istreams \in Seq({"main", "include"})
         /\ istreams # <<>> => Tail(istreams) \in Seq({"main", "include"})
<1> DEFINE S == {"main", "include"}
<1>1. <<s>> \in Seq(S)
  OBVIOUS
<1>2. <<s>> \o istreams \in Seq(S)
  BY <1>1, ConcatProperties
<1>3. istreams # <<>> => Tail(istreams) \in Seq(S)
  BY HeadTailProperties
<1> QED
  BY <1>2, <1>3

LEMMA ClientStepLeavesNoStream == NoStreamLeft /\ ClientStep => NoStreamLeft'
<1> SUFFICES ASSUME NoStreamLeft, ClientStep PROVE NoStreamLeft'
  OBVIOUS
<1> USE DEF callVars, inputVars, NoStreamLeft, WorkPcs, ReadPcs
<1>1. CASE UNCHANGED <<callVars, inputVars>>
  BY <1>1
<1>2. ASSUME NEW r \in Runs, BeginRun(r) PROVE NoStreamLeft'
  BY <1>2 DEF BeginRun, EnterRun
<1>3. ASSUME NEW l \in Loads, BeginLoad(l) PROVE NoStreamLeft'
  BY <1>3 DEF BeginLoad
<1> QED
  BY <1>1, <1>2, <1>3 DEF ClientStep, SetFileOn, SetStringOn, AccumulateLine,
     ClearAccumulatedLines, AddReport, ListComponents

LEMMA CallStepLeavesNoStream ==
  ASSUME Escapes = FALSE
  PROVE  NoStreamLeft /\ CallStep => NoStreamLeft'
<1> SUFFICES ASSUME NoStreamLeft, CallStep PROVE NoStreamLeft'
  OBVIOUS
<1> USE DEF callVars, inputVars, NoStreamLeft, WorkPcs, ReadPcs
<1>1. CASE OpenOutputFiles
  BY <1>1 DEF OpenOutputFiles
<1>2. CASE CheckDatabase
  BY <1>2 DEF CheckDatabase
<1>3. CASE OpenInput
  BY <1>3 DEF OpenInput, Stop, AfterStop
<1>4. CASE StartRun
  BY <1>4, StacksClean DEF StartRun
<1>5. CASE NextSimulation
  BY <1>5 DEF NextSimulation
<1>6. CASE ReadBlock
  BY <1>6 DEF ReadBlock
<1>7. CASE PushInclude
  BY <1>7, StacksClean DEF PushInclude
<1>8. CASE IncludeMissing
  BY <1>8 DEF IncludeMissing, AfterStop
<1>9. CASE PopStream
  BY <1>9, StacksClean DEF PopStream, Readable
<1>10. CASE ReadDeadStream
  BY <1>10 DEF ReadDeadStream
<1>11. CASE EndOfInput
  BY <1>11 DEF EndOfInput
<1>12. CASE TidyModel
  BY <1>12 DEF TidyModel
<1>13. CASE Calculate
  BY <1>13 DEF Calculate
<1>14. CASE WorkStops
  BY <1>14 DEF WorkStops, Stop, AfterStop
<1>15. CASE WorkEscapes
  BY <1>15 DEF WorkEscapes
<1>16. CASE Finish
  BY <1>16 DEF Finish
<1>17. CASE CloseOutput
  BY <1>17 DEF CloseOutput, EndRun, UpdateErrors
<1>18. CASE UnLoadDatabase
  BY <1>18 DEF UnLoadDatabase
<1>19. CASE OpenDatabase
  BY <1>19, StacksClean DEF OpenDatabase, Stop, AfterStop
<1>20. CASE Loaded
  BY <1>20 DEF Loaded
<1>21. CASE TestDatabase
  BY <1>21 DEF TestDatabase, EnterRun
<1>22. CASE Restore
  BY <1>22 DEF Restore
<1> QED
  BY <1>1, <1>2, <1>3, <1>4, <1>5, <1>6, <1>7, <1>8, <1>9, <1>10, <1>11, <1>12, <1>13,
     <1>14, <1>15, <1>16, <1>17, <1>18, <1>19, <1>20, <1>21, <1>22 DEF CallStep

LEMMA ClientStepKeepsMode ==
  TypeOK /\ CallShape /\ DatabaseKnown /\ ClientStep => DatabaseKnown'
<1> SUFFICES ASSUME TypeOK, CallShape, DatabaseKnown, ClientStep PROVE DatabaseKnown'
  OBVIOUS
<1> USE DEF TypeOK, callVars, dbVars, errorVars, DatabaseKnown, RunsNeedDatabase,
            ModeMatches, HasErrors, RunPcs, WorkPcs, ReadPcs, Loads
<1>1. CASE UNCHANGED <<callVars, dbVars, errorVars>>
  BY <1>1
<1>2. ASSUME NEW r \in Runs, BeginRun(r) PROVE DatabaseKnown'
  BY <1>2 DEF BeginRun, EnterRun
<1>3. ASSUME NEW l \in Loads, BeginLoad(l) PROVE DatabaseKnown'
  BY <1>3 DEF BeginLoad
<1> QED
  BY <1>1, <1>2, <1>3 DEF ClientStep, SetFileOn, SetStringOn, AccumulateLine,
     ClearAccumulatedLines, AddReport, ListComponents

LEMMA CallStepKeepsMode ==
  ASSUME Escapes = FALSE
  PROVE  TypeOK /\ CallShape /\ ErrorsCounted /\ DatabaseKnown /\ CallStep
           => DatabaseKnown'
<1> SUFFICES ASSUME TypeOK, CallShape, ErrorsCounted, DatabaseKnown, CallStep
             PROVE  DatabaseKnown'
  OBVIOUS
<1>a. inputError => ioError
  BY DEF ErrorsCounted
<1> USE <1>a DEF callVars, dbVars, errorVars, CallShape, DatabaseKnown, RunsNeedDatabase,
            ModeMatches, HasErrors, RunPcs, LoadPcs, WorkPcs, ReadPcs, Runs, Loads
<1>1. CASE OpenOutputFiles
  BY <1>1 DEF OpenOutputFiles
<1>2. CASE CheckDatabase
  BY <1>2 DEF CheckDatabase
<1>3. CASE OpenInput
  BY <1>3, StopCounted DEF OpenInput, Stop, AfterStop
<1>4. CASE StartRun
  BY <1>4 DEF StartRun
<1>5. CASE NextSimulation
  BY <1>5 DEF NextSimulation
<1>6. CASE ReadBlock
  BY <1>6 DEF ReadBlock
<1>7. CASE PushInclude
  BY <1>7 DEF PushInclude
<1>8. CASE IncludeMissing
  BY <1>8 DEF TypeOK, IncludeMissing, AfterStop
<1>9. CASE PopStream
  BY <1>9 DEF PopStream
<1>10. CASE ReadDeadStream
  BY <1>10 DEF ReadDeadStream
<1>11. CASE EndOfInput
  BY <1>11 DEF EndOfInput
<1>12. CASE TidyModel
  BY <1>12 DEF TidyModel
<1>13. CASE Calculate
  BY <1>13 DEF Calculate
<1>14. CASE WorkStops
  BY <1>14, StopCounted DEF TypeOK, WorkStops, Stop, AfterStop
<1>15. CASE WorkEscapes
  BY <1>15 DEF WorkEscapes
<1>16. CASE Finish
  BY <1>16 DEF Finish
<1>17. CASE CloseOutput
  BY <1>17 DEF CloseOutput, EndRun, UpdateErrors
<1>18. CASE UnLoadDatabase
  BY <1>18 DEF UnLoadDatabase
<1>19. CASE OpenDatabase
  BY <1>19, StopCounted DEF OpenDatabase, Stop, AfterStop
<1>20. CASE Loaded
  BY <1>20 DEF Loaded
<1>21. CASE TestDatabase
  BY <1>21 DEF TestDatabase, EnterRun
<1>22. CASE Restore
  BY <1>22 DEF Restore
<1> QED
  BY <1>1, <1>2, <1>3, <1>4, <1>5, <1>6, <1>7, <1>8, <1>9, <1>10, <1>11, <1>12, <1>13,
     <1>14, <1>15, <1>16, <1>17, <1>18, <1>19, <1>20, <1>21, <1>22 DEF CallStep

--------------------------------------------------------------------------------
(* The accumulated input *)

\* Lines a RunAccumulated has taken are dropped by the next AccumulateLine, or
\* that run is still in progress.
BatchClosed ==
  /\ BatchesNotMixed
  /\ accum \subseteq {"pending", "submitted"}
  /\ "submitted" \in accum => clearAccum \/ routine = "RunAccumulated"
  /\ pc \in {"idle", "restore"} => routine = "none"

LEMMA ClientStepClosesBatch == BatchClosed /\ ClientStep => BatchClosed'
<1> SUFFICES ASSUME BatchClosed, ClientStep PROVE BatchClosed'
  OBVIOUS
<1> USE DEF callVars, accumVars, BatchClosed, BatchesNotMixed
<1>1. CASE UNCHANGED <<callVars, accumVars>>
  BY <1>1
<1>2. CASE AccumulateLine
  <2>1. accum' \subseteq {"pending"}
    BY <1>2 DEF AccumulateLine
  <2>2. UNCHANGED <<pc, routine>>
    BY <1>2 DEF AccumulateLine
  <2> QED
    BY <2>1, <2>2
<1>3. CASE ClearAccumulatedLines
  BY <1>3 DEF ClearAccumulatedLines
<1>4. ASSUME NEW r \in Runs, BeginRun(r) PROVE BatchClosed'
  BY <1>4 DEF BeginRun, EnterRun
<1>5. ASSUME NEW l \in Loads, BeginLoad(l) PROVE BatchClosed'
  BY <1>5 DEF BeginLoad
<1> QED
  BY <1>1, <1>2, <1>3, <1>4, <1>5 DEF ClientStep, SetFileOn, SetStringOn, AddReport,
     ListComponents

\* Only four steps of a call say anything about the batch or the routine.
LEMMA CallStepClosesBatch ==
  ASSUME Escapes = FALSE
  PROVE  CallShape /\ BatchClosed /\ CallStep => BatchClosed'
<1> SUFFICES ASSUME CallShape, BatchClosed, CallStep PROVE BatchClosed'
  OBVIOUS
<1> USE DEF callVars, accumVars, BatchClosed, BatchesNotMixed
<1>1. CASE UNCHANGED <<accumVars, routine>> /\ pc' \notin {"idle", "restore"}
  BY <1>1
<1>2. CASE CloseOutput
  BY <1>2 DEF CloseOutput, EndRun
<1>3. CASE UnLoadDatabase
  BY <1>3 DEF UnLoadDatabase
<1>4. CASE Loaded
  BY <1>4 DEF Loaded, CallShape
<1>5. CASE TestDatabase
  BY <1>5 DEF TestDatabase, EnterRun
<1>6. CASE Restore
  BY <1>6 DEF Restore
<1>7. CASE OpenOutputFiles \/ CheckDatabase \/ OpenInput \/ StartRun \/ NextSimulation
  BY <1>1, <1>7 DEF OpenOutputFiles, CheckDatabase, OpenInput, Stop, AfterStop, StartRun,
     NextSimulation
<1>8. CASE ReadBlock \/ PushInclude \/ IncludeMissing \/ PopStream \/ ReadDeadStream
  BY <1>1, <1>8 DEF ReadBlock, PushInclude, IncludeMissing, AfterStop, PopStream,
     ReadDeadStream, ReadPcs
<1>9. CASE EndOfInput \/ TidyModel \/ Calculate \/ WorkStops
  BY <1>1, <1>9 DEF EndOfInput, TidyModel, Calculate, WorkStops, Stop, AfterStop
<1>10. CASE WorkEscapes \/ Finish \/ OpenDatabase
  BY <1>1, <1>10 DEF WorkEscapes, Finish, OpenDatabase, Stop, AfterStop
<1> QED
  BY <1>2, <1>3, <1>4, <1>5, <1>6, <1>7, <1>8, <1>9, <1>10 DEF CallStep

--------------------------------------------------------------------------------
(* The text a run returns with *)

\* The steps of a run that check_database has let through or turned away.
InRun == RunPcs \ {"openOutput", "checkDatabase"}

\* What the buffers hold in a run of the client's, and once it has returned.
TextOfRun ==
  /\ caller = "client" /\ pc \in InRun =>
       /\ \A c \in Channels : text[c] \subseteq {"this"}
       /\ \A c \in Buffers : ~strOn[c] => text[c] = {}
       /\ pc # "closeOutput" => \A c \in Buffers : lines[c] = {}
       /\ pc = "closeOutput" => \A c \in Buffers : lines[c] \subseteq text[c]
       /\ pc = "closeOutput" /\ ~HasErrors => \A c \in Buffers : lines[c] = text[c]
  /\ caller = "client" /\ pc = "idle" /\ result \in {"ok", "errors"} =>
       /\ \A c \in Channels : text[c] \subseteq {"this", "client"}
       /\ \A c \in Channels : lines[c] \subseteq {"this"}
       /\ ReturnedText

\* The buffers of a run in progress: of this run, and empty where switched off.
OfThisRun(texts) ==
  /\ \A c \in Channels : texts[c] \subseteq {"this"}
  /\ \A c \in Buffers : ~strOn[c] => texts[c] = {}

LEMMA BuffersAreNoReports == Buffers \cap Reports = {} /\ Channels = Buffers \cup Reports
  BY SessionAssumption DEF Channels

\* A message of the engine reaches a buffer only where it is switched on.
LEMMA SaysOfThisRun ==
  ASSUME NEW texts, OfThisRun(texts), NEW kind
  PROVE  OfThisRun(Says(kind, texts))
BY BuffersAreNoReports DEF OfThisRun, Says

LEMMA MessageOfThisRun ==
  ASSUME OfThisRun(text), NEW kind, Message(kind), UNCHANGED strOn
  PROVE  OfThisRun(text)'
<1>1. OfThisRun(Says(kind, text))
  BY SaysOfThisRun
<1> QED
  BY <1>1 DEF Message, OfThisRun

LEMMA ClientStepKeepsText == TypeOK /\ TextOfRun /\ ClientStep => TextOfRun'
<1> SUFFICES ASSUME TypeOK, TextOfRun, ClientStep PROVE TextOfRun'
  OBVIOUS
<1> USE DEF callVars, textVars
<1>1. CASE UNCHANGED <<callVars, text, lines>> /\ pc = "idle"
  BY <1>1 DEF TextOfRun, ReturnedText, InRun, RunPcs, WorkPcs, ReadPcs
<1>2. CASE AccumulateLine
  <2>1. /\ UNCHANGED <<callVars, lines>> /\ pc = "idle"
        /\ \A c \in Reports : text'[c] = {}
        /\ \A c \in Buffers : text'[c] = text[c]
    BY <1>2, BuffersAreNoReports DEF AccumulateLine
  <2> QED
    BY <2>1, BuffersAreNoReports DEF TextOfRun, ReturnedText, InRun, RunPcs, WorkPcs, ReadPcs
<1>3. ASSUME NEW r \in Reports, AddReport(r) PROVE TextOfRun'
  <2>1. /\ UNCHANGED <<callVars, lines>> /\ pc = "idle"
        /\ \A c \in Reports : text'[c] \in {text[c], text[c] \cup {"client"}}
        /\ \A c \in Buffers : text'[c] = text[c]
    BY <1>3, BuffersAreNoReports DEF AddReport, TypeOK
  <2>2. \A c \in Reports : text'[c] \ {"client"} = text[c] \ {"client"}
    BY <2>1
  <2>3. \A c \in Channels : text'[c] \subseteq text[c] \cup {"client"}
    BY <2>1, BuffersAreNoReports
  <2> QED
    BY <2>1, <2>2, <2>3, BuffersAreNoReports
       DEF TextOfRun, ReturnedText, InRun, RunPcs, WorkPcs, ReadPcs
<1>4. ASSUME NEW r \in Runs, BeginRun(r) PROVE TextOfRun'
  BY <1>4 DEF BeginRun, EnterRun, TextOfRun, InRun
<1>5. ASSUME NEW l \in Loads, BeginLoad(l) PROVE TextOfRun'
  BY <1>5 DEF BeginLoad, TextOfRun, Loads
<1> QED
  BY <1>1, <1>2, <1>3, <1>4, <1>5 DEF ClientStep, SetFileOn, SetStringOn,
     ClearAccumulatedLines, ListComponents

\* A run of the client's that goes on within InRun \ {"closeOutput"}.
LEMMA RunningText ==
  ASSUME caller' = "client", pc' \notin {"closeOutput", "idle"}, OfThisRun(text)',
         \A c \in Buffers : lines'[c] = {}
  PROVE  TextOfRun'
BY DEF TextOfRun, OfThisRun

\* It stops with an error on its way there.
LEMMA StoppedText ==
  ASSUME caller' = "client", pc' = "closeOutput", OfThisRun(text)', HasErrors',
         \A c \in Buffers : lines'[c] = {}
  PROVE  TextOfRun'
BY DEF TextOfRun, OfThisRun

LEMMA RunStepKeepsText ==
  ASSUME TypeOK, ErrorsCounted, TextOfRun, CallStep,
         caller = "client", pc \in InRun \ {"closeOutput"}, routine \in Runs
  PROVE  TextOfRun'
<1>a. OfThisRun(text) /\ \A c \in Buffers : lines[c] = {}
  BY DEF TextOfRun, OfThisRun
<1>b. AfterStop = "closeOutput"
  BY DEF AfterStop, Runs
<1>c. inputError => ioError
  BY DEF ErrorsCounted
<1>1. ASSUME UNCHANGED <<caller, strOn, lines, text>>, pc' \notin {"closeOutput", "idle"}
      PROVE  TextOfRun'
  BY <1>1, <1>a, RunningText DEF OfThisRun
<1>2. ASSUME UNCHANGED <<caller, strOn, lines>>, pc' \notin {"closeOutput", "idle"},
             NEW kind, text' = Says(kind, text)
      PROVE  TextOfRun'
  <2>1. OfThisRun(text)'
    BY <1>a, <1>2, SaysOfThisRun DEF OfThisRun
  <2> QED
    BY <1>2, <1>a, <2>1, RunningText
<1>3. ASSUME UNCHANGED <<caller, strOn, lines>>, Stop PROVE TextOfRun'
  <2>1. OfThisRun(text)'
    BY <1>a, <1>3, MessageOfThisRun DEF Stop
  <2>2. HasErrors'
    BY <1>c, <1>3, StopCounted DEF HasErrors
  <2> QED
    BY <1>3, <1>a, <1>b, <2>1, <2>2, StoppedText DEF Stop
<1> USE DEF callVars, textVars
<1>4. CASE OpenInput
  BY <1>1, <1>3, <1>4 DEF OpenInput
<1>5. CASE StartRun
  BY <1>1, <1>5 DEF StartRun
<1>6. CASE NextSimulation
  BY <1>2, <1>6 DEF NextSimulation
<1>7. CASE ReadBlock
  BY <1>2, <1>7 DEF ReadBlock, Message
<1>8. CASE PushInclude
  BY <1>2, <1>8 DEF PushInclude, ReadPcs
<1>9. CASE IncludeMissing
  <2>1. OfThisRun(text)'
    BY <1>a, <1>9, BuffersAreNoReports DEF IncludeMissing, OfThisRun
  <2> QED
    BY <1>9, <1>a, <1>b, <2>1, StoppedText DEF IncludeMissing, HasErrors
<1>10. CASE PopStream
  BY <1>1, <1>10 DEF PopStream, ReadPcs
<1>11. CASE ReadDeadStream
  BY <1>1, <1>11 DEF ReadDeadStream
<1>12. CASE EndOfInput
  BY <1>1, <1>12 DEF EndOfInput
<1>13. CASE TidyModel
  BY <1>2, <1>13 DEF TidyModel, Message, Runs
<1>14. CASE Calculate
  BY <1>2, <1>14 DEF Calculate, Message
<1>15. CASE WorkStops
  BY <1>3, <1>15 DEF WorkStops
<1>16. CASE WorkEscapes
  BY <1>16 DEF WorkEscapes, TextOfRun, InRun, RunPcs, WorkPcs, ReadPcs
<1>17. CASE Finish
  <2>1. /\ UNCHANGED <<caller, strOn, text>> /\ pc' = "closeOutput"
        /\ \A c \in Buffers : lines'[c] = IF strOn[c] THEN lines[c] \cup text[c] ELSE lines[c]
    BY <1>17, BuffersAreNoReports DEF Finish
  <2>2. \A c \in Buffers : lines'[c] = text'[c]
    BY <1>a, <2>1 DEF OfThisRun
  <2> QED
    BY <1>a, <2>1, <2>2 DEF TextOfRun, OfThisRun
<1> QED
  BY <1>4, <1>5, <1>6, <1>7, <1>8, <1>9, <1>10, <1>11, <1>12, <1>13, <1>14, <1>15, <1>16,
     <1>17 DEF CallStep, OpenOutputFiles, CheckDatabase, CloseOutput, EndRun, UnLoadDatabase,
     OpenDatabase, Loaded, TestDatabase, Restore, InRun, RunPcs, WorkPcs, ReadPcs

LEMMA CallStepKeepsText ==
  TypeOK /\ ErrorsCounted /\ CallShape /\ TextOfRun /\ CallStep => TextOfRun'
<1> SUFFICES ASSUME TypeOK, ErrorsCounted, CallShape, TextOfRun, CallStep, caller' = "client"
             PROVE  TextOfRun'
  BY DEF TextOfRun
<1>a. caller = "client"
  BY DEF CallStep, OpenOutputFiles, CheckDatabase, OpenInput, StartRun, NextSimulation,
     ReadBlock, PushInclude, IncludeMissing, PopStream, ReadDeadStream, EndOfInput, TidyModel,
     Calculate, WorkStops, WorkEscapes, Finish, CloseOutput, EndRun, UnLoadDatabase,
     OpenDatabase, Loaded, TestDatabase, Restore, callVars
<1>b. pc \notin LoadPcs /\ (pc \in InRun => routine \in Runs)
  BY <1>a DEF CallShape, InRun, RunPcs, WorkPcs, ReadPcs, Loads, TypeOK
<1>1. CASE pc \in InRun \ {"closeOutput"}
  BY <1>1, <1>a, <1>b, RunStepKeepsText
<1>2. CASE OpenOutputFiles
  BY <1>2 DEF OpenOutputFiles, TextOfRun, InRun
<1>3. CASE CheckDatabase
  <2>1. DEFINE released == [c \in Channels |-> {}]
  <2>2. OfThisRun(released) /\ OfThisRun(Says("error", released))
    <3>1. OfThisRun(released)
      BY BuffersAreNoReports DEF OfThisRun
    <3> QED
      BY <3>1, SaysOfThisRun
  <2>3. /\ OfThisRun(text)' /\ UNCHANGED <<caller, strOn>>
        /\ \A c \in Buffers : lines'[c] = {}
    <3>1. UNCHANGED <<caller, strOn>> /\ text' \in {released, Says("error", released)}
      BY <1>3 DEF CheckDatabase
    <3>2. \A c \in Buffers : lines'[c] = {}
      BY <1>3, BuffersAreNoReports DEF CheckDatabase
    <3> QED
      BY <2>2, <3>1, <3>2 DEF OfThisRun
  <2>4. CASE dbLoaded
    BY <1>a, <1>3, <2>3, <2>4, RunningText DEF CheckDatabase
  <2>5. CASE ~dbLoaded
    BY <1>a, <1>3, <2>3, <2>5, StoppedText DEF CheckDatabase, HasErrors
  <2> QED
    BY <2>4, <2>5
<1>4. CASE CloseOutput
  <2>1. pc = "closeOutput" /\ pc' = "idle" /\ UNCHANGED <<caller, text>>
    BY <1>a, <1>4 DEF CloseOutput, EndRun
  <2>2. result' = IF HasErrors THEN "errors" ELSE "ok"
    BY <1>a, <1>4 DEF CloseOutput, EndRun
  <2>3. /\ \A c \in Reports : lines'[c] = text[c]
        /\ \A c \in Buffers : lines'[c] = lines[c]
    BY <1>4, BuffersAreNoReports DEF CloseOutput, UpdateErrors
  <2>4. /\ \A c \in Channels : text[c] \subseteq {"this"}
        /\ \A c \in Buffers : lines[c] \subseteq text[c]
        /\ ~HasErrors => \A c \in Buffers : lines[c] = text[c]
    BY <1>a, <2>1 DEF TextOfRun, InRun, RunPcs
  <2>5. /\ \A c \in Channels : text'[c] \subseteq {"this", "client"}
        /\ \A c \in Channels : lines'[c] \subseteq {"this"}
    BY <2>1, <2>3, <2>4, BuffersAreNoReports
  <2>6. /\ \A c \in Channels : "earlier" \notin text'[c] \cup lines'[c]
        /\ \A c \in Buffers : lines'[c] \subseteq text'[c]
        /\ \A c \in Reports : text'[c] \ {"client"} \in {{}, lines'[c]}
    BY <2>1, <2>3, <2>4, <2>5, BuffersAreNoReports
  <2>7. result' = "ok" => \A c \in Buffers : lines'[c] = text'[c]
    BY <2>1, <2>2, <2>3, <2>4
  <2>8. ReturnedText'
    BY <2>6, <2>7 DEF ReturnedText
  <2> QED
    BY <2>1, <2>5, <2>8 DEF TextOfRun, InRun, RunPcs, WorkPcs, ReadPcs
<1> QED
  BY <1>b, <1>1, <1>2, <1>3, <1>4 DEF CallStep, OpenInput, StartRun, NextSimulation,
     ReadBlock, PushInclude, IncludeMissing, PopStream, ReadDeadStream, EndOfInput, TidyModel,
     Calculate, WorkStops, WorkEscapes, Finish, UnLoadDatabase, OpenDatabase, Loaded,
     TestDatabase, Restore, InRun, RunPcs, WorkPcs, ReadPcs, LoadPcs

LEMMA ReturnedByText == TypeOK /\ TextOfRun => ReturnedText
  BY DEF TextOfRun, ReturnedText

--------------------------------------------------------------------------------
(* What holds whatever ends a call *)

AnyEnd == TypeOK /\ ErrorsCounted /\ CallShape /\ TextOfRun

LEMMA AnyEndAlways == Spec => []AnyEnd
<1>1. Init => AnyEnd
  <2> SUFFICES ASSUME Init PROVE AnyEnd
    OBVIOUS
  <2>1. TypeOK
    BY InitTyped
  <2>2. ErrorsCounted
    BY DEF Init, ErrorsCounted, ResultTellsErrors, BeforeReset, AfterReset, RunPcs, WorkPcs,
           ReadPcs
  <2>3. CallShape
    BY DEF Init, CallShape, LoadPcs, RunPcs, WorkPcs, ReadPcs
  <2>4. TextOfRun
    BY DEF Init, TextOfRun, InRun, RunPcs, WorkPcs, ReadPcs
  <2> QED
    BY <2>1, <2>2, <2>3, <2>4 DEF AnyEnd
<1>2. AnyEnd /\ ClientStep => AnyEnd'
  BY ClientStepTyped, ClientStepCounts, ClientStepShape, ClientStepKeepsText DEF AnyEnd
<1>3. AnyEnd /\ CallStep => AnyEnd'
  BY CallStepTyped, CallStepCounts, CallStepShape, CallStepKeepsText DEF AnyEnd
<1>4. AnyEnd /\ UNCHANGED vars => AnyEnd'
  <2> SUFFICES ASSUME AnyEnd, UNCHANGED vars PROVE AnyEnd'
    OBVIOUS
  <2> USE DEF vars, callVars, textVars, errorVars
  <2>1. TypeOK'
    BY StutterTyped DEF AnyEnd
  <2>2. ErrorsCounted' /\ CallShape'
    BY DEF AnyEnd, ErrorsCounted, ResultTellsErrors, CallShape
  <2>3. TextOfRun'
    BY DEF AnyEnd, TextOfRun, ReturnedText, HasErrors
  <2> QED
    BY <2>1, <2>2, <2>3 DEF AnyEnd
<1> QED
  BY <1>1, <1>2, <1>3, <1>4, PTL DEF Spec, Next

\* When a run has returned, every buffer speaks of that run and of nothing
\* before it, and the line buffers are those of the texts; also after a run that
\* stopped at any step, and after calls that an exception left.
THEOREM RunsReturnTheirText == Spec => []ReturnedText
<1>1. AnyEnd => ReturnedText
  BY ReturnedByText DEF AnyEnd
<1> QED
  BY <1>1, AnyEndAlways, PTL

--------------------------------------------------------------------------------
(* The invariants hold together *)

Unescaped == TypeOK /\ ErrorsCounted /\ CallShape /\ SwitchesKept /\ NoStreamLeft /\ DatabaseKnown

LEMMA UnescapedInitially == Init => Unescaped
<1> SUFFICES ASSUME Init PROVE Unescaped
  OBVIOUS
<1>1. TypeOK
  BY InitTyped
<1>2. ErrorsCounted
  BY DEF Init, ErrorsCounted, ResultTellsErrors, BeforeReset, AfterReset, RunPcs, WorkPcs,
         ReadPcs
<1>3. CallShape
  BY DEF Init, CallShape, LoadPcs, RunPcs, WorkPcs, ReadPcs
<1>4. SwitchesKept
  BY DEF Init, SwitchesKept, StreamsFollowSwitches, Loads, LoadPcs, RunPcs, WorkPcs, ReadPcs
<1>5. NoStreamLeft
  BY DEF Init, NoStreamLeft
<1>6. DatabaseKnown
  BY DEF Init, DatabaseKnown, RunsNeedDatabase, RunPcs, WorkPcs, ReadPcs
<1> QED
  BY <1>1, <1>2, <1>3, <1>4, <1>5, <1>6 DEF Unescaped

LEMMA UnescapedKept ==
  ASSUME Escapes = FALSE
  PROVE  Unescaped /\ [Next]_vars => Unescaped'
<1>1. Unescaped /\ ClientStep => Unescaped'
  BY ClientStepTyped, ClientStepCounts, ClientStepShape, ClientStepKeepsSwitches,
     ClientStepLeavesNoStream, ClientStepKeepsMode DEF Unescaped
<1>2. Unescaped /\ CallStep => Unescaped'
  BY CallStepTyped, CallStepCounts, CallStepShape, CallStepKeepsSwitches,
     CallStepLeavesNoStream, CallStepKeepsMode DEF Unescaped
<1>3. Unescaped /\ UNCHANGED vars => Unescaped'
  <2> SUFFICES ASSUME Unescaped, UNCHANGED vars PROVE Unescaped'
    OBVIOUS
  <2> USE DEF vars, callVars, fileVars, dbVars, inputVars, errorVars
  <2>1. TypeOK'
    BY StutterTyped DEF Unescaped
  <2>2. ErrorsCounted' /\ CallShape'
    BY DEF Unescaped, ErrorsCounted, ResultTellsErrors, CallShape
  <2>3. SwitchesKept' /\ NoStreamLeft'
    BY DEF Unescaped, SwitchesKept, StreamsFollowSwitches, NoStreamLeft
  <2>4. DatabaseKnown'
    BY DEF Unescaped, DatabaseKnown, RunsNeedDatabase, ModeMatches, HasErrors
  <2> QED
    BY <2>1, <2>2, <2>3, <2>4 DEF Unescaped
<1> QED
  BY <1>1, <1>2, <1>3 DEF Next

LEMMA UnescapedAlways ==
  ASSUME Escapes = FALSE
  PROVE  Spec => []Unescaped
BY UnescapedInitially, UnescapedKept, PTL DEF Spec

\* Between calls every file switch has the value the client gave it, although a
\* load turns them all off while it works.
THEOREM SwitchesAreRestored ==
  ASSUME Escapes = FALSE
  PROVE  Spec => []SwitchesRestored
<1>1. Unescaped => SwitchesRestored
  BY DEF Unescaped, SwitchesKept, SwitchesRestored
<1> QED
  BY <1>1, UnescapedAlways, PTL

\* Whenever a message may be issued, a file is open exactly if its switch is on,
\* as the ASSERTs of the message functions want; between calls nothing is open.
THEOREM StreamsAlwaysFollow ==
  ASSUME Escapes = FALSE
  PROVE  Spec => []StreamsFollowSwitches
<1>1. Unescaped => StreamsFollowSwitches
  BY DEF Unescaped, SwitchesKept
<1> QED
  BY <1>1, UnescapedAlways, PTL

\* Both together, for every sequence of calls and every way a call can end.
THEOREM FilesAlwaysFollow ==
  ASSUME Escapes = FALSE
  PROVE  Spec => []FilesFollowClient
<1>1. SwitchesRestored /\ StreamsFollowSwitches => FilesFollowClient
  BY DEF FilesFollowClient
<1> QED
  BY <1>1, SwitchesAreRestored, StreamsAlwaysFollow, PTL

\* A run or a load finds no input stream of an earlier one, however that ended.
THEOREM InputStackIsClean ==
  ASSUME Escapes = FALSE
  PROVE  Spec => []InputStackClean
<1>1. Unescaped => InputStackClean
  BY DEF Unescaped, NoStreamLeft, InputStackClean, WorkPcs, ReadPcs
<1> QED
  BY <1>1, UnescapedAlways, PTL

\* A run that gets past check_database has a database, and runs in database mode
\* only when it is test_db's.
THEOREM RunsHaveDatabase ==
  ASSUME Escapes = FALSE
  PROVE  Spec => []RunsNeedDatabase
<1>1. Unescaped => RunsNeedDatabase
  BY DEF Unescaped, DatabaseKnown
<1> QED
  BY <1>1, UnescapedAlways, PTL

\* A batch of accumulated lines that a RunAccumulated has taken is never run
\* again together with lines accumulated after it, however that run ended.
THEOREM BatchesNeverMix ==
  ASSUME Escapes = FALSE
  PROVE  Spec => []BatchesNotMixed
<1>1. Init => BatchClosed
  BY DEF Init, BatchClosed, BatchesNotMixed
<1>2. CallShape /\ BatchClosed /\ [Next]_vars => BatchClosed'
  <2>1. BatchClosed /\ UNCHANGED vars => BatchClosed'
    BY DEF BatchClosed, BatchesNotMixed, vars, callVars, accumVars
  <2> QED
    BY <2>1, ClientStepClosesBatch, CallStepClosesBatch DEF Next
<1>3. AnyEnd => CallShape
  BY DEF AnyEnd
<1>4. BatchClosed => BatchesNotMixed
  BY DEF BatchClosed
<1> QED
  BY <1>1, <1>2, <1>3, <1>4, AnyEndAlways, PTL DEF Spec

--------------------------------------------------------------------------------
(* The calls keep their contract *)

\* The contract's phase.
Phase == IF pc = "idle" THEN "idle" ELSE IF caller = "client" THEN "running" ELSE "loading"

\* Every text a step shows was shown before, or was issued by the call.
AddsOwnText == \A c \in Channels : text'[c] \subseteq text[c] \cup {"this"}

\* A step within a call is the contract's Work.
LEMMA WorkRefines ==
  ASSUME TypeOK', Phase # "idle", UNCHANGED <<Phase, result>>, AddsOwnText,
         Phase = "running" => UNCHANGED dbLoaded
  PROVE  Contract!Work
BY DEF Contract!Work, Phase, AddsOwnText, TypeOK

LEMMA ClientStepRefines ==
  TypeOK' /\ ClientStep => Contract!Next \/ UNCHANGED Contract!contractVars
<1> SUFFICES ASSUME TypeOK', ClientStep
             PROVE  Contract!Next \/ UNCHANGED Contract!contractVars
  OBVIOUS
<1> USE DEF callVars, textVars, dbVars
<1>1. CASE UNCHANGED <<callVars, text, dbLoaded>>
  BY <1>1 DEF Contract!contractVars
<1>2. CASE AccumulateLine
  <2>1. /\ UNCHANGED <<callVars, dbLoaded>> /\ pc = "idle"
        /\ \A c \in Channels : text'[c] \subseteq text[c] \cup {"client"}
    BY <1>2 DEF AccumulateLine
  <2> QED
    BY <2>1 DEF Contract!Next, Contract!Client, TypeOK
<1>3. ASSUME NEW r \in Reports, AddReport(r)
      PROVE  Contract!Next \/ UNCHANGED Contract!contractVars
  <2>1. /\ UNCHANGED <<callVars, dbLoaded>> /\ pc = "idle"
        /\ \A c \in Channels : text'[c] \subseteq text[c] \cup {"client"}
    BY <1>3 DEF AddReport
  <2> QED
    BY <2>1 DEF Contract!Next, Contract!Client, TypeOK
<1>4. ASSUME NEW r \in Runs, BeginRun(r)
      PROVE  Contract!Next \/ UNCHANGED Contract!contractVars
  <2>1. Contract!Call("running")
    BY <1>4 DEF BeginRun, EnterRun, Aged, Contract!Call
  <2> QED
    BY <2>1 DEF Contract!Next
<1>5. ASSUME NEW l \in Loads, BeginLoad(l)
      PROVE  Contract!Next \/ UNCHANGED Contract!contractVars
  <2>1. Contract!Call("loading")
    BY <1>5 DEF BeginLoad, Aged, Contract!Call, Loads
  <2> QED
    BY <2>1 DEF Contract!Next
<1> QED
  BY <1>1, <1>2, <1>3, <1>4, <1>5 DEF ClientStep, SetFileOn, SetStringOn,
     ClearAccumulatedLines, ListComponents

\* A message adds to the texts what this call says.
LEMMA SaysOwnText ==
  ASSUME NEW kind, NEW texts,
         \A c \in Channels : texts[c] \subseteq text[c] \cup {"this"},
         text' = Says(kind, texts)
  PROVE  AddsOwnText
BY DEF Says, AddsOwnText

\* Each step of a call but the last is Work; the last one returns what the
\* contract allows.
LEMMA CallStepRefines ==
  ASSUME Escapes = FALSE
  PROVE  Unescaped /\ TextOfRun /\ TypeOK' /\ CallStep
           => Contract!Next \/ UNCHANGED Contract!contractVars
<1> SUFFICES ASSUME Unescaped, TextOfRun, TypeOK', CallStep
             PROVE  Contract!Next \/ UNCHANGED Contract!contractVars
  OBVIOUS
<1> USE DEF callVars, textVars, dbVars
<1>a. TypeOK /\ CallShape /\ DatabaseKnown
  BY DEF Unescaped
<1>b. (pc \in LoadPcs => caller \in Loads) /\ (Phase = "running" => caller = "client")
  BY <1>a DEF CallShape, Phase
<1>c. UNCHANGED text => AddsOwnText
  BY DEF AddsOwnText
<1>d. ASSUME NEW kind, text' = Says(kind, text) PROVE AddsOwnText
  BY <1>d, SaysOwnText
<1>e. AfterStop # "idle"
  BY DEF AfterStop
<1>1. ASSUME pc # "idle", pc' # "idle", UNCHANGED <<caller, result, dbLoaded>>, AddsOwnText
      PROVE  Contract!Next \/ UNCHANGED Contract!contractVars
  <2>1. Contract!Work
    BY <1>1, WorkRefines DEF Phase
  <2> QED
    BY <2>1 DEF Contract!Next
<1>2. CASE OpenOutputFiles \/ StartRun \/ PopStream \/ ReadDeadStream \/ EndOfInput
  BY <1>1, <1>2, <1>c DEF OpenOutputFiles, StartRun, PopStream, ReadDeadStream, EndOfInput,
     ReadPcs
<1>3. CASE CheckDatabase
  <2>1. AddsOwnText
    <3>1. DEFINE released == [c \in Channels |-> {}]
    <3>2. \A c \in Channels : released[c] \subseteq text[c] \cup {"this"}
      OBVIOUS
    <3>3. text' \in {released, Says("error", released)}
      BY <1>3 DEF CheckDatabase
    <3> QED
      BY <3>2, <3>3, SaysOwnText DEF AddsOwnText
  <2> QED
    BY <1>1, <1>3, <2>1 DEF CheckDatabase
<1>4. CASE OpenInput
  BY <1>1, <1>4, <1>c, <1>d, <1>e DEF OpenInput, Stop, Message
<1>5. CASE NextSimulation \/ ReadBlock \/ PushInclude
  BY <1>1, <1>5, <1>d DEF NextSimulation, ReadBlock, PushInclude, Message, ReadPcs
<1>6. CASE IncludeMissing
  <2>1. AddsOwnText
    BY <1>6 DEF IncludeMissing, AddsOwnText
  <2> QED
    BY <1>1, <1>6, <1>e, <2>1 DEF IncludeMissing, ReadPcs
<1>7. CASE TidyModel \/ Calculate \/ WorkStops
  <2>1. AddsOwnText
    BY <1>7, <1>d DEF TidyModel, Calculate, WorkStops, Stop, Message
  <2>2. pc # "idle" /\ pc' # "idle" /\ UNCHANGED <<caller, result, dbLoaded>>
    BY <1>7, <1>e DEF TidyModel, Calculate, WorkStops, Stop, WorkPcs, ReadPcs
  <2> QED
    BY <1>1, <2>1, <2>2
<1>8. CASE WorkEscapes
  BY <1>8 DEF WorkEscapes
<1>9. CASE Finish
  BY <1>1, <1>9, <1>c DEF Finish
<1>10. CASE CloseOutput
  <2>1. pc = "closeOutput" /\ UNCHANGED <<caller, text, dbLoaded>>
    BY <1>10 DEF CloseOutput, EndRun
  <2>2. CASE caller = "client"
    <3>1. /\ pc' = "idle" /\ result' = IF HasErrors THEN "errors" ELSE "ok"
      BY <1>10, <2>2 DEF CloseOutput, EndRun
    <3>2. \A c \in Channels : text[c] \subseteq {"this"}
      BY <2>1, <2>2 DEF TextOfRun, InRun, RunPcs
    <3>3. ~HasErrors => dbLoaded
      BY <1>a, <2>1 DEF DatabaseKnown
    <3>4. Contract!Return(result')
      BY <2>1, <3>1, <3>2, <3>3 DEF Contract!Return
    <3> QED
      BY <3>1, <3>4 DEF Contract!Next
  <2>3. CASE caller # "client"
    BY <1>1, <1>10, <1>c, <2>1, <2>3 DEF CloseOutput, EndRun
  <2> QED
    BY <2>2, <2>3
<1>11. CASE UnLoadDatabase \/ Loaded
  <2>1. AddsOwnText
    BY <1>11 DEF UnLoadDatabase, Loaded, AddsOwnText
  <2>2. pc \in LoadPcs /\ pc' # "idle" /\ UNCHANGED <<caller, result>>
    BY <1>11 DEF UnLoadDatabase, Loaded, LoadPcs
  <2>3. Phase = "loading" /\ UNCHANGED Phase
    BY <1>b, <2>2 DEF Phase, LoadPcs, Loads
  <2>4. Contract!Work
    BY <2>1, <2>2, <2>3, WorkRefines
  <2> QED
    BY <2>4 DEF Contract!Next
<1>12. CASE OpenDatabase
  BY <1>1, <1>12, <1>d, <1>e DEF OpenDatabase, Stop, Message
<1>13. CASE TestDatabase
  BY <1>1, <1>13, <1>c DEF TestDatabase, EnterRun
<1>14. CASE Restore
  <2>1. /\ pc = "restore" /\ pc' = "idle" /\ UNCHANGED <<caller, text, dbLoaded>>
        /\ result' = IF HasErrors THEN "errors" ELSE "ok"
    BY <1>14 DEF Restore
  <2>2. caller # "client"
    BY <1>b, <2>1 DEF LoadPcs, Loads
  <2>3. ~HasErrors => dbLoaded
    BY <1>a, <2>1 DEF DatabaseKnown
  <2>4. Contract!Return(result')
    BY <2>1, <2>2, <2>3 DEF Contract!Return
  <2> QED
    BY <2>1, <2>4 DEF Contract!Next
<1> QED
  BY <1>2, <1>3, <1>4, <1>5, <1>6, <1>7, <1>8, <1>9, <1>10, <1>11, <1>12, <1>13, <1>14
     DEF CallStep

\* The detailed session implements the contract of its calls: whatever the
\* channels, the inputs and the step a call stops at, every step of it is a step
\* of SessionContract or leaves what a client sees unchanged.
THEOREM SessionKeepsContract ==
  ASSUME Escapes = FALSE
  PROVE  Spec => ContractSpec
<1>1. Init => Contract!Init
  BY DEF Init, Contract!Init
<1>2. Unescaped /\ AnyEnd /\ AnyEnd' /\ [Next]_vars
        => [Contract!Next]_Contract!contractVars
  <2> SUFFICES ASSUME Unescaped, AnyEnd, AnyEnd', [Next]_vars
               PROVE  Contract!Next \/ UNCHANGED Contract!contractVars
    OBVIOUS
  <2>1. TypeOK' /\ TextOfRun
    BY DEF AnyEnd
  <2>2. CASE UNCHANGED vars
    BY <2>2 DEF vars, callVars, textVars, dbVars, Contract!contractVars
  <2> QED
    BY <2>1, <2>2, ClientStepRefines, CallStepRefines DEF Next
<1> QED
  BY <1>1, <1>2, AnyEndAlways, UnescapedAlways, PTL DEF Spec, ContractSpec, Contract!Spec

--------------------------------------------------------------------------------
(* What a call has still to do *)

\* The course of a call: a load reads the database, tests it with a run and restores the
\* switches; a run opens its files, goes through its simulations and closes them.
CourseLeft ==
  CASE pc = "unload"        -> 14
    [] pc = "openDatabase"  -> 13
    [] pc \in ReadPcs /\ routine = "ReadDatabase" -> 12
    [] pc = "tidy" /\ routine = "ReadDatabase" -> 11
    [] pc = "loaded"        -> 10
    [] pc = "testDatabase"  -> 9
    [] pc = "openOutput"    -> 8
    [] pc = "checkDatabase" -> 7
    [] pc = "openInput"     -> 6
    [] pc = "startRun"      -> 5
    [] pc = "nextSimulation" \/ (pc \in WorkPcs /\ routine # "ReadDatabase") -> 4
    [] pc = "finish"        -> 3
    [] pc = "closeOutput"   -> 2
    [] pc = "restore"       -> 1
    [] OTHER                -> 0

\* Simulations to come, each with the steps that are left of the one under way.
SimulationsLeft ==
  5 * (MaxSimulations - sims) +
    CASE pc = "readBlock"      -> 4
      [] pc = "tidy"           -> 3
      [] pc = "calculate"      -> 2
      [] pc = "nextSimulation" -> 1
      [] OTHER                 -> 0

\* Within one simulation: streams to push and to pop, and what reading a block can tell
\* that has not been told yet.
Unset(flag) == IF flag THEN 0 ELSE 1
Silent   == {c \in Channels : "this" \notin text[c]}
NewsLeft ==
  Cardinality(Silent) + Unset(inputError) + Unset(ioError) + Unset(reported)
    + Unset(~componentsFresh)
ReadingLeft == 2 * (MaxIncludes - includes) + Len(istreams) + NewsLeft

CallWork == <<CourseLeft, <<SimulationsLeft, ReadingLeft>>>>

\* Tuples of that form, and the lexicographic order of them
Below     == OpToRel(<, Nat)
CallWorks == Nat \X (Nat \X Nat)
LessWork  == LexPairOrdering(Below, LexPairOrdering(Below, Below, Nat, Nat), Nat, Nat \X Nat)

LEMMA LessWorkWellFounded == IsWellFoundedOn(LessWork, CallWorks)
BY NatLessThanWellFounded, WFLexPairOrdering DEF LessWork, CallWorks, Below

\* A pair is less if its first number is smaller, or its second part less.
LEMMA PairLess ==
  ASSUME NEW R, NEW S, NEW m \in Nat, NEW n \in Nat, NEW x \in S, NEW y \in S,
         m < n \/ (m = n /\ <<x, y>> \in R)
  PROVE  <<<<m, x>>, <<n, y>>>> \in LexPairOrdering(Below, R, Nat, S)
<1>1. m < n => <<m, n>> \in Below
  BY DEF Below, OpToRel
<1> QED
  BY <1>1 DEF LexPairOrdering

LEMMA ChannelsAreFinite == IsFiniteSet(Channels)
<1> DEFINE two(a, b) == {a} \cup {b}
<1>1. \A a, b : IsFiniteSet(two(a, b))
  BY FS_EmptySet, FS_AddElement, FS_Singleton, FS_Union
<1>2. Channels \subseteq two("output", "log") \cup two("error", "warning")
  BY SessionAssumption DEF Channels
<1> HIDE DEF two
<1> QED
  BY <1>1, <1>2, FS_Union, FS_Subset

LEMMA SilentIsFinite == IsFiniteSet(Silent) /\ Cardinality(Silent) \in Nat
<1>1. Silent \subseteq Channels
  BY DEF Silent
<1> QED
  BY <1>1, ChannelsAreFinite, FS_Subset, FS_CardinalityType

LEMMA NewsTyped == NewsLeft \in Nat
<1>1. \A flag : Unset(flag) \in Nat
  BY DEF Unset
<1> HIDE DEF Unset
<1> QED
  BY <1>1, SilentIsFinite DEF NewsLeft

CallNumbers == CourseLeft \in Nat /\ SimulationsLeft \in Nat /\ ReadingLeft \in Nat

LEMMA WorkTyped == TypeOK => CallNumbers
<1> SUFFICES ASSUME TypeOK PROVE CallNumbers
  OBVIOUS
<1>1. CourseLeft \in Nat
  BY DEF CourseLeft
<1>2. /\ MaxSimulations - sims \in Nat /\ MaxIncludes - includes \in Nat
      /\ Len(istreams) \in Nat
  BY SessionAssumption, LenProperties DEF TypeOK
<1>3. SimulationsLeft \in Nat
  <2> DEFINE n == MaxSimulations - sims
  <2> HIDE DEF n
  <2> QED
    BY <1>2 DEF SimulationsLeft, n
<1> QED
  BY <1>1, <1>2, <1>3, NewsTyped DEF ReadingLeft, CallNumbers

LEMMA CallWorkShrinks ==
  ASSUME TypeOK, TypeOK',
         \/ CourseLeft' < CourseLeft
         \/ CourseLeft' = CourseLeft /\ SimulationsLeft' < SimulationsLeft
         \/ /\ CourseLeft' = CourseLeft /\ SimulationsLeft' = SimulationsLeft
            /\ ReadingLeft' < ReadingLeft
  PROVE  <<CallWork', CallWork>> \in LessWork
<1> DEFINE a == CourseLeft
           b == SimulationsLeft
           d == ReadingLeft
           v == CourseLeft'
           w == SimulationsLeft'
           y == ReadingLeft'
<1>1. a \in Nat /\ b \in Nat /\ d \in Nat
  BY WorkTyped DEF CallNumbers
<1>2. v \in Nat /\ w \in Nat /\ y \in Nat
  <2>1. CallNumbers'
    BY WorkTyped, PTL
  <2> QED
    BY <2>1 DEF CallNumbers
<1>3. v < a \/ (v = a /\ w < b) \/ (v = a /\ w = b /\ y < d)
  OBVIOUS
<1>4. CallWork = <<a, <<b, d>>>> /\ CallWork' = <<v, <<w, y>>>>
  BY DEF CallWork
<1> HIDE DEF a, b, d, v, w, y
<1>5. y < d => <<y, d>> \in Below
  BY <1>1, <1>2 DEF Below, OpToRel
<1>6. /\ <<w, y>> \in Nat \X Nat /\ <<b, d>> \in Nat \X Nat
      /\ w < b \/ (w = b /\ y < d)
           => <<<<w, y>>, <<b, d>>>> \in LexPairOrdering(Below, Below, Nat, Nat)
  BY <1>1, <1>2, <1>5, PairLess
<1> DEFINE f == <<b, d>>
           g == <<w, y>>
<1>7. v < a \/ (v = a /\ <<g, f>> \in LexPairOrdering(Below, Below, Nat, Nat))
        => <<<<v, g>>, <<a, f>>>> \in LessWork
  <2>1. f \in Nat \X Nat /\ g \in Nat \X Nat
    BY <1>6
  <2> HIDE DEF f, g
  <2> QED
    BY <1>1, <1>2, <2>1, PairLess DEF LessWork
<1> QED
  BY <1>3, <1>4, <1>6, <1>7

\* Reading never takes back what it has told,
ToldMore ==
  /\ \A c \in Channels : text'[c] \in {text[c], text[c] \cup {"this"}}
  /\ inputError => inputError'
  /\ ioError => ioError'
  /\ reported => reported'
  /\ componentsFresh' => componentsFresh

\* so that less is left to tell if anything changes.
LEMMA NewsShrink ==
  ASSUME TypeOK, TypeOK', ToldMore
  PROVE  /\ NewsLeft' <= NewsLeft /\ NewsLeft \in Nat /\ NewsLeft' \in Nat
         /\ UNCHANGED <<text, errorVars, componentsFresh>> \/ NewsLeft' < NewsLeft
<1>1. Silent' \subseteq Silent
  BY DEF Silent, ToldMore
<1>2. /\ Cardinality(Silent') <= Cardinality(Silent)
      /\ Cardinality(Silent) \in Nat /\ Cardinality(Silent') \in Nat
      /\ Silent' # Silent => Cardinality(Silent') < Cardinality(Silent)
  <2>1. IsFiniteSet(Silent) /\ Cardinality(Silent) \in Nat
    BY SilentIsFinite
  <2>2. /\ Cardinality(Silent') <= Cardinality(Silent)
        /\ Cardinality(Silent') = Cardinality(Silent) => Silent' = Silent
    BY <1>1, <2>1, FS_Subset
  <2>3. Cardinality(Silent') \in Nat
    BY <1>1, <2>1, FS_Subset, FS_CardinalityType
  <2> QED
    BY <2>1, <2>2, <2>3
<1>3. text' = text \/ Silent' # Silent
  <2> SUFFICES ASSUME Silent' = Silent PROVE text' = text
    OBVIOUS
  <2>1. ASSUME NEW c \in Channels PROVE text'[c] = text[c]
    <3>1. c \in Silent' <=> c \in Silent
      OBVIOUS
    <3> QED
      BY <3>1 DEF Silent, ToldMore
  <2> QED
    BY <2>1 DEF TypeOK
<1>4. /\ Unset(inputError') <= Unset(inputError)
      /\ inputError' # inputError => Unset(inputError') < Unset(inputError)
      /\ Unset(ioError') <= Unset(ioError)
      /\ ioError' # ioError => Unset(ioError') < Unset(ioError)
      /\ Unset(reported') <= Unset(reported)
      /\ reported' # reported => Unset(reported') < Unset(reported)
      /\ Unset(~componentsFresh') <= Unset(~componentsFresh)
      /\ componentsFresh' # componentsFresh
           => Unset(~componentsFresh') < Unset(~componentsFresh)
  BY DEF Unset, TypeOK, ToldMore
<1>5. \A flag : Unset(flag) \in Nat
  BY DEF Unset
<1> HIDE DEF Unset
<1>6. NewsLeft' <= NewsLeft /\ NewsLeft \in Nat /\ NewsLeft' \in Nat
  BY <1>2, <1>4, <1>5 DEF NewsLeft
<1>7. CASE text' # text
  BY <1>2, <1>3, <1>4, <1>5, <1>7 DEF NewsLeft
<1>8. CASE \/ inputError' # inputError \/ ioError' # ioError
           \/ reported' # reported \/ componentsFresh' # componentsFresh
  BY <1>2, <1>4, <1>5, <1>8 DEF NewsLeft
<1> QED
  BY <1>6, <1>7, <1>8 DEF errorVars

LEMMA MessageTellsMore ==
  ASSUME TypeOK, NEW kind \in Kinds, Message(kind), componentsFresh' \in {componentsFresh, FALSE}
  PROVE  ToldMore
<1>1. \A c \in Channels : text'[c] \in {text[c], text[c] \cup {"this"}}
  BY DEF TypeOK, Message, Says
<1>2. (inputError => inputError') /\ (ioError => ioError') /\ (reported => reported')
  <2>1. CASE kind = "error"
    <3>1. /\ inputError' = (inputError \/ ~ioError) /\ ioError' = TRUE
          /\ reported' = TRUE
      BY <2>1 DEF Message
    <3> QED
      BY <3>1
  <2>2. CASE kind # "error"
    <3>1. inputError' = inputError /\ ioError' = ioError /\ reported' = reported
      BY <2>2 DEF Message, errorVars
    <3> QED
      BY <3>1
  <2> QED
    BY <2>1, <2>2
<1>3. componentsFresh' => componentsFresh
  BY DEF TypeOK
<1> QED
  BY <1>1, <1>2, <1>3 DEF ToldMore

--------------------------------------------------------------------------------
(* Steps that read *)

LEMMA ReadBlockShrinks ==
  ASSUME TypeOK, TypeOK', ReadBlock
  PROVE  <<CallWork', CallWork>> \in LessWork \/ UNCHANGED vars
<1> USE DEF callVars, fileVars, textVars, accumVars, dbVars, inputVars, errorVars, compVars
<1>1. PICK kind \in Kinds : Message(kind)
  BY KindsOfMessages DEF ReadBlock
<1>2. ToldMore
  BY <1>1, MessageTellsMore DEF ReadBlock
<1>3. /\ pc \in ReadPcs /\ pc' = "readBlock" /\ routine' = routine
      /\ includes' = includes /\ istreams' = istreams
  BY DEF ReadBlock
<1>4. CourseLeft' = CourseLeft
  BY <1>3 DEF CourseLeft, ReadPcs, WorkPcs
<1>5. CASE pc = "readInput"
  <2>1. /\ sims \in Nat /\ sims' = sims + 1 /\ MaxSimulations \in Nat
    BY <1>5, SessionAssumption DEF ReadBlock, TypeOK
  <2>2. SimulationsLeft' < SimulationsLeft
    BY <1>3, <1>5, <2>1 DEF SimulationsLeft
  <2> QED
    BY <1>4, <2>2, CallWorkShrinks
<1>6. CASE pc = "readBlock"
  <2>1. SimulationsLeft' = SimulationsLeft
    BY <1>3, <1>6 DEF SimulationsLeft, ReadBlock
  <2>2. CASE UNCHANGED <<text, errorVars, componentsFresh>>
    BY <1>6, <2>2 DEF ReadBlock, vars
  <2>3. CASE NewsLeft' < NewsLeft
    <3>1. 2 * (MaxIncludes - includes) + Len(istreams) \in Nat
      BY SessionAssumption, LenProperties DEF TypeOK
    <3>2. NewsLeft \in Nat /\ NewsLeft' \in Nat
      BY <1>2, NewsShrink
    <3>3. ReadingLeft' < ReadingLeft
      BY <1>3, <2>3, <3>1, <3>2 DEF ReadingLeft
    <3> QED
      BY <1>4, <2>1, <3>3, CallWorkShrinks
  <2> QED
    BY <1>2, <2>2, <2>3, NewsShrink
<1> QED
  BY <1>3, <1>5, <1>6 DEF ReadPcs

LEMMA StreamStepShrinks ==
  ASSUME TypeOK, TypeOK', PushInclude \/ PopStream
  PROVE  <<CallWork', CallWork>> \in LessWork
<1> USE DEF callVars, fileVars, textVars, accumVars, dbVars, inputVars, errorVars, compVars
<1>1. pc' = pc /\ routine' = routine /\ sims' = sims
  BY DEF PushInclude, PopStream
<1>2. CourseLeft' = CourseLeft /\ SimulationsLeft' = SimulationsLeft
  BY <1>1 DEF CourseLeft, SimulationsLeft
<1>3. NewsLeft' <= NewsLeft /\ NewsLeft \in Nat /\ NewsLeft' \in Nat
  <2>1. ToldMore
    BY DEF PushInclude, PopStream, Says, TypeOK, ToldMore
  <2> QED
    BY <2>1, NewsShrink
<1>4. /\ includes \in Nat /\ includes' \in Nat /\ MaxIncludes \in Nat
      /\ Len(istreams) \in Nat /\ Len(istreams') \in Nat
  BY SessionAssumption, LenProperties DEF TypeOK
<1>5. \/ includes' = includes + 1 /\ Len(istreams') = Len(istreams) + 1
      \/ includes' = includes /\ Len(istreams') = Len(istreams) - 1
  <2>1. CASE PushInclude
    <3>1. Len(<<"include">> \o istreams) = 1 + Len(istreams)
      BY ConcatProperties DEF TypeOK
    <3> QED
      BY <1>4, <2>1, <3>1 DEF PushInclude
  <2>2. CASE PopStream
    <3>1. Len(Tail(istreams)) = Len(istreams) - 1
      BY <2>2, HeadTailProperties DEF TypeOK, PopStream, Readable
    <3> QED
      BY <2>2, <3>1 DEF PopStream
  <2> QED
    BY <2>1, <2>2
<1>6. ReadingLeft' < ReadingLeft
  <2>1. \A x, y, z, n, m, p, q \in Nat :
          (y = x + 1 /\ m = n + 1) \/ (y = x /\ m = n - 1)
            => (q <= p => 2 * (z - y) + m + q < 2 * (z - x) + n + p)
    OBVIOUS
  <2> QED
    BY <1>3, <1>4, <1>5, <2>1 DEF ReadingLeft
<1> QED
  BY <1>2, <1>6, CallWorkShrinks

--------------------------------------------------------------------------------
(* Steps that go on *)

\* A step to a later place of the call.
LEMMA CourseShrinks ==
  ASSUME TypeOK, TypeOK', CourseLeft' < CourseLeft
  PROVE  <<CallWork', CallWork>> \in LessWork
BY CallWorkShrinks

LEMMA RunStepShrinks ==
  ASSUME TypeOK, CallShape,
         \/ OpenOutputFiles \/ CheckDatabase \/ OpenInput \/ StartRun
         \/ Finish \/ CloseOutput
  PROVE  CourseLeft' < CourseLeft
<1> USE DEF callVars, CourseLeft, CallShape, RunPcs, LoadPcs, WorkPcs, ReadPcs, Runs, Loads
<1>1. CASE OpenOutputFiles
  BY <1>1 DEF OpenOutputFiles
<1>2. CASE CheckDatabase
  BY <1>2 DEF CheckDatabase
<1>3. CASE OpenInput
  BY <1>3 DEF OpenInput, Stop, AfterStop
<1>4. CASE StartRun
  BY <1>4 DEF StartRun
<1>5. CASE Finish
  BY <1>5 DEF Finish
<1>6. CASE CloseOutput
  BY <1>6 DEF CloseOutput, EndRun
<1> QED
  BY <1>1, <1>2, <1>3, <1>4, <1>5, <1>6

LEMMA LoadStepShrinks ==
  ASSUME TypeOK, CallShape,
         UnLoadDatabase \/ OpenDatabase \/ Loaded \/ TestDatabase \/ Restore
  PROVE  CourseLeft' < CourseLeft
<1> USE DEF callVars, CourseLeft, CallShape, RunPcs, LoadPcs, WorkPcs, ReadPcs, Runs, Loads
<1>1. CASE UnLoadDatabase
  BY <1>1 DEF UnLoadDatabase
<1>2. CASE OpenDatabase
  BY <1>2 DEF OpenDatabase, Stop, AfterStop
<1>3. CASE Loaded
  BY <1>3 DEF Loaded
<1>4. CASE TestDatabase
  BY <1>4 DEF TestDatabase, EnterRun
<1>5. CASE Restore
  BY <1>5 DEF Restore
<1> QED
  BY <1>1, <1>2, <1>3, <1>4, <1>5

\* What ends the reading or the work, or hands it on from the database.
LEMMA WorkEndShrinks ==
  ASSUME TypeOK, CallShape,
         \/ IncludeMissing \/ ReadDeadStream \/ WorkStops \/ WorkEscapes
         \/ (EndOfInput \/ TidyModel) /\ routine = "ReadDatabase"
         \/ (EndOfInput /\ pc = "readInput")
  PROVE  CourseLeft' < CourseLeft
<1> USE DEF callVars, CourseLeft, CallShape, RunPcs, LoadPcs, WorkPcs, ReadPcs, Runs, Loads
<1>1. CASE IncludeMissing
  BY <1>1 DEF IncludeMissing, AfterStop
<1>2. CASE ReadDeadStream
  BY <1>2 DEF ReadDeadStream
<1>3. CASE WorkStops
  BY <1>3 DEF WorkStops, Stop, AfterStop
<1>4. CASE WorkEscapes
  BY <1>4 DEF WorkEscapes
<1>5. CASE EndOfInput /\ (routine = "ReadDatabase" \/ pc = "readInput")
  BY <1>5 DEF EndOfInput
<1>6. CASE TidyModel /\ routine = "ReadDatabase"
  BY <1>6 DEF TidyModel
<1> QED
  BY <1>1, <1>2, <1>3, <1>4, <1>5, <1>6

\* The steps of one simulation of a run.
LEMMA SimulationStepShrinks ==
  ASSUME TypeOK, TypeOK', CallShape,
         \/ NextSimulation \/ Calculate
         \/ ((EndOfInput /\ pc = "readBlock") \/ TidyModel) /\ routine # "ReadDatabase"
  PROVE  <<CallWork', CallWork>> \in LessWork
<1> USE DEF inputVars, CallShape, RunPcs, LoadPcs, WorkPcs, ReadPcs, Runs, Loads
<1>1. /\ sims' = sims /\ routine' = routine
      /\ \/ pc = "nextSimulation" /\ pc' = "readInput"
         \/ pc = "calculate" /\ pc' = "nextSimulation"
         \/ pc = "readBlock" /\ pc' = "tidy"
         \/ pc = "tidy" /\ pc' = "calculate"
      /\ routine # "ReadDatabase"
  BY DEF NextSimulation, Calculate, EndOfInput, TidyModel, callVars
<1>2. CourseLeft' = CourseLeft
  BY <1>1 DEF CourseLeft
<1>3. sims \in Nat /\ MaxSimulations \in Nat
  BY SessionAssumption DEF TypeOK
<1>4. SimulationsLeft' < SimulationsLeft
  BY <1>1, <1>3 DEF SimulationsLeft
<1> QED
  BY <1>2, <1>4, CallWorkShrinks

CallRunsDown == pc # "idle" => <<CallWork', CallWork>> \in LessWork

LEMMA CallStepShrinks ==
  ASSUME TypeOK, TypeOK', CallShape, Next
  PROVE  CallRunsDown \/ UNCHANGED vars
<1>1. CASE ClientStep
  BY <1>1 DEF ClientStep, SetFileOn, SetStringOn, AccumulateLine, ClearAccumulatedLines,
     AddReport, ListComponents, BeginRun, BeginLoad, CallRunsDown
<1>2. CASE ReadBlock
  BY <1>2, ReadBlockShrinks DEF CallRunsDown
<1>3. CASE PushInclude \/ PopStream
  BY <1>3, StreamStepShrinks DEF CallRunsDown
<1>4. CASE OpenOutputFiles \/ CheckDatabase \/ OpenInput \/ StartRun \/ Finish \/ CloseOutput
  BY <1>4, RunStepShrinks, CourseShrinks DEF CallRunsDown
<1>5. CASE UnLoadDatabase \/ OpenDatabase \/ Loaded \/ TestDatabase \/ Restore
  BY <1>5, LoadStepShrinks, CourseShrinks DEF CallRunsDown
<1>6. CASE IncludeMissing \/ ReadDeadStream \/ WorkStops \/ WorkEscapes
  BY <1>6, WorkEndShrinks, CourseShrinks DEF CallRunsDown
<1>7. CASE NextSimulation \/ Calculate
  BY <1>7, SimulationStepShrinks DEF CallRunsDown
<1>8. CASE EndOfInput \/ TidyModel
  <2>1. EndOfInput => pc \in {"readBlock", "readInput"}
    BY DEF EndOfInput
  <2> QED
    BY <1>8, <2>1, WorkEndShrinks, SimulationStepShrinks, CourseShrinks DEF CallRunsDown
<1> QED
  BY <1>1, <1>2, <1>3, <1>4, <1>5, <1>6, <1>7, <1>8 DEF Next, CallStep

\* Every step of a call leaves less of it to do, by an order in which there is no endless
\* descent: however long the input and however deep its includes (any MaxSimulations and
\* MaxIncludes), whichever step fails and whatever ends the call, the loops of do_run,
\* read_input and get_line cannot keep a call from returning for ever.
THEOREM CallsRunOut ==
  /\ IsWellFoundedOn(LessWork, CallWorks)
  /\ Spec => [][CallRunsDown]_vars
<1>1. AnyEnd /\ AnyEnd' /\ [Next]_vars => [CallRunsDown]_vars
  BY CallStepShrinks DEF AnyEnd
<1>2. Spec => [][CallRunsDown]_vars
  BY <1>1, AnyEndAlways, PTL DEF Spec
<1> QED
  BY <1>2, LessWorkWellFounded

================================================================================
