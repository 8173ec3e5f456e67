------------------------------ MODULE BasicControl ------------------------------
(***************************************************************************)
(* The control flow of the BASIC interpreter (PBasic.cpp): the loop of     *)
(* exec() over the lines of a program, the stack of FOR, WHILE and GOSUB   *)
(* records (loopbase), the scan ahead for the end of a loop that is not    *)
(* entered, and the pointer into the DATA statements.                      *)
(*                                                                         *)
(* A line holds one statement.  A condition is "variable below a limit",   *)
(* an assignment adds to a variable; other expressions, the output         *)
(* statements but one, DIM, the editing commands and ELSE are left out.    *)
(* A run may be stopped from inside a statement (error_msg with STOP in a  *)
(* BASIC function), which skips what basic_run does when a run is over.    *)
(***************************************************************************)
EXTENDS Integers, Sequences, FiniteSets

CONSTANTS
  Vars,     \* the numeric variables
  Programs, \* the programs: sequences of lines
  MaxRuns   \* bound: runs

NoVar  == "none"                        \* NEXT without a variable
NoCond == [var |-> NoVar, limit |-> 0]  \* WHILE or WEND without a condition

Conds == {NoCond} \cup [var : Vars, limit : Int]

Statements ==
  [op : {"FOR"}, var : Vars, from : Int, to : Int, step : Int]
  \cup [op : {"NEXT"}, var : Vars \cup {NoVar}]
  \cup [op : {"WHILE", "WEND"}, cond : Conds]
  \cup [op : {"IF"}, cond : Conds, line : Nat]
  \cup [op : {"GOTO", "GOSUB", "RESTORE"}, line : Nat]  \* RESTORE alone has line 0
  \cup [op : {"ON"}, var : Vars, gosub : BOOLEAN, lines : Seq(Nat)]
  \cup [op : {"RETURN", "END"}]
  \cup [op : {"READ", "PUNCH"}, var : Vars]
  \cup [op : {"LET"}, var : Vars, add : Int]
  \cup [op : {"DATA"}, items : Seq(Int)]

ASSUME BasicAssumption ==
  /\ NoVar \notin Vars
  /\ Programs \subseteq Seq(Statements) \ {<<>>}
  /\ MaxRuns \in Nat

LoopRecords ==
  [kind : {"for"}, var : Vars, max : Int, step : Int, home : Nat]
  \cup [kind : {"while", "gosub"}, home : Nat]

VARIABLES
  linebase, \* the lines of this interpreter's program
  status,   \* "idle", "running", "over" or "error"
  line,     \* stmtline
  value,    \* varbase
  loops,    \* loopbase, the innermost record last
  data,     \* dataline (0 for NULL) and the items read from it
  out,      \* history: what this run has punched
  runs      \* history: runs begun

basicVars == <<linebase, status, line, value, loops, data, out, runs>>

Stmt == linebase[line]
Cleared == [v \in Vars |-> 0]

BasicTypeOK ==
  /\ linebase \in Seq(Statements)
  /\ status \in {"idle", "running", "over", "error"}
  /\ line \in Nat /\ (status = "running" => line \in 1..Len(linebase))
  /\ value \in [Vars -> Int]
  /\ loops \in Seq(LoopRecords)
  /\ data \in [line : Nat, read : Nat]
  /\ out \in Seq(Int) /\ runs \in Nat

--------------------------------------------------------------------------------
(* Helpers *)

\* exec(): on to the next line; past the last one the program is over.
GoOn(next) ==
  IF next <= Len(linebase) THEN line' = next /\ UNCHANGED status
                       ELSE status' = "over" /\ UNCHANGED line

\* mustfindline, cmdgoto.
GoTo(target) ==
  IF target \in 1..Len(linebase) THEN line' = target /\ UNCHANGED status
                             ELSE status' = "error" /\ UNCHANGED line

\* errormsg().  What the failing statement has changed before is cleared by
\* basic_run, and left out.
Fail == status' = "error" /\ UNCHANGED <<line, value, loops, data, out>>

Executing(op) ==
  /\ status = "running" /\ Stmt.op = op
  /\ UNCHANGED <<linebase, runs>>

Holds(cond) == cond = NoCond \/ value[cond.var] < cond.limit

\* NEXT and WEND drop inner records until one is of those they end, but none of a GOSUB.
Matching(n, records) ==
  n \in records /\ \A m \in n + 1..Len(loops) : loops[m].kind # "gosub" /\ m \notin records

Open(kind) == {n \in 1..Len(loops) : loops[n].kind = kind}

Upto(n) == SubSeq(loops, 1, n)

\* Where a scan for the end of a loop that is not entered stops.
Found(m, ends) == m \in ends /\ \A n \in line + 1..m - 1 : n \notin ends

--------------------------------------------------------------------------------
(* Loops *)

\* Lines up to m with FOR or NEXT, of the same variable or not.
Count(op, own, m) ==
  Cardinality({n \in line + 1..m :
                 linebase[n].op = op /\ (linebase[n].var = Stmt.var) = own})

\* Mutant: the first NEXT, whatever was opened before it.
EndOfFor_FirstNext(m) == linebase[m].op = "NEXT"

\* The scan of cmdfor balances its own variable and the others apart.
EndOfFor(m) == \E own \in BOOLEAN : Count("FOR", own, m) < Count("NEXT", own, m)

Beyond(from, to, step) == (step >= 0 /\ from > to) \/ (step <= 0 /\ from < to)

cmdfor ==
  /\ Executing("FOR")
  /\ IF ~Beyond(Stmt.from, Stmt.to, Stmt.step)
       THEN /\ value' = [value EXCEPT ![Stmt.var] = Stmt.from]
            /\ loops' = Append(loops, [kind |-> "for", var |-> Stmt.var, max |-> Stmt.to,
                                       step |-> Stmt.step, home |-> line + 1])
            /\ GoOn(line + 1)
            /\ UNCHANGED <<data, out>>
       ELSE LET ends == {m \in line + 1..Len(linebase) : EndOfFor(m)}
            IN \/ \E m \in ends :
                    /\ Found(m, ends) /\ GoOn(m + 1)
                    /\ value' = [value EXCEPT ![Stmt.var] = Stmt.from]
                    /\ UNCHANGED <<loops, data, out>>
               \/ ends = {} /\ Fail

\* NEXT v ends the loop of v, NEXT alone the innermost.
cmdnext ==
  /\ Executing("NEXT")
  /\ LET own == {n \in Open("for") : Stmt.var \in {NoVar, loops[n].var}}
     IN \/ \E n \in 1..Len(loops) :
             LET r == loops[n]
                 v == value[r.var] + r.step
             IN /\ Matching(n, own)
                /\ value' = [value EXCEPT ![r.var] = v]
                /\ IF (r.step < 0 \/ v <= r.max) /\ (r.step > 0 \/ v >= r.max)
                     THEN loops' = Upto(n) /\ GoOn(r.home)
                     ELSE loops' = Upto(n - 1) /\ GoOn(line + 1)
                /\ UNCHANGED <<data, out>>
        \/ (\A n \in 1..Len(loops) : ~Matching(n, own)) /\ Fail

\* skiploop(tokwhile, tokwend)
EndOfWhile(m) ==
  Cardinality({n \in line + 1..m : linebase[n].op = "WHILE"})
    < Cardinality({n \in line + 1..m : linebase[n].op = "WEND"})

cmdwhile ==
  /\ Executing("WHILE")
  /\ IF Holds(Stmt.cond)
       THEN /\ loops' = Append(loops, [kind |-> "while", home |-> line])
            /\ GoOn(line + 1)
            /\ UNCHANGED <<value, data, out>>
       ELSE LET ends == {m \in line + 1..Len(linebase) : EndOfWhile(m)}
            IN \/ \E m \in ends : Found(m, ends) /\ GoOn(m + 1)
                                     /\ UNCHANGED <<value, loops, data, out>>
               \/ ends = {} /\ Fail

\* The condition of WEND, if any, ends the loop; then that of WHILE is evaluated
\* again.
cmdwend ==
  /\ Executing("WEND")
  /\ \/ \E n \in 1..Len(loops) :
          LET home == loops[n].home
          IN /\ Matching(n, Open("while"))
             /\ IF (Stmt.cond = NoCond \/ ~Holds(Stmt.cond)) /\ Holds(linebase[home].cond)
                  THEN loops' = Upto(n) /\ GoOn(home + 1)
                  ELSE loops' = Upto(n - 1) /\ GoOn(line + 1)
             /\ UNCHANGED <<value, data, out>>
     \/ (\A n \in 1..Len(loops) : ~Matching(n, Open("while"))) /\ Fail

--------------------------------------------------------------------------------
(* Jumps *)

cmdif ==
  /\ Executing("IF")
  /\ IF Holds(Stmt.cond) THEN GoTo(Stmt.line) ELSE GoOn(line + 1)
  /\ UNCHANGED <<value, loops, data, out>>

cmdgoto ==
  /\ Executing("GOTO")
  /\ GoTo(Stmt.line)
  /\ UNCHANGED <<value, loops, data, out>>

Called == Append(loops, [kind |-> "gosub", home |-> line])

cmdgosub ==
  /\ Executing("GOSUB")
  /\ loops' = Called
  /\ GoTo(Stmt.line)
  /\ UNCHANGED <<value, data, out>>

\* ON v GOTO lines, ON v GOSUB lines: with a v out of range it goes nowhere, but
\* the record of the GOSUB has been made.
cmdon ==
  /\ Executing("ON")
  /\ loops' = IF Stmt.gosub THEN Called ELSE loops
  /\ IF value[Stmt.var] \in 1..Len(Stmt.lines) THEN GoTo(Stmt.lines[value[Stmt.var]])
                                               ELSE GoOn(line + 1)
  /\ UNCHANGED <<value, data, out>>

\* Mutant: only the innermost record is dropped.
AfterReturn_Innermost(n) == Upto(Len(loops) - 1)

\* RETURN drops the loops that are open in the subroutine.
AfterReturn(n) == Upto(n - 1)

cmdreturn ==
  /\ Executing("RETURN")
  /\ \/ \E n \in 1..Len(loops) :
          /\ Matching(n, Open("gosub"))
          /\ loops' = AfterReturn(n) /\ GoOn(loops[n].home + 1)
          /\ UNCHANGED <<value, data, out>>
     \/ (\A n \in 1..Len(loops) : ~Matching(n, Open("gosub"))) /\ Fail

cmdend ==
  /\ Executing("END")
  /\ status' = "over"
  /\ UNCHANGED <<line, value, loops, data, out>>

--------------------------------------------------------------------------------
(* Data *)

\* Mutant: the item is not stepped over.
ItemAt_StaysOnLine(l, i) ==
  /\ l >= data.line /\ i = 1 /\ linebase[l].op = "DATA" /\ linebase[l].items # <<>>
  /\ \A m \in 1..l - 1 : linebase[m].op = "DATA" => linebase[m].items = <<>>

\* The next item: on the line of the pointer, if something was read from it and
\* not all, or at the beginning of the next DATA line that has one.
ItemAt(l, i) ==
  LET Has(m, j) ==
        m \in 1..Len(linebase) /\ linebase[m].op = "DATA" /\ j \in 1..Len(linebase[m].items)
      here == data.read > 0 /\ Has(data.line, data.read + 1)
      first == IF data.line = 0 THEN 1 ELSE IF data.read = 0 THEN data.line ELSE data.line + 1
  IN IF here THEN l = data.line /\ i = data.read + 1
     ELSE /\ i = 1 /\ l >= first /\ Has(l, 1)
          /\ \A m \in first..l - 1 : ~Has(m, 1)

cmdread ==
  /\ Executing("READ")
  /\ \/ \E l \in 1..Len(linebase) :
          \E i \in 1..(IF linebase[l].op = "DATA" THEN Len(linebase[l].items) ELSE 0) :
          /\ ItemAt(l, i)
          /\ value' = [value EXCEPT ![Stmt.var] = linebase[l].items[i]]
          /\ data' = [line |-> l, read |-> i]
          /\ GoOn(line + 1)
          /\ UNCHANGED <<loops, out>>
     \/ (\A l \in 1..Len(linebase) : \A i \in 1..(data.read + 1) : ~ItemAt(l, i)) /\ Fail

\* DATA is passed over.
cmddata ==
  /\ Executing("DATA")
  /\ GoOn(line + 1)
  /\ UNCHANGED <<value, loops, data, out>>

cmdrestore ==
  /\ Executing("RESTORE")
  /\ \/ /\ Stmt.line \in 0..Len(linebase)
        /\ data' = [line |-> Stmt.line, read |-> 0]
        /\ GoOn(line + 1)
        /\ UNCHANGED <<value, loops, out>>
     \/ Stmt.line \notin 0..Len(linebase) /\ Fail

cmdlet ==
  /\ Executing("LET")
  /\ value' = [value EXCEPT ![Stmt.var] = @ + Stmt.add]
  /\ GoOn(line + 1)
  /\ UNCHANGED <<loops, data, out>>

cmdpunch ==
  /\ Executing("PUNCH")
  /\ out' = Append(out, value[Stmt.var])
  /\ GoOn(line + 1)
  /\ UNCHANGED <<value, loops, data>>

--------------------------------------------------------------------------------
(* Runs *)

\* restoredata
RestoredData == [line |-> 0, read |-> 0]

\* basic_run up to cmdrun, which clears what a stopped run has left.
cmdrun ==
  /\ status = "idle" /\ runs < MaxRuns
  /\ status' = "running" /\ line' = 1
  /\ value' = Cleared /\ loops' = <<>> /\ data' = RestoredData
  /\ out' = <<>> /\ runs' = runs + 1
  /\ UNCHANGED linebase

\* The end of basic_run: "Cleanup after run".
Cleanup ==
  /\ status \in {"over", "error"}
  /\ status' = "idle" /\ line' = 0
  /\ value' = Cleared /\ loops' = <<>> /\ data' = RestoredData
  /\ UNCHANGED <<linebase, out, runs>>

\* PhreeqcStop out of a statement passes by the cleanup.
Stop ==
  /\ status = "running"
  /\ status' = "idle"
  /\ UNCHANGED <<linebase, line, value, loops, data, out, runs>>

NotRunYet ==
  /\ status = "idle" /\ line = 0 /\ value = Cleared /\ loops = <<>>
  /\ data = [line |-> 0, read |-> 0]
  /\ out = <<>> /\ runs = 0

BasicInit == linebase \in Programs /\ NotRunYet

Statement ==
  \/ cmdfor \/ cmdnext \/ cmdwhile \/ cmdwend
  \/ cmdif \/ cmdgoto \/ cmdgosub \/ cmdon \/ cmdreturn \/ cmdend
  \/ cmdread \/ cmddata \/ cmdrestore \/ cmdlet \/ cmdpunch

BasicNext == cmdrun \/ Statement \/ Cleanup \/ Stop

\* The interpreter goes on by itself once it is called.
BasicSpec == BasicInit /\ [][BasicNext]_basicVars /\ WF_basicVars(Statement \/ Cleanup)
===============================================================================
