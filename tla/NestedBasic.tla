------------------------------ MODULE NestedBasic ------------------------------
(***************************************************************************)
(* Programs of BasicControl whose loops lie within or behind one another.  *)
(* Where such a program goes follows from its text: no record of a FOR or  *)
(* WHILE is needed to say it, only the calls that are under way.           *)
(***************************************************************************)
EXTENDS BasicControl

Begins == {"FOR", "WHILE"}
Closes == {"NEXT", "WEND"}

Within(P, ops, first, last) == Cardinality({n \in first..last : P[n].op \in ops})

\* Lines of P where, counted from first, more loops are closed than begun.
ClosedAt(P, first, last) == Within(P, Begins, first, last) < Within(P, Closes, first, last)

\* The loops of P: the line that begins one, and the first line that closes it.
LoopsOf(P) ==
  {b \in [head : 1..Len(P), tail : 1..Len(P)] :
     /\ b.head < b.tail /\ P[b.head].op \in Begins
     /\ ClosedAt(P, b.head + 1, b.tail)
     /\ \A m \in b.head + 1..b.tail - 1 : ~ClosedAt(P, b.head + 1, m)}

\* The loops line l is in: its FOR or WHILE is outside, its NEXT or WEND inside.
Around(P, l) == {b \in LoopsOf(P) : b.head < l /\ l <= b.tail}

\* NEXT or WEND at a line takes the record of the loop at another for its own.
Takes(P, tail, head) ==
  \/ /\ P[tail].op = "NEXT" /\ P[head].op = "FOR"
     /\ P[tail].var \in {NoVar, P[head].var}
  \/ P[tail].op = "WEND" /\ P[head].op = "WHILE"

\* A jump from l to t leaves loops, but enters none, and the loops that are still
\* around do not end with a NEXT or WEND that takes what the others have left.
StaysWithin(P, l, t) ==
  /\ Around(P, t) \subseteq Around(P, l)
  /\ \A b \in Around(P, t), c \in Around(P, l) \ Around(P, t) : ~Takes(P, b.tail, c.head)

Targets(s) ==
  IF s.op \in {"IF", "GOTO", "GOSUB"} THEN {s.line}
  ELSE IF s.op = "ON" THEN {s.lines[i] : i \in 1..Len(s.lines)}
  ELSE {}

IsCall(s) == s.op = "GOSUB" \/ (s.op = "ON" /\ s.gosub)

\* Every FOR and WHILE has its end, and every NEXT and WEND its beginning; a subroutine
\* begins outside of all loops, and ON .. GOSUB, which may go nowhere, stands there.
\* cmdfor scans for a NEXT of the same variable and for one of another or none: a
\* loop within one of the same variable has to name it.
IsNested(P) ==
  /\ \A n \in 1..Len(P) :
       /\ P[n].op \in Begins => \E b \in LoopsOf(P) : b.head = n
       /\ P[n].op \in Closes => \E b \in LoopsOf(P) : b.tail = n
       /\ P[n].op = "ON" /\ P[n].gosub => Around(P, n) = {}
       /\ \A t \in Targets(P[n]) \cap (1..Len(P)) :
            IF IsCall(P[n]) THEN Around(P, t) = {} ELSE StaysWithin(P, n, t)
  /\ \A b \in LoopsOf(P) : Takes(P, b.tail, b.head)
  /\ \A b, c \in LoopsOf(P) :
       b.head < c.head =>
         \/ b.tail < c.head
         \/ /\ c.tail < b.tail
            /\ P[b.head].op = "FOR" /\ P[c.head].op = "FOR" /\ P[b.head].var = P[c.head].var
                 => P[c.tail].var # NoVar

NestedPrograms == {P \in Programs : IsNested(P)}

--------------------------------------------------------------------------------
(* What such a program does *)

\* The calls under way, each with the line it came from.
Calls == [p \in Open("gosub") |-> loops[p].home]

Again(b, again) == GoOn(IF again THEN b.head + 1 ELSE b.tail + 1)

\* FOR and WHILE begin a loop or pass to what is behind it, NEXT and WEND repeat it or
\* do: they never fail, and leave the calls alone.
LoopStep ==
  /\ \E b \in LoopsOf(linebase) :
       LET s == linebase[b.head]
           end == linebase[b.tail]
           v == value[s.var] + s.step
       IN \/ /\ line = b.head /\ s.op = "FOR"
             /\ value' = [value EXCEPT ![s.var] = s.from]
             /\ Again(b, ~Beyond(s.from, s.to, s.step))
          \/ /\ line = b.tail /\ s.op = "FOR"
             /\ value' = [value EXCEPT ![s.var] = v]
             /\ Again(b, (s.step < 0 \/ v <= s.to) /\ (s.step > 0 \/ v >= s.to))
          \/ /\ line = b.head /\ s.op = "WHILE"
             /\ UNCHANGED value
             /\ Again(b, Holds(s.cond))
          \/ /\ line = b.tail /\ s.op = "WHILE"
             /\ UNCHANGED value
             /\ Again(b, (end.cond = NoCond \/ ~Holds(end.cond)) /\ Holds(s.cond))
  /\ UNCHANGED Calls

\* A call is added to those under way.
CallStep ==
  \E p \in DOMAIN Calls' :
    /\ \A q \in DOMAIN Calls : q < p
    /\ Calls' = [q \in DOMAIN Calls \cup {p} |-> IF q = p THEN line ELSE Calls[q]]

\* RETURN ends the latest call and goes on behind it, and fails if there is none.
ReturnsFromCall ==
  IF DOMAIN Calls = {} THEN status' = "error"
  ELSE \E p \in DOMAIN Calls :
         /\ \A q \in DOMAIN Calls : q <= p
         /\ GoOn(Calls[p] + 1)
         /\ Calls' = [q \in DOMAIN Calls \ {p} |-> Calls[q]]

NestedStep ==
  /\ Stmt.op \in Begins \cup Closes => LoopStep
  /\ IsCall(Stmt) => CallStep
  /\ Stmt.op = "RETURN" => ReturnsFromCall
  /\ Stmt.op \notin Begins \cup Closes \cup {"RETURN"} /\ ~IsCall(Stmt) => UNCHANGED Calls

\* In a program of nested loops every FOR, NEXT, WHILE, WEND and RETURN goes where the
\* text says: the scan of a loop that is not entered stops at its own end, NEXT and WEND
\* find the record of their own loop, with its variable, limit and step, and RETURN the call
\* that is under way, whatever loops a RETURN or a GOTO has left and a NEXT or WEND has
\* dropped (cmdfor, cmdnext, skiploop, cmdwhile, cmdwend, cmdreturn).
RunsByBlocks ==
  [][status = "running" /\ status' # "idle" /\ linebase \in NestedPrograms => NestedStep]_basicVars
===============================================================================
