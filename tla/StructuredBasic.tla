---------------------------- MODULE StructuredBasic ----------------------------
(***************************************************************************)
(* What a BASIC program made of nested blocks means, apart from how        *)
(* PBasic.cpp runs it line by line with a stack of loop records and scans  *)
(* over the text.  A block is a sequence of nodes; Lines writes it down as *)
(* a program, Meaning says what that program punches.  Programs that break *)
(* the block structure are added, each to end in the error of its kind.    *)
(***************************************************************************)
EXTENDS NestedBasic, SequencesExt

CONSTANTS
  Blocks,  \* the programs: a main block, a subroutine, and whether END ends it
  Items,   \* the DATA lines at the end of each program
  Broken   \* programs with a NEXT without FOR, a RETURN without GOSUB and so on

VARIABLE
  means    \* history: what the program should punch, and whether it should fail

--------------------------------------------------------------------------------
(* The program of a block *)

Loops     == {"for", "while"}
Enclosing == Loops \cup {"if"}

RECURSIVE Size(_)

\* The lines of a block.
Size(block) ==
  FoldLeft(LAMBDA n, node :
             n + (CASE node.kind \in Enclosing -> 2 + Size(node.body)
                    [] node.kind = "return unless" -> 2
                    [] OTHER -> 1),
           0, block)

RECURSIVE Lines(_, _, _, _)

\* A block whose first line is `at`, in a program whose subroutine is at `sub`; a
\* GOTO out of the loop around it goes to `past`.
Lines(block, at, sub, past) ==
  LET For(node) == [op |-> "FOR", var |-> node.var, from |-> node.from, to |-> node.to,
                    step |-> node.step]
      NextOf(node) == [op |-> "NEXT", var |-> IF node.named THEN node.var ELSE NoVar]
      Node(node, n) ==
        CASE node.kind \in Loops ->
               LET body == Lines(node.body, n + 1, sub, n + Size(<<node>>))
               IN IF node.kind = "for"
                    THEN <<For(node)>> \o body \o <<NextOf(node)>>
                    ELSE <<[op |-> "WHILE", cond |-> node.cond]>> \o body
                           \o <<[op |-> "WEND", cond |-> node.until]>>
          [] node.kind = "if" ->
               <<[op |-> "IF", cond |-> node.cond, line |-> n + 2],
                 [op |-> "GOTO", line |-> n + Size(<<node>>)]>>
                 \o Lines(node.body, n + 2, sub, past)
          [] node.kind = "return unless" ->
               <<[op |-> "IF", cond |-> node.cond, line |-> n + 2], [op |-> "RETURN"]>>
          [] node.kind = "leave if" -> <<[op |-> "IF", cond |-> node.cond, line |-> past]>>
          [] node.kind = "call" -> <<[op |-> "GOSUB", line |-> sub]>>
          [] node.kind = "on" ->
               <<[op |-> "ON", var |-> node.var, gosub |-> TRUE, lines |-> <<sub, sub>>]>>
          [] node.kind = "statement" -> <<node.line>>
  IN FoldLeft(LAMBDA lines, node : lines \o Node(node, at + Len(lines)), <<>>, block)

Program(p) ==
  LET sub == Size(p.main) + 2
      end == sub + Size(p.sub) + 1
  IN Lines(p.main, 1, sub, 0)
       \o <<IF p.ends THEN [op |-> "END"] ELSE [op |-> "GOTO", line |-> end]>>
       \o Lines(p.sub, sub, sub, 0) \o <<[op |-> "RETURN"]>>
       \o [i \in 1..Len(Items) |-> [op |-> "DATA", items |-> Items[i]]]

--------------------------------------------------------------------------------
(* Its meaning *)

\* jump: the loop or the subroutine is being left; left: the items still to be read.
Start == [value |-> Cleared, out |-> <<>>, left |-> FlattenSeq(Items), jump |-> "none"]

True(cond, env) == cond = NoCond \/ env.value[cond.var] < cond.limit

Set(env, v, to) == [env EXCEPT !.value[v] = to]

Basic(s, env) ==
  CASE s.op = "PUNCH" -> [env EXCEPT !.out = Append(@, env.value[s.var])]
    [] s.op = "LET" -> Set(env, s.var, env.value[s.var] + s.add)
    [] s.op = "RESTORE" -> [env EXCEPT !.left = Start.left]
    [] s.op = "READ" /\ env.left = <<>> -> [env EXCEPT !.jump = "failed"]
    [] s.op = "READ" /\ env.left # <<>> ->
         [Set(env, s.var, Head(env.left)) EXCEPT !.left = Tail(@)]

RECURSIVE Means(_, _, _), Repeats(_, _, _)

\* What the environment is after a block.
Means(block, env, sub) ==
  LET Call(e) == LET f == Means(sub, e, sub)
                 IN IF f.jump = "return" THEN [f EXCEPT !.jump = "none"] ELSE f
      Node(e, node) ==
        CASE e.jump # "none" -> e
          [] e.jump = "none" /\ node.kind \in Loops ->
               Repeats(node, IF node.kind = "for" THEN Set(e, node.var, node.from) ELSE e, sub)
          [] e.jump = "none" /\ node.kind \notin Loops ->
               CASE node.kind = "if" ->
                      IF True(node.cond, e) THEN Means(node.body, e, sub) ELSE e
                 [] node.kind = "return unless" ->
                      IF True(node.cond, e) THEN e ELSE [e EXCEPT !.jump = "return"]
                 [] node.kind = "leave if" ->
                      IF True(node.cond, e) THEN [e EXCEPT !.jump = "loop"] ELSE e
                 [] node.kind = "call" -> Call(e)
                 [] node.kind = "on" -> IF e.value[node.var] \in {1, 2} THEN Call(e) ELSE e
                 [] node.kind = "statement" -> Basic(node.line, e)
  IN FoldLeft(Node, env, block)

\* The rest of a loop.
Repeats(node, env, sub) ==
  LET enter == IF node.kind = "for"
                 THEN IF node.step < 0 THEN env.value[node.var] >= node.to
                                       ELSE env.value[node.var] <= node.to
                 ELSE True(node.cond, env)
      after == Means(node.body, env, sub)
  IN CASE ~enter -> env
       [] enter /\ after.jump = "loop" -> [after EXCEPT !.jump = "none"]
       [] enter /\ after.jump \in {"return", "failed"} -> after
       [] enter /\ after.jump = "none" ->
            IF node.kind = "for"
              THEN Repeats(node, Set(after, node.var, after.value[node.var] + node.step), sub)
              ELSE IF node.until # NoCond /\ True(node.until, after)
                     THEN after
                     ELSE Repeats(node, after, sub)

Meaning(p) ==
  LET env == Means(p.main, Start, p.sub) IN [out |-> env.out, fails |-> env.jump = "failed"]

ASSUME BlocksAssumption ==
  Programs = {Program(p) : p \in Blocks} \cup Broken

--------------------------------------------------------------------------------
(* The programs, run *)

ProgramInit ==
  /\ NotRunYet
  /\ \/ \E p \in Blocks : linebase = Program(p) /\ means = Meaning(p)
     \/ linebase \in Broken /\ means = [out |-> <<>>, fails |-> TRUE]

ProgramSpec ==
  /\ ProgramInit
  /\ [][BasicNext /\ UNCHANGED means]_<<basicVars, means>>
  /\ WF_basicVars(Statement \/ Cleanup)

--------------------------------------------------------------------------------
(* Properties *)

\* A program of nested blocks punches what its blocks mean, in every run, and ends in
\* an error exactly if it reads more data than there are or breaks the structure: the
\* scan for the NEXT or WEND of a loop that is not entered, the records that NEXT, WEND
\* and RETURN drop, the pointer into the data and what a stopped run has left never
\* show (cmdfor, skiploop, cmdnext, cmdwend, cmdreturn, cmdread, cmdrun).
RunsAsWritten ==
  status \in {"over", "error"} =>
    out = means.out /\ (status = "error" <=> means.fails)

\* A run ends, with every loop that a RETURN or a GOTO leaves behind on the stack.
RunEnds == status = "running" ~> status # "running"
===============================================================================
