-------------------------------- MODULE MCBasic --------------------------------
(* BasicControl and StructuredBasic for TLC: programs of two nested blocks and a  *)
(* subroutine, two variables, three lists of data, and programs whose structure   *)
(* is broken.                                                                    *)
EXTENDS StructuredBasic

MCVars  == {"I", "J"}
MCItems == <<<<>>, <<0>>, <<3, 2>>>>

Line(s) == [kind |-> "statement", line |-> s]
Punch(v) == Line([op |-> "PUNCH", var |-> v])
Inc  == Line([op |-> "LET", var |-> "J", add |-> 1])
ReadJ == Line([op |-> "READ", var |-> "J"])
Restore == Line([op |-> "RESTORE", line |-> 0])
Call == [kind |-> "call"]
For(v, r, named, body) ==
  [kind |-> "for", var |-> v, from |-> r[1], to |-> r[2], step |-> r[3], named |-> named,
   body |-> body]
Below(v, n) == [var |-> v, limit |-> n]
While(c, u, body) == [kind |-> "while", cond |-> c, until |-> u, body |-> body]
Unless(c) == [kind |-> "return unless", cond |-> c]
LeaveIf(c) == [kind |-> "leave if", cond |-> c]
If(c, body) == [kind |-> "if", cond |-> c, body |-> body]
On(v) == [kind |-> "on", var |-> v]

\* Not entered, counted up, counted down.
Ranges == {<<1, 0, 1>>, <<1, 2, 1>>, <<2, 1, -1>>}

Inner ==
  {For("J", r, named, <<Punch("J")>>) : r \in Ranges, named \in BOOLEAN}
    \cup {For("J", <<1, 3, 1>>, FALSE, <<LeaveIf(Below("I", 2)), Punch("J")>>),
          While(Below("J", 2), NoCond, <<Inc, Call, Punch("J")>>),
          While(NoCond, Below("I", 3), <<Punch("J"), LeaveIf(Below("J", 1))>>),
          While(Below("J", 2), NoCond, <<ReadJ>>),
          If(Below("J", 1), <<Punch("J")>>), Call, ReadJ, Restore}

\* A GOTO out of an inner loop goes with a NEXT that names its variable.
Leaves(node) == node.kind \in Loops /\ \E i \in 1..Len(node.body) : node.body[i].kind = "leave if"

\* Inside a loop ON finds its variable in range.
Outer == Inner \cup {On("I")}

Mains ==
  {<<For("I", r, TRUE, <<a, b>>), Punch("I"), Inc>> :
     r \in Ranges, a \in Outer, b \in Inner}
    \cup {<<For("I", r, FALSE, <<a, ReadJ>>), Punch("I"), ReadJ>> :
            r \in Ranges, a \in {x \in Outer : ~Leaves(x)}}
    \cup {<<For("I", r, FALSE, <<On("I")>>), On("I"), Punch("J")>> : r \in Ranges}
    \cup {<<While(Below("J", 3), NoCond, <<a, Inc>>), b>> :
            a \in {x \in Inner : x.kind # "for"} \ {Restore}, b \in {ReadJ, Call}}

InFor   == <<For("J", <<1, 3, 1>>, FALSE, <<Unless(Below("J", 2)), Punch("J")>>)>>
InWhile == <<While(Below("J", 3), NoCond, <<Inc, Unless(Below("J", 2))>>), Punch("J")>>

MCBlocks ==
  [main : Mains, sub : {InFor}, ends : {TRUE}] \cup [main : Mains, sub : {InWhile}, ends : {FALSE}]

ForI(from) == [op |-> "FOR", var |-> "I", from |-> from, to |-> 1, step |-> 1]
NextI == [op |-> "NEXT", var |-> "I"]
NextJ == [op |-> "NEXT", var |-> "J"]
Gosub(n) == [op |-> "GOSUB", line |-> n]
Return == [op |-> "RETURN"]
Wend == [op |-> "WEND", cond |-> NoCond]

MCBroken ==
  {<<NextI>>, <<Return>>, <<Wend>>,
   <<ForI(2)>>, <<ForI(2), [ForI(1) EXCEPT !.var = "J"], NextJ>>,
   <<[op |-> "WHILE", cond |-> Below("I", 0)]>>,
   \* the loop was opened by the caller
   <<ForI(1), Gosub(4), NextI, NextI, Return>>,
   <<[op |-> "WHILE", cond |-> NoCond], Gosub(3), Wend>>,
   <<Gosub(9)>>, <<[op |-> "GOTO", line |-> 9]>>, <<[op |-> "RESTORE", line |-> 9]>>,
   <<ForI(1), [op |-> "ON", var |-> "I", gosub |-> FALSE, lines |-> <<9>>]>>,
   <<[op |-> "IF", cond |-> NoCond, line |-> 9]>>,
   <<[op |-> "READ", var |-> "I"]>>}

MCPrograms == {Program(p) : p \in MCBlocks} \cup MCBroken
====
