------------------------------ MODULE ReactantMap ------------------------------
(***************************************************************************)
(* What a user of the keywords sees of the reactants: numbered entries     *)
(* that change only when a block defines them, when their initial          *)
(* calculation is made, when the reaction of a simulation is complete,     *)
(* and when COPY or DELETE name them.  A reaction is one step here: it     *)
(* reads the entries in use and writes those to be saved.                  *)
(***************************************************************************)
EXTENDS Reactants

VARIABLE map     \* map[kind][number]

Define(k, n) ==
  /\ map'[k][n] \in Entries /\ map'[k][n].reacted = 0
  /\ map' = [map EXCEPT ![k][n] = map'[k][n]]

Calculate(k, n) ==
  /\ map[k][n] # Absent
  /\ map' = [map EXCEPT ![k][n] = Calculated(@)]

\* The entries of kind k after a reaction of so many steps.  SAVE stores the
\* reacted entry under every number of its range; kinetic reactants are always
\* written back.  SAVE of a kind that is not in use only copies the first
\* number of its range to the others.
AfterReaction(k, use, save, steps) ==
  LET result == Reacted(map[k][use[k]], steps)
      range  == {n \in Numbers : save[k][1] <= n /\ n <= save[k][2]}
  IN CASE k = "kinetics" -> IF use[k] = None THEN map[k]
                              ELSE [map[k] EXCEPT ![use[k]] = result]
       [] k # "kinetics" /\ save[k] = None2 -> map[k]
       [] k # "kinetics" /\ save[k] # None2 /\ use[k] # None ->
            [n \in Numbers |-> IF n \in range THEN result ELSE map[k][n]]
       [] OTHER -> Copied(map[k], save[k][1], range)

React(use, save, steps) ==
  /\ use["solution"] # None
  /\ AllFound(map, use)
  /\ map' = [k \in Kinds |-> AfterReaction(k, use, save, steps)]

Copy(k, n, targets) == map' = [map EXCEPT ![k] = Copied(@, n, targets)]

Delete(deleted) ==
  map' = [k \in Kinds |-> [n \in Numbers |->
            IF n \in deleted[k] THEN Absent ELSE map[k][n]]]

Init == map \in [Kinds -> [Numbers -> Entries \cup {Absent}]]

Next ==
  \/ \E k \in Kinds, n \in Numbers : Define(k, n) \/ Calculate(k, n)
  \/ \E k \in Kinds, n \in Numbers, targets \in SUBSET Numbers : Copy(k, n, targets)
  \/ \E deleted \in [Kinds -> SUBSET Numbers] : Delete(deleted)
  \/ \E use \in [Kinds -> Numbers \cup {None}],
        save \in [Saved -> Ranges \cup {None2}], steps \in 1..MaxSteps :
       React(use, save, steps)

Spec == Init /\ [][Next]_map
===============================================================================
