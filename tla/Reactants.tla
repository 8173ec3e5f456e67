------------------------------- MODULE Reactants -------------------------------
(***************************************************************************)
(* The reactants of the engine: what Rxn_solution_map, Rxn_exchange_map,   *)
(* Rxn_kinetics_map and the other maps of Phreeqc.h hold under a number    *)
(* of the user.  A composition is abstracted to the simulation that        *)
(* defined it and to how often a reaction step has been applied to it.     *)
(***************************************************************************)
EXTENDS Integers

CONSTANTS
  Assemblages,    \* kinds that react with a solution: part of {"pp_assemblage",
                  \* "exchange", "surface", "gas_phase", "ss_assemblage"}
  Numbers,        \* numbers a user gives: an interval of Nat
  MaxSteps        \* bound: reaction steps of one simulation

ASSUME ReactantsAssumption ==
  /\ Assemblages \subseteq {"pp_assemblage", "exchange", "surface", "gas_phase",
                            "ss_assemblage"}
  /\ Numbers \subseteq Nat /\ \E first, last \in Numbers : Numbers = first..last
  /\ MaxSteps \in Nat \ {0}

Saved == {"solution"} \cup Assemblages  \* the kinds SAVE knows
Kinds == Saved \cup {"kinetics"}

None   == -9     \* no number: the kind is not in use, or not to be saved
Absent == [definedBy |-> None]

\* new: Get_new_def(), the initial calculation is still to be made.
Entries == [definedBy : Nat, new : BOOLEAN, reacted : Nat]

\* An entry after further reaction steps, as the x*_save functions store it.
Reacted(entry, steps) ==
  [definedBy |-> entry.definedBy, new |-> FALSE, reacted |-> entry.reacted + steps]

Calculated(entry) == [entry EXCEPT !.new = FALSE]

\* A range of numbers n-m.
Ranges == {r \in Numbers \X Numbers : r[1] <= r[2]}
None2  == <<None, None>>

\* Utilities::Rxn_copy: entry i of a map also under the numbers in targets.
Copied(entries, i, targets) ==
  [n \in DOMAIN entries |->
     IF n \in targets /\ entries[i] # Absent THEN entries[i] ELSE entries[n]]

\* Utilities::Rxn_find for every kind in use.
AllFound(entries, use) ==
  \A k \in Kinds : use[k] # None => entries[k][use[k]] # Absent
===============================================================================
