----------------------------- MODULE InverseSearch -----------------------------
(***************************************************************************)
(* The search of inverse modelling for mass-balance models (solve_inverse, *)
(* minimal_solve and next_set_phases of src/src/phreeqcpp/inverse.cpp).    *)
(* It goes through the sets of columns, initial solutions and phases, from *)
(* the largest down, lets the solver cl1 decide each set that what it has  *)
(* learnt so far leaves open, and reduces what cl1 finds to a minimal      *)
(* model.                                                                  *)
(*                                                                         *)
(* A word of bits is the set of the positions of its ones: phases at       *)
(* 0..NPhases-1, solutions above them, the final solution topmost.  The    *)
(* masks are of type unsigned long, but a one is shifted as an int.        *)
(*                                                                         *)
(* The linear program is replaced by the models it has: cl1 finds a model  *)
(* for a set of columns exactly if one needs no other column, any one of   *)
(* those.  The final solution is a column of every model (its fraction is  *)
(* fixed to 1).                                                            *)
(***************************************************************************)
EXTENDS Integers, Sequences

CONSTANTS
  NSolns,    \* inv_ptr->count_solns
  NPhases,   \* inv_ptr->phases.size()
  IntBits,   \* bits of an int, and the most columns a search may have: 32
  LongBits,  \* bits of an unsigned long: 64
  ModelSets  \* the sets of models to search

Final   == NPhases + NSolns - 1
Columns == 0..Final

ASSUME SearchAssumption ==
  /\ NSolns \in Nat \ {0} /\ NPhases \in Nat \ {0}
  /\ IntBits \in Nat \ {0} /\ LongBits \in Nat /\ IntBits < LongBits
  /\ \A M \in ModelSets : \A m \in M : m \subseteq Columns /\ Final \in m

VARIABLES
  models,       \* the models of the linear program
  onlyMinimal,  \* inv_ptr->minimal
  pc,           \* the step of the search
  soln_bits,    \* the solutions, the final one topmost
  model_size,   \* phases in the sets of this round
  now,          \* the phases of the current set; <<>> before the first
  first_of_model_size,
  quit,         \* has no set of this round needed a look?
  first,        \* has no set been feasible yet?
  minimal_bits, \* what minimal_solve has reduced the model to
  position,     \* the column minimal_solve looks at
  good, bad, minimal \* the lists of the search

loopVars == <<soln_bits, model_size, now, first_of_model_size, quit, first>>
listVars == <<good, bad, minimal>>
vars == <<models, onlyMinimal, pc, loopVars, minimal_bits, position, listVars>>

Words == SUBSET (0..(LongBits - 1))
Pcs   == {"begin", "size", "sets", "visit", "minimal", "done", "stopped"}

TypeOK ==
  /\ \A m \in models : m \subseteq Columns /\ Final \in m
  /\ onlyMinimal \in BOOLEAN
  /\ pc \in Pcs
  /\ soln_bits \subseteq 0..(NSolns - 1)
  /\ model_size \in 0..NPhases
  /\ now \in Seq(0..(NPhases - 1))
  /\ first_of_model_size \in BOOLEAN /\ quit \in BOOLEAN /\ first \in BOOLEAN
  /\ minimal_bits \in Words /\ position \in Columns
  /\ good \in Seq(Words) /\ bad \in Seq(Words) /\ minimal \in Seq(Words)

--------------------------------------------------------------------------------
(* Words of bits *)

\* 1 << p, an int that becomes an unsigned long: its top bit is the sign.
One(p) == IF p = IntBits - 1 THEN p..(LongBits - 1) ELSE {p}

\* set_bit(bits, p, 0) for every p of off, set_bit(bits, p, 1) for every p of on
Cleared(bits, off) == bits \ UNION {One(p) : p \in off}
WithBits(bits, on) == bits \cup UNION {One(p) : p \in on}

Members(list) == {list[j] : j \in DOMAIN list}

\* Mutant: a minimal model is no superset of itself.
superset_minimal_Strict(bits) ==
  \E m \in Members(minimal) : m \subseteq bits /\ m # bits

superset_minimal(bits) == \E m \in Members(minimal) : m \subseteq bits

subset_minimal(bits) == \E m \in Members(minimal) : bits \subseteq m

subset_bad(bits) == \E b \in Members(bad) : bits \subseteq b

\* A member is saved once, models that are found again are not printed again.
SaveGood(bits) == good' = IF bits \in Members(good) THEN good ELSE Append(good, bits)

--------------------------------------------------------------------------------
(* The sets of columns *)

\* The solutions of soln_bits, above the phases
Solutions == {NPhases + i : i \in soln_bits}

\* word - 1, of a word that is not 0: the lowest one becomes a zero, the zeros
\* below it ones.
Decremented(word) == {i \in 0..(NSolns - 1) : i \in word <=> \E j \in word : j < i}

phase_bits   == {now[q] : q \in DOMAIN now}
current_bits == Solutions \cup phase_bits

\* Mutant: off by one.
max_position_OneLess(q) == NPhases - model_size + q - 2

max_position(q) == NPhases - model_size + q - 1

\* The places of now that can still move up
Movable == {q \in 1..model_size : now[q] < max_position(q)}

\* next_set_phases after the first set of a size: the last place that can moves
\* up by one, and those behind it follow it closely.
NextCombination ==
  \E i \in Movable :
    /\ \A q \in Movable : q <= i
    /\ now' = [q \in 1..model_size |-> IF q < i THEN now[q] ELSE now[i] + 1 + (q - i)]

\* Are there initial solutions in these bits of soln_bits?
HasInitial(word) == word \ {NSolns - 1} # {}

\* The models for which these columns suffice
ModelsIn(bits) == {m \in models : m \subseteq bits}

--------------------------------------------------------------------------------
(* The search *)

\* The head of solve_inverse.  Too many columns, or a solution that cannot be
\* balanced within its uncertainty, and it stops.
Begin ==
  /\ pc = "begin"
  /\ \/ /\ NSolns + NPhases <= IntBits
        /\ soln_bits' = 0..(NSolns - 1)
        /\ pc' = IF HasInitial(soln_bits') THEN "size" ELSE "done"
     \/ pc' = "stopped" /\ UNCHANGED soln_bits
  /\ UNCHANGED <<models, onlyMinimal, model_size, now, first_of_model_size, quit, first>>
  /\ UNCHANGED <<minimal_bits, position, listVars>>

BeginSize ==
  /\ pc = "size"
  /\ first_of_model_size' = TRUE /\ quit' = TRUE
  /\ pc' = "sets"
  /\ UNCHANGED <<models, onlyMinimal, soln_bits, model_size, now, first>>
  /\ UNCHANGED <<minimal_bits, position, listVars>>

\* Mutant: a size starts over and over.
NextSet_StaysFirst ==
  /\ pc = "sets"
  /\ \/ first_of_model_size /\ now' = [q \in 1..model_size |-> q - 1]
     \/ ~first_of_model_size /\ NextCombination
  /\ pc' = "visit"
  /\ UNCHANGED <<models, onlyMinimal, soln_bits, model_size, first_of_model_size, quit, first>>
  /\ UNCHANGED <<minimal_bits, position, listVars>>

NextSet ==
  /\ pc = "sets"
  /\ \/ first_of_model_size /\ now' = [q \in 1..model_size |-> q - 1]
     \/ ~first_of_model_size /\ NextCombination
  /\ first_of_model_size' = FALSE
  /\ pc' = "visit"
  /\ UNCHANGED <<models, onlyMinimal, soln_bits, model_size, quit, first>>
  /\ UNCHANGED <<minimal_bits, position, listVars>>

\* Mutant: no size is the last one.
LeaveSize_BelowZero(nothingNew) ==
  /\ now' = <<>>
  /\ IF nothingNew
       THEN /\ soln_bits' = Decremented(soln_bits)
            /\ model_size' = NPhases
            /\ pc' = IF HasInitial(soln_bits') THEN "size" ELSE "done"
       ELSE /\ model_size' = model_size - 1
            /\ pc' = "size"
            /\ UNCHANGED soln_bits

\* The loops over sizes and solutions go on, sizes only if some set of this one
\* needed a look.
LeaveSize(nothingNew) ==
  /\ now' = <<>>
  /\ IF nothingNew \/ model_size = 0
       THEN /\ soln_bits' = Decremented(soln_bits)
            /\ model_size' = NPhases
            /\ pc' = IF HasInitial(soln_bits') THEN "size" ELSE "done"
       ELSE /\ model_size' = model_size - 1
            /\ pc' = "size"
            /\ UNCHANGED soln_bits

EndOfSize ==
  /\ pc = "sets"
  /\ ~first_of_model_size /\ Movable = {}
  /\ LeaveSize(quit)
  /\ UNCHANGED <<models, onlyMinimal, first_of_model_size, quit, first>>
  /\ UNCHANGED <<minimal_bits, position, listVars>>

Known    == subset_bad(current_bits) \/ subset_minimal(current_bits)
Unwanted == onlyMinimal /\ superset_minimal(current_bits)

SkipKnown ==
  /\ pc = "visit" /\ Known
  /\ pc' = "sets"
  /\ UNCHANGED <<models, onlyMinimal, loopVars, minimal_bits, position, listVars>>

SkipUnwanted ==
  /\ pc = "visit" /\ ~Known /\ Unwanted
  /\ quit' = FALSE
  /\ pc' = "sets"
  /\ UNCHANGED <<models, onlyMinimal, soln_bits, model_size, now>>
  /\ UNCHANGED <<first_of_model_size, first, minimal_bits, position, listVars>>

\* cl1 finds no model.  If not even the first set has one, post_mortem.
SolveFails ==
  /\ pc = "visit" /\ ~Known /\ ~Unwanted
  /\ ModelsIn(current_bits) = {}
  /\ bad' = Append(bad, current_bits)
  /\ quit' = first
  /\ IF first THEN LeaveSize(TRUE)
     ELSE pc' = "sets" /\ UNCHANGED <<soln_bits, model_size, now>>
  /\ UNCHANGED <<models, onlyMinimal, first_of_model_size, first>>
  /\ UNCHANGED <<minimal_bits, position, good, minimal>>

\* cl1 finds a model, which is printed unless only minimal ones are wanted.
SolveSucceeds ==
  /\ pc = "visit" /\ ~Known /\ ~Unwanted
  /\ \E model \in ModelsIn(current_bits) :
       LET good_bits == Cleared(current_bits, Columns \ model) IN
         /\ IF onlyMinimal THEN UNCHANGED good ELSE SaveGood(good_bits)
         /\ minimal_bits' = good_bits
         /\ pc' = IF superset_minimal(good_bits) THEN "sets" ELSE "minimal"
  /\ position' = 0
  /\ quit' = FALSE /\ first' = FALSE
  /\ UNCHANGED <<models, onlyMinimal, soln_bits, model_size, now, first_of_model_size>>
  /\ UNCHANGED <<bad, minimal>>

\* minimal_solve tries to do without each column but the final solution.
TryWithout ==
  /\ pc = "minimal" /\ position < Final
  /\ LET without == minimal_bits \ {position} IN
       \/ position \notin minimal_bits /\ UNCHANGED <<minimal_bits, bad>>
       \/ /\ position \in minimal_bits /\ subset_bad(without)
          /\ UNCHANGED <<minimal_bits, bad>>
       \/ /\ position \in minimal_bits /\ ~subset_bad(without)
          /\ ModelsIn(without) = {}
          /\ bad' = Append(bad, without)
          /\ UNCHANGED minimal_bits
       \/ /\ position \in minimal_bits /\ ~subset_bad(without)
          /\ ModelsIn(without) # {}
          /\ minimal_bits' = without
          /\ UNCHANGED bad
  /\ position' = position + 1
  /\ UNCHANGED <<models, onlyMinimal, pc, loopVars, good, minimal>>

\* It solves once more and takes the columns of that model for the minimal one.
SaveMinimal ==
  /\ pc = "minimal" /\ position = Final
  /\ \E model \in ModelsIn(minimal_bits) :
       LET actual_bits == WithBits({}, model) IN
         /\ minimal_bits' = actual_bits
         /\ SaveGood(actual_bits)
         /\ minimal' = Append(minimal, actual_bits)
  /\ pc' = "sets"
  /\ UNCHANGED <<models, onlyMinimal, loopVars, position, bad>>

\* "Exceeded maximum iterations in inverse modeling"
Stop ==
  /\ pc \in {"visit", "minimal"}
  /\ pc' = "stopped"
  /\ UNCHANGED <<models, onlyMinimal, loopVars, minimal_bits, position, listVars>>

--------------------------------------------------------------------------------
(* The specification *)

Init ==
  /\ models \in ModelSets /\ onlyMinimal \in BOOLEAN
  /\ pc = "begin"
  /\ soln_bits = {} /\ model_size = NPhases /\ now = <<>>
  /\ first_of_model_size = TRUE /\ quit = TRUE /\ first = TRUE
  /\ minimal_bits = {} /\ position = 0
  /\ good = <<>> /\ bad = <<>> /\ minimal = <<>>

Next ==
  \/ Begin \/ BeginSize \/ NextSet \/ EndOfSize
  \/ SkipKnown \/ SkipUnwanted \/ SolveFails \/ SolveSucceeds
  \/ TryWithout \/ SaveMinimal \/ Stop

Spec == Init /\ [][Next]_vars

\* The search is a loop of one thread.
FairSpec == Spec /\ WF_vars(Next)

--------------------------------------------------------------------------------
(* Properties *)

\* The models that contain no other model
Minimal == {m \in models : \A n \in models : n \subseteq m => n = m}

\* The sets of "no feasible solution" that prune the search have none, and what
\* minimal_solve keeps is always enough for a model, never a superset of a
\* minimal model found before ("minimal_bits cannot be superset of a minimal
\* model", inverse.cpp:1292).
PruningSound ==
  /\ \A b \in Members(bad) : ModelsIn(b) = {}
  /\ pc = "minimal" => ModelsIn(minimal_bits) # {} /\ ~superset_minimal(minimal_bits)

\* "Model contains minimum number of phases": a model the search calls minimal
\* is one, no column of it can be spared; and every model it prints is a model.
MinimalIsMinimal ==
  /\ Members(minimal) \subseteq Minimal
  /\ Members(good) \subseteq models
  /\ onlyMinimal => Members(good) \subseteq Minimal

\* "Determine if model is new" (inverse.cpp:1137): no model is printed twice, and
\* no model is counted as minimal twice.
ModelsOnce ==
  \A list \in {good, minimal} : \A i, j \in DOMAIN list :
    list[i] \cap Columns = list[j] \cap Columns => i = j

\* "Exhaustively search for mass-balance models": whatever it prunes and
\* wherever it quits, a search that is done has found every minimal model with
\* an initial solution.
AllMinimalFound ==
  pc = "done" =>
    \A m \in Minimal : (\E i \in 0..(NSolns - 2) : NPhases + i \in m)
                         => m \in Members(minimal) /\ m \in Members(good)

\* A search ends.
SearchEnds == <>(pc \in {"done", "stopped"})

================================================================================
