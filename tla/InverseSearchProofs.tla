-------------------------- MODULE InverseSearchProofs --------------------------
(* What the search of InverseSearch gets right for every number of solutions   *)
(* and phases and whatever cl1 finds: its types, the soundness of its pruning, *)
(* and, if a column is left below the width of an int, that a minimal model is *)
(* minimal, that no model is found twice and that no minimal one is missed;    *)
(* and that no search goes on for ever.                                        *)
EXTENDS InverseSearch, SequenceTheorems, FiniteSetTheorems, WellFoundedInduction, TLAPS

\* The place of every phase of the current set is known.
NowIsASet ==
  pc \in {"visit", "minimal"} \/ (pc = "sets" /\ ~first_of_model_size) =>
    DOMAIN now = 1..model_size

\* A search that has begun has columns for the bits of an int.
Fits == pc \in Pcs \ {"begin", "stopped"} => NSolns + NPhases <= IntBits

\* minimal_solve has only columns, and none that it looked at can be spared.
Tried ==
  pc = "minimal" =>
    /\ minimal_bits \subseteq Columns
    /\ \A p \in minimal_bits : p < position => ModelsIn(minimal_bits \ {p}) = {}

Typed == TypeOK /\ NowIsASet /\ Fits
Sound == Typed /\ PruningSound
Exact == Sound /\ Tried /\ MinimalIsMinimal /\ ModelsOnce

--------------------------------------------------------------------------------
(* Words and lists *)

LEMMA SizesTyped ==
  /\ NSolns \in Nat \ {0} /\ NPhases \in Nat \ {0}
  /\ IntBits \in Nat \ {0} /\ LongBits \in Nat /\ IntBits < LongBits
  /\ Final = NPhases + NSolns - 1 /\ Final \in Nat /\ NPhases - 1 \in Nat
  /\ Columns = 0..Final
BY SearchAssumption DEF Final, Columns

LEMMA AppendMembers ==
  ASSUME NEW S, NEW list \in Seq(S), NEW e \in S
  PROVE  /\ Append(list, e) \in Seq(S)
         /\ DOMAIN Append(list, e) = 1..(Len(list) + 1)
         /\ DOMAIN list = 1..Len(list) /\ Len(list) \in Nat
         /\ \A j \in 1..Len(list) : Append(list, e)[j] = list[j]
         /\ Append(list, e)[Len(list) + 1] = e
         /\ Members(Append(list, e)) = Members(list) \cup {e}
<1>1. /\ Append(list, e) \in Seq(S)
      /\ DOMAIN Append(list, e) = 1..(Len(list) + 1)
      /\ DOMAIN list = 1..Len(list) /\ Len(list) \in Nat
      /\ \A j \in 1..Len(list) : Append(list, e)[j] = list[j]
      /\ Append(list, e)[Len(list) + 1] = e
  OBVIOUS
<1>2. Members(Append(list, e)) = Members(list) \cup {e}
  BY <1>1 DEF Members
<1> QED
  BY <1>1, <1>2

\* A column that is not the top bit of an int is one bit of a word.
LEMMA OneBit ==
  ASSUME NEW p \in Columns, p < IntBits - 1
  PROVE  One(p) = {p}
BY SizesTyped DEF One

LEMMA BitsOfAWord ==
  ASSUME NEW p \in Columns, NSolns + NPhases <= IntBits
  PROVE  One(p) \in Words /\ Columns \subseteq 0..(LongBits - 1)
BY SizesTyped DEF One, Words

\* The current set consists of columns.
LEMMA CurrentIsColumns ==
  ASSUME Typed, pc = "visit"
  PROVE  current_bits \subseteq Columns
<1>1. phase_bits \subseteq Columns
  BY SizesTyped DEF Typed, TypeOK, NowIsASet, phase_bits
<1>2. Solutions \subseteq Columns
  BY SizesTyped DEF Typed, TypeOK, Solutions
<1> QED
  BY <1>1, <1>2 DEF current_bits

\* Clearing the columns a model does not need leaves it the others.
LEMMA ClearedKeepsModel ==
  ASSUME NSolns + NPhases <= IntBits,
         NEW bits \in SUBSET Columns, NEW m \in SUBSET bits, Final \in m
  PROVE  Cleared(bits, Columns \ m) = m
<1>1. \A p \in Columns \ m : One(p) = {p}
  <2> SUFFICES ASSUME NEW p \in Columns \ m PROVE One(p) = {p}
    OBVIOUS
  <2>1. p # Final
    OBVIOUS
  <2> QED
    BY <2>1, OneBit, SizesTyped
<1>2. UNION {One(p) : p \in Columns \ m} = Columns \ m
  BY <1>1
<1> QED
  BY <1>2 DEF Cleared

LEMMA WithBitsOfModel ==
  ASSUME NSolns + NPhases <= IntBits, NEW m \in SUBSET Columns
  PROVE  /\ WithBits({}, m) \in Words
         /\ NSolns + NPhases < IntBits => WithBits({}, m) = m
<1>1. WithBits({}, m) = UNION {One(p) : p \in m}
  BY DEF WithBits
<1>2. \A p \in m : One(p) \in Words
  BY BitsOfAWord
<1>3. NSolns + NPhases < IntBits => \A p \in m : One(p) = {p}
  BY OneBit, SizesTyped
<1>4. NSolns + NPhases < IntBits => UNION {One(p) : p \in m} = m
  BY <1>3
<1> QED
  BY <1>1, <1>2, <1>4 DEF Words

LEMMA FunctionIsSequence ==
  ASSUME NEW n \in Nat, NEW S, NEW f \in [1..n -> S]
  PROVE  f \in Seq(S) /\ DOMAIN f = 1..n
BY SeqDef

LEMMA FewerModels ==
  ASSUME NEW s, NEW t, s \subseteq t
  PROVE  ModelsIn(s) \subseteq ModelsIn(t)
BY DEF ModelsIn

--------------------------------------------------------------------------------
(* Types *)

LEMMA TypedInit == Init => Typed
BY SizesTyped, SearchAssumption
   DEF Init, Typed, TypeOK, NowIsASet, Fits, Pcs, Words

LEMMA ListsTyped ==
  ASSUME Typed, NEW e \in Words
  PROVE  /\ Append(good, e) \in Seq(Words)
         /\ Append(bad, e) \in Seq(Words)
         /\ Append(minimal, e) \in Seq(Words)
<1>1. good \in Seq(Words) /\ bad \in Seq(Words) /\ minimal \in Seq(Words)
  BY DEF Typed, TypeOK
<1> QED
  BY <1>1

LEMMA LeaveSizeTyped ==
  ASSUME Typed, pc \in {"sets", "visit"}, NEW n \in BOOLEAN, LeaveSize(n)
  PROVE  /\ soln_bits' \subseteq 0..(NSolns - 1)
         /\ model_size' \in 0..NPhases
         /\ now' \in Seq(0..(NPhases - 1))
         /\ pc' \in {"size", "done"}
<1>1. now' \in Seq(0..(NPhases - 1))
  BY DEF LeaveSize
<1>2. CASE n \/ model_size = 0
  BY <1>1, <1>2, SizesTyped DEF LeaveSize, Decremented, Typed, TypeOK
<1>3. CASE ~(n \/ model_size = 0)
  <2>1. model_size' = model_size - 1 /\ pc' = "size" /\ soln_bits' = soln_bits
    BY <1>3 DEF LeaveSize
  <2>2. model_size \in 0..NPhases /\ model_size # 0 /\ soln_bits \subseteq 0..(NSolns - 1)
    BY <1>3 DEF Typed, TypeOK
  <2> QED
    BY <1>1, <2>1, <2>2, SizesTyped
<1> QED
  BY <1>2, <1>3

LEMMA CombinationTyped ==
  ASSUME Typed, pc = "sets", ~first_of_model_size, NextCombination
  PROVE  now' \in Seq(0..(NPhases - 1)) /\ DOMAIN now' = 1..model_size
<1>1. PICK i \in Movable :
        now' = [q \in 1..model_size |-> IF q < i THEN now[q] ELSE now[i] + 1 + (q - i)]
  BY DEF NextCombination
<1>2. /\ model_size \in 0..NPhases /\ DOMAIN now = 1..model_size
      /\ \A q \in 1..model_size : now[q] \in 0..(NPhases - 1)
  <2>1. model_size \in 0..NPhases /\ DOMAIN now = 1..model_size
    BY DEF Typed, TypeOK, NowIsASet
  <2>2. now \in Seq(0..(NPhases - 1))
    BY DEF Typed, TypeOK
  <2>3. now \in [DOMAIN now -> 0..(NPhases - 1)]
    BY <2>2, LenProperties
  <2> QED
    BY <2>1, <2>3
<1>3. i \in 1..model_size /\ now[i] < NPhases - model_size + i - 1
  BY <1>1 DEF Movable, max_position
<1>4. \A q \in 1..model_size : now'[q] \in 0..(NPhases - 1)
  <2> TAKE q \in 1..model_size
  <2>1. CASE q < i
    BY <1>1, <1>2, <2>1
  <2>2. CASE ~(q < i)
    <3>1. now'[q] = now[i] + 1 + (q - i)
      BY <1>1, <2>2
    <3>2. now[i] \in 0..(NPhases - 1) /\ model_size \in Nat /\ i \in Nat /\ NPhases \in Nat
      BY <1>2, <1>3, SizesTyped
    <3> QED
      BY <1>3, <2>2, <3>1, <3>2, SMTT(30)
  <2> QED
    BY <2>1, <2>2
<1>5. now' \in [1..model_size -> 0..(NPhases - 1)]
  BY <1>1, <1>4
<1> QED
  BY <1>2, <1>5, FunctionIsSequence, SizesTyped

LEMMA TypedNext == Typed /\ [Next]_vars => Typed'
<1> SUFFICES ASSUME Typed, [Next]_vars PROVE Typed'
  OBVIOUS
<1> USE SizesTyped DEF Typed, TypeOK, NowIsASet, Fits, Pcs
<1>1. CASE Begin
  BY <1>1 DEF Begin, loopVars, listVars
<1>2. CASE BeginSize
  BY <1>2 DEF BeginSize, listVars
<1>3. CASE NextSet
  <2>1. CASE first_of_model_size /\ now' = [q \in 1..model_size |-> q - 1]
    <3>1. now' \in [1..model_size -> 0..(NPhases - 1)] /\ model_size \in Nat
      BY <2>1
    <3>2. now' \in Seq(0..(NPhases - 1)) /\ DOMAIN now' = 1..model_size
      BY <3>1, FunctionIsSequence
    <3> QED
      BY <1>3, <2>1, <3>2 DEF NextSet, listVars
  <2>2. CASE ~first_of_model_size /\ NextCombination
    <3>1. now' \in Seq(0..(NPhases - 1)) /\ DOMAIN now' = 1..model_size
      BY <1>3, <2>2, CombinationTyped DEF NextSet
    <3> QED
      BY <1>3, <2>2, <3>1 DEF NextSet, listVars
  <2> QED
    BY <1>3, <2>1, <2>2 DEF NextSet
<1>4. CASE EndOfSize
  BY <1>4, LeaveSizeTyped DEF EndOfSize, listVars
<1>5. CASE SkipKnown
  BY <1>5 DEF SkipKnown, loopVars, listVars
<1>6. CASE SkipUnwanted
  BY <1>6 DEF SkipUnwanted, listVars
<1>7. CASE SolveFails
  <2>1. current_bits \in Words
    BY <1>7, CurrentIsColumns DEF SolveFails, Words
  <2>2. bad' \in Seq(Words)
    BY <1>7, <2>1, ListsTyped DEF SolveFails
  <2>3. CASE first
    BY <1>7, <2>2, <2>3, LeaveSizeTyped DEF SolveFails
  <2>4. CASE ~first
    BY <1>7, <2>2, <2>4 DEF SolveFails
  <2> QED
    BY <2>3, <2>4
<1>8. CASE SolveSucceeds
  <2>1. PICK model \in ModelsIn(current_bits) :
          LET good_bits == Cleared(current_bits, Columns \ model) IN
            /\ IF onlyMinimal THEN UNCHANGED good ELSE SaveGood(good_bits)
            /\ minimal_bits' = good_bits
            /\ pc' = IF superset_minimal(good_bits) THEN "sets" ELSE "minimal"
    BY <1>8 DEF SolveSucceeds
  <2>2. current_bits \subseteq Columns /\ NSolns + NPhases <= IntBits
    BY <1>8, CurrentIsColumns DEF SolveSucceeds
  <2>3. model \in SUBSET current_bits /\ Final \in model
    BY <2>1 DEF ModelsIn
  <2>4. Cleared(current_bits, Columns \ model) = model
    BY <2>2, <2>3, ClearedKeepsModel
  <2>5. model \in Words
    BY <2>2, <2>3 DEF Words
  <2>6. good' \in Seq(Words)
    <3>1. good' = good \/ good' = Append(good, model)
      BY <2>1, <2>4 DEF SaveGood
    <3> QED
      BY <2>5, <3>1, ListsTyped
  <2>7. minimal_bits' \in Words /\ pc' \in {"sets", "minimal"}
    BY <2>1, <2>4, <2>5
  <2>8. /\ UNCHANGED <<models, onlyMinimal, soln_bits, model_size, now>>
        /\ UNCHANGED <<first_of_model_size, bad, minimal>>
        /\ position' = 0 /\ quit' = FALSE /\ first' = FALSE /\ pc = "visit"
    BY <1>8, Zenon DEF SolveSucceeds
  <2>9. DOMAIN now = 1..model_size
    BY <2>8
  <2>10. position' \in Columns
    BY <2>8
  <2> QED
    BY <2>2, <2>6, <2>7, <2>8, <2>9, <2>10
<1>9. CASE TryWithout
  <2>1. minimal_bits \ {position} \in Words
    BY DEF Words
  <2>2. /\ minimal_bits' = minimal_bits \/ minimal_bits' = minimal_bits \ {position}
        /\ bad' = bad \/ bad' = Append(bad, minimal_bits \ {position})
    BY <1>9 DEF TryWithout
  <2>3. minimal_bits' \in Words /\ bad' \in Seq(Words)
    BY <2>1, <2>2, ListsTyped
  <2> QED
    BY <1>9, <2>3 DEF TryWithout, loopVars
<1>10. CASE SaveMinimal
  <2>1. PICK model \in ModelsIn(minimal_bits) :
          LET actual_bits == WithBits({}, model) IN
            /\ minimal_bits' = actual_bits
            /\ SaveGood(actual_bits)
            /\ minimal' = Append(minimal, actual_bits)
    BY <1>10 DEF SaveMinimal
  <2>2. WithBits({}, model) \in Words
    BY <1>10, <2>1, WithBitsOfModel DEF SaveMinimal, ModelsIn
  <2>3. good' \in Seq(Words) /\ minimal' \in Seq(Words)
    BY <2>1, <2>2, ListsTyped DEF SaveGood
  <2> QED
    BY <1>10, <2>1, <2>2, <2>3 DEF SaveMinimal, loopVars
<1>11. CASE Stop
  BY <1>11 DEF Stop, loopVars, listVars
<1>12. CASE UNCHANGED vars
  BY <1>12 DEF vars, loopVars, listVars
<1> QED
  BY <1>1, <1>2, <1>3, <1>4, <1>5, <1>6, <1>7, <1>8, <1>9, <1>10, <1>11, <1>12 DEF Next

\* Every variable of a search has its type.
THEOREM SearchTyped == Spec => []TypeOK
<1>1. Typed => TypeOK
  BY DEF Typed
<1> QED
  BY <1>1, TypedInit, TypedNext, PTL DEF Spec

--------------------------------------------------------------------------------
(* Pruning *)

LEMMA SoundInit == Init => Sound
BY TypedInit DEF Init, Sound, PruningSound, Members

LEMMA SoundNext == Sound /\ [Next]_vars => Sound'
<1> SUFFICES ASSUME Sound, [Next]_vars PROVE PruningSound'
  BY TypedNext DEF Sound
<1>1. Typed /\ PruningSound
  BY DEF Sound
<1>a. ASSUME UNCHANGED <<models, bad>>, pc' # "minimal" PROVE PruningSound'
  BY <1>a, <1>1 DEF PruningSound, Members, ModelsIn
<1>2. CASE Begin
  BY <1>2, <1>a DEF Begin, listVars
<1>3. CASE BeginSize
  BY <1>3, <1>a DEF BeginSize, listVars
<1>4. CASE NextSet
  BY <1>4, <1>a DEF NextSet, listVars
<1>5. CASE EndOfSize
  BY <1>5, <1>a, <1>1, LeaveSizeTyped DEF EndOfSize, listVars, Typed, TypeOK
<1>6. CASE SkipKnown
  BY <1>6, <1>a DEF SkipKnown, listVars
<1>7. CASE SkipUnwanted
  BY <1>7, <1>a DEF SkipUnwanted, listVars
<1>8. CASE SolveFails
  <2>1. current_bits \in Words /\ bad \in Seq(Words)
    BY <1>8, <1>1, CurrentIsColumns, BitsOfAWord, SizesTyped
       DEF SolveFails, Words, Typed, TypeOK, Fits, Pcs
  <2>2. Members(bad') = Members(bad) \cup {current_bits}
    BY <1>8, <2>1, AppendMembers DEF SolveFails
  <2>3. pc' # "minimal"
    BY <1>8, <1>1, LeaveSizeTyped DEF SolveFails
  <2> QED
    BY <1>8, <1>1, <2>2, <2>3 DEF SolveFails, PruningSound, ModelsIn, Members
<1>9. CASE SolveSucceeds
  <2>1. PICK model \in ModelsIn(current_bits) :
          /\ minimal_bits' = Cleared(current_bits, Columns \ model)
          /\ pc' = IF superset_minimal(Cleared(current_bits, Columns \ model))
                   THEN "sets" ELSE "minimal"
    BY <1>9 DEF SolveSucceeds
  <2>2. current_bits \subseteq Columns /\ NSolns + NPhases <= IntBits
    BY <1>9, <1>1, CurrentIsColumns DEF SolveSucceeds, Typed, Fits, Pcs
  <2>3. model \in SUBSET current_bits /\ Final \in model /\ model \in models
    BY <2>1, <1>1 DEF ModelsIn, Typed, TypeOK
  <2>4. minimal_bits' = model
    BY <2>1, <2>2, <2>3, ClearedKeepsModel
  <2>5. UNCHANGED <<models, bad, minimal>>
    BY <1>9 DEF SolveSucceeds
  <2>6. pc' = "minimal" => ~superset_minimal(model)
    BY <2>1, <2>4
  <2> QED
    BY <1>1, <2>3, <2>4, <2>5, <2>6 DEF PruningSound, ModelsIn, Members, superset_minimal
<1>10. CASE TryWithout
  <2> DEFINE without == minimal_bits \ {position}
  <2>1. /\ ModelsIn(minimal_bits) # {} /\ ~superset_minimal(minimal_bits)
        /\ UNCHANGED <<models, minimal>>
    BY <1>10, <1>1 DEF TryWithout, PruningSound
  <2>2. without \in Words /\ bad \in Seq(Words)
    BY <1>1 DEF Typed, TypeOK, Words
  <2>3. \/ minimal_bits' = minimal_bits
        \/ minimal_bits' = without /\ ModelsIn(without) # {}
    BY <1>10 DEF TryWithout
  <2>4. \/ bad' = bad
        \/ bad' = Append(bad, without) /\ ModelsIn(without) = {}
    BY <1>10 DEF TryWithout
  <2>5. \A b \in Members(bad') : ModelsIn(b) = {}
    <3>1. CASE bad' = bad
      BY <1>1, <3>1 DEF PruningSound, Members
    <3>2. CASE bad' = Append(bad, without) /\ ModelsIn(without) = {}
      <4>1. Members(bad') = Members(bad) \cup {without}
        BY <2>2, <3>2, AppendMembers DEF Members
      <4> QED
        BY <1>1, <3>2, <4>1 DEF PruningSound
    <3> QED
      BY <2>4, <3>1, <3>2
  <2>6. ModelsIn(minimal_bits') # {} /\ ~superset_minimal(minimal_bits')
    BY <2>1, <2>3 DEF superset_minimal
  <2> QED
    BY <2>1, <2>5, <2>6 DEF PruningSound, Members, ModelsIn, superset_minimal
<1>11. CASE SaveMinimal
  BY <1>11, <1>a DEF SaveMinimal, listVars
<1>12. CASE Stop
  BY <1>12, <1>a DEF Stop, listVars
<1>13. CASE UNCHANGED vars
  BY <1>13, <1>1 DEF vars, listVars, PruningSound, ModelsIn, Members, superset_minimal
<1> QED
  BY <1>2, <1>3, <1>4, <1>5, <1>6, <1>7, <1>8, <1>9, <1>10, <1>11, <1>12, <1>13 DEF Next

\* However wide an int is, a set of columns that subset_bad rules out has no
\* model, and minimal_solve never loses the model it reduces.
THEOREM PruningIsSound == Spec => []PruningSound
<1>1. Sound => PruningSound
  BY DEF Sound
<1> QED
  BY <1>1, SoundInit, SoundNext, PTL DEF Spec

--------------------------------------------------------------------------------
(* Minimal models *)

LEMMA ExactInit == Init => Exact
BY SoundInit DEF Init, Exact, Tried, MinimalIsMinimal, ModelsOnce, Members

\* Nothing that Exact adds to Sound depends on anything else.
LEMMA ExactUnchanged ==
  ASSUME Exact, UNCHANGED <<models, onlyMinimal, good, minimal>>, pc' # "minimal"
  PROVE  Tried' /\ MinimalIsMinimal' /\ ModelsOnce'
BY DEF Exact, Tried, MinimalIsMinimal, ModelsOnce, Members, Minimal

LEMMA ListsOfModels ==
  ASSUME NEW list \in Seq(Words), NEW m \in Words, NEW M, m \in M,
         \A w \in M : w \subseteq Columns,
         Members(list) \subseteq M, m \notin Members(list),
         \A i, j \in DOMAIN list : list[i] \cap Columns = list[j] \cap Columns => i = j
  PROVE  LET new == Append(list, m) IN
         \A i, j \in DOMAIN new : new[i] \cap Columns = new[j] \cap Columns => i = j
<1> DEFINE new == Append(list, m)
<1>1. /\ DOMAIN new = 1..(Len(list) + 1)
      /\ DOMAIN list = 1..Len(list) /\ Len(list) \in Nat
      /\ \A j \in 1..Len(list) : new[j] = list[j]
      /\ new[Len(list) + 1] = m
  BY AppendMembers
<1>2. \A j \in DOMAIN list : list[j] \in Members(list) /\ list[j] \cap Columns = list[j]
  BY DEF Members
<1>3. m \cap Columns = m
  OBVIOUS
<1> SUFFICES ASSUME NEW i \in DOMAIN new, NEW j \in DOMAIN new,
                    new[i] \cap Columns = new[j] \cap Columns
             PROVE  i = j
  OBVIOUS
<1> HIDE DEF new
<1>4. CASE i \in DOMAIN list /\ j \in DOMAIN list
  BY <1>1, <1>4
<1>5. CASE i \notin DOMAIN list /\ j \notin DOMAIN list
  BY <1>1, <1>5
<1>6. CASE i \in DOMAIN list /\ j \notin DOMAIN list
  <2>1. new[i] = list[i] /\ new[j] = m
    BY <1>1, <1>6
  <2> QED
    BY <1>2, <1>3, <1>6, <2>1
<1>7. CASE i \notin DOMAIN list /\ j \in DOMAIN list
  <2>1. new[j] = list[j] /\ new[i] = m
    BY <1>1, <1>7
  <2> QED
    BY <1>2, <1>3, <1>7, <2>1
<1> QED
  BY <1>4, <1>5, <1>6, <1>7

\* A model that is saved keeps the list of good models in order.
LEMMA SaveGoodExact ==
  ASSUME Exact, NEW m \in models, m \in Words, SaveGood(m),
         UNCHANGED <<models, onlyMinimal>>, onlyMinimal => m \in Minimal
  PROVE  /\ Members(good') \subseteq models
         /\ onlyMinimal => Members(good') \subseteq Minimal
         /\ \A i, j \in DOMAIN good' :
              good'[i] \cap Columns = good'[j] \cap Columns => i = j
<1>1. /\ good \in Seq(Words) /\ \A w \in models : w \subseteq Columns
      /\ Members(good) \subseteq models /\ (onlyMinimal => Members(good) \subseteq Minimal)
      /\ \A i, j \in DOMAIN good : good[i] \cap Columns = good[j] \cap Columns => i = j
  BY DEF Exact, Sound, Typed, TypeOK, MinimalIsMinimal, ModelsOnce
<1>2. CASE good' = good
  BY <1>1, <1>2
<1>3. CASE m \notin Members(good) /\ good' = Append(good, m)
  <2>1. Members(good') = Members(good) \cup {m}
    BY <1>1, <1>3, AppendMembers
  <2>2. \A i, j \in DOMAIN good' :
          good'[i] \cap Columns = good'[j] \cap Columns => i = j
    BY <1>1, <1>3, ListsOfModels
  <2> QED
    BY <1>1, <2>1, <2>2
<1> QED
  BY <1>2, <1>3 DEF SaveGood

LEMMA SolveSucceedsExact ==
  ASSUME Exact, SolveSucceeds
  PROVE  Tried' /\ MinimalIsMinimal' /\ ModelsOnce'
<1>1. PICK model \in ModelsIn(current_bits) :
        LET good_bits == Cleared(current_bits, Columns \ model) IN
          /\ IF onlyMinimal THEN UNCHANGED good ELSE SaveGood(good_bits)
          /\ minimal_bits' = good_bits
  BY DEF SolveSucceeds
<1>2. current_bits \subseteq Columns /\ NSolns + NPhases <= IntBits
  BY CurrentIsColumns DEF SolveSucceeds, Exact, Sound, Typed, Fits, Pcs
<1>3. model \in SUBSET current_bits /\ Final \in model /\ model \in models
  BY <1>1 DEF ModelsIn, Exact, Sound, Typed, TypeOK
<1>4. Cleared(current_bits, Columns \ model) = model
  BY <1>2, <1>3, ClearedKeepsModel
<1>5. model \in Words
  BY <1>2, <1>3, BitsOfAWord, SizesTyped DEF Words
<1>6. UNCHANGED <<models, onlyMinimal, minimal>> /\ position' = 0
  BY DEF SolveSucceeds
<1>7. IF onlyMinimal THEN good' = good ELSE SaveGood(model)
  BY <1>1, <1>4
<1>8. /\ Members(good') \subseteq models
      /\ onlyMinimal => Members(good') \subseteq Minimal
      /\ \A i, j \in DOMAIN good' :
           good'[i] \cap Columns = good'[j] \cap Columns => i = j
  <2>1. CASE onlyMinimal
    BY <1>7, <2>1 DEF Exact, MinimalIsMinimal, ModelsOnce
  <2>2. CASE ~onlyMinimal
    BY <1>3, <1>5, <1>6, <1>7, <2>2, SaveGoodExact
  <2> QED
    BY <2>1, <2>2
<1>9. Tried'
  <2>1. minimal_bits' \subseteq Columns
    BY <1>1, <1>2, <1>3, <1>4
  <2>2. \A p \in Columns : ~(p < 0)
    BY SizesTyped
  <2> QED
    BY <1>6, <2>1, <2>2 DEF Tried
<1>10. MinimalIsMinimal'
  BY <1>6, <1>8 DEF Exact, MinimalIsMinimal, Members, Minimal
<1>11. ModelsOnce'
  BY <1>6, <1>8 DEF Exact, ModelsOnce
<1> QED
  BY <1>9, <1>10, <1>11

LEMMA TryWithoutExact ==
  ASSUME Exact, TryWithout
  PROVE  Tried' /\ MinimalIsMinimal' /\ ModelsOnce'
<1> DEFINE without == minimal_bits \ {position}
<1>1. /\ minimal_bits \subseteq Columns
      /\ \A p \in minimal_bits : p < position => ModelsIn(minimal_bits \ {p}) = {}
      /\ \A b \in Members(bad) : ModelsIn(b) = {}
  BY DEF TryWithout, Exact, Sound, Tried, PruningSound
<1>2. /\ UNCHANGED <<models, onlyMinimal, good, minimal>> /\ position' = position + 1
      /\ position \in Columns
  BY DEF TryWithout, Exact, Sound, Typed, TypeOK
<1>3. \/ minimal_bits' = minimal_bits /\ position \notin minimal_bits
      \/ minimal_bits' = minimal_bits /\ ModelsIn(without) = {}
      \/ minimal_bits' = without
  <2>1. subset_bad(without) => ModelsIn(without) = {}
    <3> SUFFICES ASSUME NEW b \in Members(bad), without \subseteq b
                 PROVE  ModelsIn(without) = {}
      BY DEF subset_bad
    <3> QED
      BY <1>1, FewerModels
  <2> QED
    BY <2>1, Zenon DEF TryWithout
<1>4. \A p \in minimal_bits' : p < position' => ModelsIn(minimal_bits' \ {p}) = {}
  <2> SUFFICES ASSUME NEW p \in minimal_bits', p < position'
               PROVE  ModelsIn(minimal_bits' \ {p}) = {}
    OBVIOUS
  <2>1. p \in Int /\ position \in Int
    <3>1. p \in Columns
      BY <1>1, <1>3
    <3> QED
      BY <1>2, <3>1, SizesTyped
  <2>2. CASE p = position
    BY <1>3, <2>2
  <2>3. CASE p < position
    <3>1. p \in minimal_bits /\ minimal_bits' \ {p} \subseteq minimal_bits \ {p}
      BY <1>3
    <3> QED
      BY <1>1, <2>3, <3>1, FewerModels
  <2> QED
    BY <1>2, <2>1, <2>2, <2>3
<1>5. Tried'
  <2>1. minimal_bits' \subseteq Columns
    BY <1>1, <1>3
  <2>2. \A bits : ModelsIn(bits)' = {m \in models' : m \subseteq bits'}
    BY DEF ModelsIn
  <2> QED
    BY <1>2, <1>4, <2>1 DEF Tried, ModelsIn
<1> QED
  BY <1>2, <1>5 DEF Exact, MinimalIsMinimal, ModelsOnce, Members, Minimal

\* What is left when no column can be spared is a minimal model, and a new one.
LEMMA SaveMinimalExact ==
  ASSUME Exact, SaveMinimal, NSolns + NPhases < IntBits
  PROVE  Tried' /\ MinimalIsMinimal' /\ ModelsOnce'
<1>1. PICK m \in ModelsIn(minimal_bits) :
        /\ SaveGood(WithBits({}, m))
        /\ minimal' = Append(minimal, WithBits({}, m))
  BY DEF SaveMinimal
<1>2. /\ minimal_bits \subseteq Columns /\ position = Final
      /\ \A p \in minimal_bits : p < position => ModelsIn(minimal_bits \ {p}) = {}
      /\ ~superset_minimal(minimal_bits)
      /\ UNCHANGED <<models, onlyMinimal>> /\ pc' = "sets"
  BY DEF SaveMinimal, Exact, Sound, Tried, PruningSound
<1>3. m \in models /\ m \subseteq minimal_bits /\ m \in SUBSET Columns
  BY <1>1, <1>2 DEF ModelsIn
<1>4. WithBits({}, m) = m /\ m \in Words
  <2>1. NSolns + NPhases <= IntBits
    BY SizesTyped
  <2>2. WithBits({}, m) \in Words /\ WithBits({}, m) = m
    BY <1>3, <2>1, WithBitsOfModel
  <2> QED
    BY <2>2
<1>5. \A w \in models : w \subseteq Columns /\ Final \in w
  BY DEF Exact, Sound, Typed, TypeOK
<1>6. m \in Minimal
  <2> SUFFICES ASSUME NEW n \in models, n \subseteq m PROVE n = m
    BY <1>3 DEF Minimal
  <2> SUFFICES ASSUME NEW p \in m, p \notin n PROVE FALSE
    OBVIOUS
  <2>1. p \in minimal_bits /\ p # Final
    BY <1>3, <1>5
  <2>2. p < position
    BY <1>2, <2>1, SizesTyped
  <2>3. n \in ModelsIn(minimal_bits \ {p})
    BY <1>3 DEF ModelsIn
  <2> QED
    BY <1>2, <2>1, <2>2, <2>3
<1>7. m \notin Members(minimal)
  BY <1>2, <1>3 DEF superset_minimal
<1>8. /\ Members(good') \subseteq models
      /\ onlyMinimal => Members(good') \subseteq Minimal
      /\ \A i, j \in DOMAIN good' :
           good'[i] \cap Columns = good'[j] \cap Columns => i = j
  BY <1>1, <1>2, <1>3, <1>4, <1>6, SaveGoodExact
<1>9. /\ minimal \in Seq(Words) /\ Members(minimal) \subseteq Minimal
      /\ \A i, j \in DOMAIN minimal :
           minimal[i] \cap Columns = minimal[j] \cap Columns => i = j
  BY DEF Exact, Sound, Typed, TypeOK, MinimalIsMinimal, ModelsOnce
<1>10. minimal' = Append(minimal, m)
  BY <1>1, <1>4
<1>11. Members(minimal') = Members(minimal) \cup {m}
  BY <1>4, <1>9, <1>10, AppendMembers
<1>12. \A i, j \in DOMAIN minimal' :
         minimal'[i] \cap Columns = minimal'[j] \cap Columns => i = j
  <2>1. \A w \in Minimal : w \subseteq Columns
    BY <1>5 DEF Minimal
  <2> QED
    BY <1>4, <1>6, <1>7, <1>9, <1>10, <2>1, ListsOfModels
<1>13. MinimalIsMinimal'
  BY <1>2, <1>6, <1>8, <1>9, <1>11 DEF MinimalIsMinimal, Members, Minimal
<1>14. ModelsOnce'
  BY <1>8, <1>12 DEF ModelsOnce
<1> QED
  BY <1>2, <1>13, <1>14 DEF Tried

LEMMA ExactNext ==
  ASSUME NSolns + NPhases < IntBits
  PROVE  Exact /\ [Next]_vars => Exact'
<1> SUFFICES ASSUME Exact, [Next]_vars PROVE Tried' /\ MinimalIsMinimal' /\ ModelsOnce'
  BY SoundNext DEF Exact
<1>1. Typed
  BY DEF Exact, Sound
<1>2. CASE Begin
  BY <1>2, ExactUnchanged DEF Begin, listVars
<1>3. CASE BeginSize
  BY <1>3, ExactUnchanged DEF BeginSize, listVars
<1>4. CASE NextSet
  BY <1>4, ExactUnchanged DEF NextSet, listVars
<1>5. CASE EndOfSize
  BY <1>1, <1>5, ExactUnchanged, LeaveSizeTyped DEF EndOfSize, listVars, Typed, TypeOK
<1>6. CASE SkipKnown
  BY <1>6, ExactUnchanged DEF SkipKnown, listVars
<1>7. CASE SkipUnwanted
  BY <1>7, ExactUnchanged DEF SkipUnwanted, listVars
<1>8. CASE SolveFails
  BY <1>1, <1>8, ExactUnchanged, LeaveSizeTyped DEF SolveFails
<1>9. CASE SaveMinimal
  BY <1>9, SaveMinimalExact
<1>10. CASE Stop
  BY <1>10, ExactUnchanged DEF Stop, listVars
<1>11. CASE UNCHANGED vars
  BY <1>11 DEF vars, listVars, Exact, Tried, MinimalIsMinimal, ModelsOnce, Members,
               Minimal, ModelsIn
<1> QED
  BY <1>2, <1>3, <1>4, <1>5, <1>6, <1>7, <1>8, <1>9, <1>10, <1>11,
     SolveSucceedsExact, TryWithoutExact DEF Next

\* As long as there are fewer columns than bits in an int, what the search calls
\* a minimal model is one, whatever cl1 returned on the way to it.
THEOREM MinimalModelsAreMinimal ==
  ASSUME NSolns + NPhases < IntBits
  PROVE  Spec => []MinimalIsMinimal
<1>1. Exact => MinimalIsMinimal
  BY DEF Exact
<1> QED
  BY <1>1, ExactInit, ExactNext, PTL DEF Spec

\* And it prints no model twice and counts none as minimal twice: without the
\* assumption it does (InverseWidth.cfg).
THEOREM ModelsAreFoundOnce ==
  ASSUME NSolns + NPhases < IntBits
  PROVE  Spec => []ModelsOnce
<1>1. Exact => ModelsOnce
  BY DEF Exact
<1> QED
  BY <1>1, ExactInit, ExactNext, PTL DEF Spec

--------------------------------------------------------------------------------
(* The order of the sets *)

Phases == 0..(NPhases - 1)
Solns  == 0..(NSolns - 1)

\* The columns of some solutions and some phases
SetOf(solns, phases) == {NPhases + i : i \in solns} \cup phases

\* The solutions and the phases of some columns
SolnsOf(set)  == {i \in Solns : NPhases + i \in set}
PhasesOf(set) == set \cap Phases

\* The order of the words of solutions: that of the numbers they are.
Higher(word, other) ==
  \E i \in word \ other : \A j \in Solns : j > i => (j \in word <=> j \in other)

\* The order of the sets of one size: that of the sequences that list their phases.
Before(phases, other) ==
  \E p \in phases \ other : \A q \in Phases : q < p => (q \in phases <=> q \in other)

Combinations(size) == {T \in SUBSET Phases : Cardinality(T) = size}

\* A sequence that lists phases in increasing order.
Increases(list, size) ==
  /\ list \in [1..size -> Phases]
  /\ \A p, q \in 1..size : p <= q => list[q] - list[p] >= q - p

LEMMA SmallestElement ==
  ASSUME NEW S \in SUBSET Nat, S # {}
  PROVE  \E x \in S : \A y \in S : x <= y
<1>1. PICK x \in S : \A y \in S : <<y, x>> \notin OpToRel(<, Nat)
  BY NatLessThanWellFounded, WFMin
<1>2. \A y \in S : ~(y < x)
  BY <1>1 DEF OpToRel
<1> QED
  BY <1>2

LEMMA LargestElement ==
  ASSUME NEW n \in Nat, NEW S \in SUBSET (0..n), S # {}
  PROVE  \E x \in S : \A y \in S : y <= x
<1> DEFINE T == {n - y : y \in S}
<1>1. T \in SUBSET Nat /\ T # {}
  <2>1. \A y \in S : n - y \in Nat
    OBVIOUS
  <2>2. T \subseteq Nat
    BY <2>1
  <2>3. PICK y \in S : TRUE
    OBVIOUS
  <2>4. n - y \in T
    OBVIOUS
  <2> QED
    BY <2>2, <2>4
<1>2. PICK t \in T : \A y \in T : t <= y
  BY <1>1, SmallestElement
<1>3. PICK x \in S : t = n - x
  BY <1>2
<1>4. \A y \in S : n - x <= n - y
  BY <1>2, <1>3
<1> QED
  BY <1>3, <1>4

LEMMA PhasesFinite ==
  /\ IsFiniteSet(Phases) /\ Cardinality(Phases) = NPhases
  /\ \A T \in SUBSET Phases : IsFiniteSet(T) /\ Cardinality(T) \in 0..NPhases
<1>1. IsFiniteSet(Phases) /\ Cardinality(Phases) = NPhases
  BY SizesTyped, FS_Interval DEF Phases
<1>2. ASSUME NEW T \in SUBSET Phases PROVE IsFiniteSet(T) /\ Cardinality(T) \in 0..NPhases
  BY <1>1, SizesTyped, FS_Subset, FS_CardinalityType
<1> QED
  BY <1>1, <1>2

\* Two different sets of one size: neither contains the other.
LEMMA CombinationsDiffer ==
  ASSUME NEW k, NEW S \in Combinations(k), NEW T \in Combinations(k), S \subseteq T
  PROVE  S = T
BY PhasesFinite, FS_Subset DEF Combinations

\* A list in increasing order lists as many phases as it is long.
LEMMA ListedCombination ==
  ASSUME NEW k \in 0..NPhases, NEW list, Increases(list, k)
  PROVE  {list[q] : q \in DOMAIN list} \in Combinations(k)
<1> DEFINE S == {list[q] : q \in 1..k}
<1>1. DOMAIN list = 1..k /\ S \subseteq Phases
  BY DEF Increases
<1>2. list \in Bijection(1..k, S)
  <2>1. \A p, q \in 1..k : list[p] = list[q] => p = q
    BY DEF Increases, Phases
  <2>2. list \in [1..k -> S]
    BY DEF Increases
  <2> QED
    BY <2>1, <2>2 DEF Bijection, Injection, Surjection, IsInjective
<1>3. Cardinality(1..k) = k /\ IsFiniteSet(1..k)
  BY FS_Interval
<1>4. Cardinality(S) = k
  BY <1>2, <1>3, FS_Bijection DEF ExistsBijection
<1> QED
  BY <1>1, <1>4 DEF Combinations

\* The first set of a size: no other is before it.
LEMMA FirstIncreases ==
  ASSUME NEW k \in 0..NPhases
  PROVE  Increases([q \in 1..k |-> q - 1], k)
BY SizesTyped DEF Increases, Phases

LEMMA FirstCombination ==
  ASSUME NEW k \in 0..NPhases, NEW T \in Combinations(k)
  PROVE  ~Before(T, 0..(k - 1))
<1>1. 0..(k - 1) \in Combinations(k)
  <2>1. k \in Nat /\ 0..(k - 1) \subseteq Phases
    BY SizesTyped DEF Phases
  <2>2. Cardinality(0..(k - 1)) = k
    BY <2>1, FS_Interval
  <2> QED
    BY <2>1, <2>2 DEF Combinations
<1>2. ASSUME Before(T, 0..(k - 1)) PROVE FALSE
  <2>1. PICK p \in T \ (0..(k - 1)) :
          \A q \in Phases : q < p => (q \in T <=> q \in 0..(k - 1))
    BY <1>2 DEF Before
  <2>2. p \in Phases /\ k <= p
    BY <2>1 DEF Combinations, Phases
  <2>3. 0..(k - 1) \subseteq T
    BY <2>1, <2>2, SizesTyped DEF Phases
  <2> QED
    BY <1>1, <2>1, <2>3, CombinationsDiffer
<1> QED
  BY <1>2

\* If behind its first difference from T a set of phases has all the highest
\* ones, it is after T.
LEMMA LaterCombination ==
  ASSUME NEW k, NEW S \in Combinations(k), NEW T \in Combinations(k), S # T,
         \A y \in S \ T : \A z \in Phases : y < z => z \in S
  PROVE  Before(T, S)
<1>1. T \ S # {}
  BY CombinationsDiffer
<1>2. PICK x \in T \ S : \A y \in T \ S : x <= y
  <2>1. T \ S \subseteq Nat
    BY DEF Combinations, Phases
  <2> QED
    BY <1>1, <2>1, SmallestElement
<1>3. ASSUME NEW q \in Phases, q < x PROVE q \in T <=> q \in S
  BY <1>2, <1>3, SizesTyped DEF Combinations, Phases
<1> QED
  BY <1>2, <1>3 DEF Before

Listed(list) == {list[q] : q \in DOMAIN list}

\* The places behind i cannot move up, so they list the highest phases.
LEMMA HighestListed ==
  ASSUME NEW k \in 0..NPhases, NEW list, Increases(list, k), NEW i \in 0..k,
         \A q \in 1..k : q > i => ~(list[q] < NPhases - k + q - 1)
  PROVE  \A q \in 1..k : q > i =>
           \A z \in Phases : list[q] < z => z \in Listed(list)
<1> SUFFICES ASSUME NEW q \in 1..k, q > i, NEW z \in Phases, list[q] < z
             PROVE  z \in Listed(list)
  OBVIOUS
<1>1. \A p \in 1..k : p > i => list[p] = NPhases - k + p - 1
  <2> SUFFICES ASSUME NEW p \in 1..k, p > i PROVE list[p] = NPhases - k + p - 1
    OBVIOUS
  <2>1. list[k] - list[p] >= k - p /\ list[k] \in Phases /\ list[p] \in Phases
    BY DEF Increases
  <2> QED
    BY <2>1, SizesTyped DEF Phases
<1> DEFINE p == z - NPhases + k + 1
<1>2. p \in 1..k /\ p > i
  BY <1>1, SizesTyped DEF Phases
<1>3. list[p] = z
  BY <1>1, <1>2, SizesTyped DEF Phases
<1> QED
  BY <1>2, <1>3 DEF Listed, Increases

\* The sets before the next one are the current one and those before it.
LEMMA NextOfList ==
  ASSUME NEW k \in 0..NPhases, NEW list, Increases(list, k),
         NEW i \in 1..k, list[i] < NPhases - k + i - 1,
         \A q \in 1..k : q > i => ~(list[q] < NPhases - k + q - 1),
         NEW next \in [1..k -> Int], \A q \in 1..k : q < i => next[q] = list[q],
         \A q \in 1..k : ~(q < i) => next[q] = list[i] + 1 + (q - i)
  PROVE  /\ Increases(next, k)
         /\ \A T \in Combinations(k) : Before(T, Listed(next)) =>
              T = Listed(list) \/ Before(T, Listed(list))
<1> DEFINE S == Listed(list)
           N == Listed(next)
           v == list[i]
<1>1. /\ \A q \in 1..k : list[q] \in Phases
      /\ \A p, q \in 1..k : p <= q => list[q] - list[p] >= q - p
      /\ DOMAIN list = 1..k /\ DOMAIN next = 1..k
  BY DEF Increases
<1>a. /\ \A q \in 1..k : q < i => next[q] = list[q]
      /\ \A q \in 1..k : ~(q < i) => next[q] = v + 1 + (q - i)
  OBVIOUS
<1>b. /\ v \in Nat /\ k \in Nat /\ NPhases \in Nat /\ i \in Nat /\ i <= k
      /\ v + 1 + (k - i) <= NPhases - 1
      /\ \A q \in 1..k : list[q] \in Nat /\ list[q] <= NPhases - 1
  BY <1>1, SizesTyped DEF Phases
<1>c. \A q \in 1..k : q <= i => v - list[q] >= i - q
  BY <1>1
<1> HIDE DEF v
<1>2. Increases(next, k)
  <2>1. ASSUME NEW q \in 1..k PROVE next[q] \in Phases
    <3>1. CASE q < i
      BY <1>1, <1>a, <3>1
    <3>2. CASE ~(q < i)
      <4>1. next[q] = v + 1 + (q - i)
        BY <1>a, <3>2
      <4>2. v + 1 + (q - i) \in Nat /\ v + 1 + (q - i) <= NPhases - 1
        BY <1>b, <3>2
      <4> QED
        BY <4>1, <4>2, SizesTyped DEF Phases
    <3> QED
      BY <3>1, <3>2
  <2>2. ASSUME NEW p \in 1..k, NEW q \in 1..k, p <= q PROVE next[q] - next[p] >= q - p
    <3>1. CASE q < i
      <4>1. p < i /\ list[q] - list[p] >= q - p
        BY <1>1, <1>b, <2>2, <3>1
      <4> QED
        BY <1>a, <3>1, <4>1
    <3>2. CASE ~(q < i) /\ p < i
      <4>1. v - list[p] >= i - p /\ list[p] \in Nat
        BY <1>b, <1>c, <3>2
      <4>2. next[p] = list[p] /\ next[q] = v + 1 + (q - i)
        BY <1>a, <3>2
      <4>3. v \in Nat /\ i \in Nat
        BY <1>b
      <4> QED
        BY <4>1, <4>2, <4>3, SMTT(30)
    <3>3. CASE ~(p < i)
      <4>1. next[p] = v + 1 + (p - i) /\ next[q] = v + 1 + (q - i)
        BY <1>a, <1>b, <2>2, <3>3
      <4> QED
        BY <1>b, <4>1
    <3> QED
      BY <1>b, <3>1, <3>2, <3>3
  <2>3. next \in [1..k -> Phases]
    BY <2>1
  <2> QED
    BY <2>2, <2>3 DEF Increases
<1>3. S \in Combinations(k) /\ N \in Combinations(k)
  BY <1>2, ListedCombination DEF Listed
<1>4. \A y \in Phases : y < v => (y \in S <=> y \in N)
  <2> SUFFICES ASSUME NEW y \in Phases, y < v PROVE y \in S <=> y \in N
    OBVIOUS
  <2>1. ASSUME NEW q \in 1..k, list[q] = y PROVE y \in N
    <3>1. q < i
      <4>1. i <= q => list[q] - v >= q - i
        BY <1>1 DEF v
      <4> QED
        BY <1>b, <2>1, <4>1
    <3> QED
      BY <1>1, <1>a, <2>1, <3>1 DEF Listed
  <2>2. ASSUME NEW q \in 1..k, next[q] = y PROVE y \in S
    <3>1. q < i
      <4>1. ~(q < i) => next[q] = v + 1 + (q - i)
        BY <1>a
      <4> QED
        BY <1>b, <2>2, <4>1
    <3> QED
      BY <1>1, <1>a, <2>2, <3>1 DEF Listed
  <2> QED
    BY <1>1, <2>1, <2>2 DEF Listed
<1>5. v \in S /\ v \in Phases
  BY <1>1 DEF Listed, v
<1>6. v \notin N
  <2>1. ASSUME NEW q \in 1..k PROVE next[q] # v
    <3>1. CASE q < i
      <4>1. next[q] = list[q] /\ v - list[q] >= i - q
        BY <1>a, <1>b, <1>c, <3>1
      <4> QED
        BY <1>b, <3>1, <4>1
    <3>2. CASE ~(q < i)
      BY <1>a, <1>b, <3>2
    <3> QED
      BY <3>1, <3>2
  <2> QED
    BY <1>1, <2>1 DEF Listed
<1>7. ASSUME NEW z \in Phases, v < z, z <= v + 1 + (k - i) PROVE z \in N
  <2> DEFINE q == z - v - 1 + i
  <2>1. z \in Nat
    BY SizesTyped DEF Phases
  <2>2. q \in 1..k /\ ~(q < i)
    BY <1>b, <1>7, <2>1
  <2>3. v + 1 + (q - i) = z
    BY <1>b, <2>1
  <2>4. next[q] = z
    BY <1>a, <2>2, <2>3
  <2> QED
    BY <1>1, <2>2, <2>4 DEF Listed
<1>8. \A z \in N : z <= v + 1 + (k - i)
  <2>1. ASSUME NEW q \in 1..k PROVE next[q] <= v + 1 + (k - i)
    <3>1. CASE q < i
      <4>1. next[q] = list[q] /\ v - list[q] >= i - q
        BY <1>a, <1>b, <1>c, <3>1
      <4>2. i \in Int /\ k \in Int /\ v \in Int /\ list[q] \in Int /\ q \in Int /\ i <= k
        BY <1>b
      <4> QED
        BY <3>1, <4>1, <4>2, SMTT(30)
    <3>2. CASE ~(q < i)
      BY <1>a, <1>b, <3>2, SMTT(30)
    <3> QED
      BY <3>1, <3>2
  <2> QED
    BY <1>1, <2>1 DEF Listed
<1> SUFFICES ASSUME NEW T \in Combinations(k), Before(T, N), T # S PROVE Before(T, S)
  BY <1>2
<1>9. PICK x \in T \ N : \A q \in Phases : q < x => (q \in T <=> q \in N)
  BY DEF Before
<1>10. x \in Phases /\ x \in Int /\ v \in Int /\ k - i \in Int
  BY <1>b, <1>9, SizesTyped DEF Combinations, Phases
<1>11. CASE x < v
  <2>1. x \notin S
    BY <1>4, <1>9, <1>10, <1>11
  <2>2. \A q \in Phases : q < x => q < v
    BY <1>10, <1>11, SizesTyped DEF Phases
  <2>3. \A q \in Phases : q < x => (q \in T <=> q \in S)
    BY <1>4, <1>9, <2>2
  <2> QED
    BY <1>9, <2>1, <2>3 DEF Before
<1>12. CASE x = v
  <2>1. \A y \in S \ T : \A z \in Phases : y < z => z \in S
    <3> SUFFICES ASSUME NEW q \in 1..k, list[q] \notin T, NEW z \in Phases, list[q] < z
                 PROVE  z \in S
      BY <1>1 DEF Listed
    <3>1. list[q] \in Phases /\ list[q] \in S
      BY <1>1 DEF Listed
    <3>2. ~(list[q] < v)
      BY <1>4, <1>9, <1>12, <3>1
    <3>3. list[q] # v
      BY <1>9, <1>12
    <3>4. q > i
      <4>1. q <= i => v - list[q] >= i - q
        BY <1>c
      <4>2. v < list[q]
        BY <1>b, <3>2, <3>3
      <4> QED
        BY <1>b, <4>1, <4>2
    <3>5. i \in 0..k
      BY <1>b
    <3> QED
      BY <3>4, <3>5, HighestListed
  <2> QED
    BY <1>3, <2>1, LaterCombination
<1>13. CASE v < x
  <2>1. ~(x <= v + 1 + (k - i))
    BY <1>7, <1>9, <1>10, <1>13
  <2>2. \A z \in N : z < x /\ z \in Phases
    <3>1. \A z \in N : z \in Phases /\ z \in Int
      BY <1>3, SizesTyped DEF Combinations, Phases
    <3> QED
      BY <1>8, <1>10, <2>1, <3>1
  <2>3. N \subseteq T
    BY <1>9, <2>2
  <2>4. N = T
    BY <1>3, <2>3, CombinationsDiffer
  <2> QED
    BY <1>9, <2>4
<1> QED
  BY <1>10, <1>11, <1>12, <1>13

\* When no place can move up, every set of the size has been passed.
LEMMA LastOfList ==
  ASSUME NEW k \in 0..NPhases, NEW list, Increases(list, k),
         \A q \in 1..k : ~(list[q] < NPhases - k + q - 1),
         NEW T \in Combinations(k)
  PROVE  T = Listed(list) \/ Before(T, Listed(list))
<1> DEFINE S == Listed(list)
<1>1. S \in Combinations(k)
  BY ListedCombination DEF Listed
<1>2. \A y \in S \ T : \A z \in Phases : y < z => z \in S
  <2> SUFFICES ASSUME NEW q \in 1..k, NEW z \in Phases, list[q] < z PROVE z \in S
    BY DEF Listed, Increases
  <2>1. 0 \in 0..k /\ q > 0
    BY SizesTyped
  <2> QED
    BY <2>1, HighestListed
<1> QED
  BY <1>1, <1>2, LaterCombination

\* A smaller set of phases is part of one of the size.
LEMMA LargerCombination ==
  ASSUME NEW k \in 0..NPhases, NEW T \in SUBSET Phases, Cardinality(T) < k
  PROVE  \E S \in Combinations(k) : T \subseteq S
<1> DEFINE R == Phases \ T
           r == Cardinality(R)
           n == k - Cardinality(T)
<1>1. /\ IsFiniteSet(R) /\ r = NPhases - Cardinality(T) /\ IsFiniteSet(T)
      /\ Cardinality(T) \in 0..NPhases
  <2>1. R = Phases \ (Phases \cap T) /\ Phases \cap T = T
    OBVIOUS
  <2> QED
    BY <2>1, PhasesFinite, FS_Difference
<1>2. r \in Nat /\ n \in 0..r
  BY <1>1, SizesTyped
<1>3. PICK f \in Bijection(1..r, R) : TRUE
  BY <1>1, FS_CardinalityType DEF ExistsBijection
<1> DEFINE A == {f[j] : j \in 1..n}
           g == [j \in 1..n |-> f[j]]
<1>4. f \in [1..r -> R] /\ \A i, j \in 1..r : f[i] = f[j] => i = j
  BY <1>3 DEF Bijection, Injection, IsInjective
<1>5. A \subseteq R /\ g \in Bijection(1..n, A)
  <2>1. \A j \in 1..n : j \in 1..r
    BY <1>2
  <2>2. A \subseteq R
    BY <1>4, <2>1
  <2>3. g \in [1..n -> A]
    OBVIOUS
  <2>4. \A i, j \in 1..n : g[i] = g[j] => i = j
    BY <1>4, <2>1
  <2>5. \A a \in A : \E j \in 1..n : g[j] = a
    OBVIOUS
  <2> QED
    BY <2>2, <2>3, <2>4, <2>5 DEF Bijection, Injection, Surjection, IsInjective
<1>6. IsFiniteSet(A) /\ Cardinality(A) = n
  <2>1. IsFiniteSet(1..n) /\ Cardinality(1..n) = n
    BY <1>2, FS_Interval
  <2> QED
    BY <1>5, <2>1, FS_Bijection DEF ExistsBijection
<1>7. T \cup A \in Combinations(k)
  <2>1. T \cap A = {} /\ T \cup A \subseteq Phases
    BY <1>5
  <2>2. Cardinality(T \cup A) = Cardinality(T) + n - 0
    <3>1. Cardinality(T \cup A) = Cardinality(T) + Cardinality(A) - Cardinality({})
      BY <1>1, <1>6, <2>1, FS_Union
    <3>2. Cardinality({}) = 0
      BY FS_EmptySet
    <3> QED
      BY <1>6, <3>1, <3>2
  <2> QED
    BY <1>1, <2>1, <2>2, SizesTyped DEF Combinations
<1> QED
  BY <1>7

--------------------------------------------------------------------------------
(* The order of the words *)

LEMMA PartsOfSet ==
  ASSUME NEW m \in SUBSET Columns
  PROVE  /\ SolnsOf(m) \subseteq Solns /\ PhasesOf(m) \subseteq Phases
         /\ m = SetOf(SolnsOf(m), PhasesOf(m))
         /\ Final \in m => NSolns - 1 \in SolnsOf(m)
<1>1. ASSUME NEW x \in m PROVE x \in SetOf(SolnsOf(m), PhasesOf(m))
  <2>1. CASE x < NPhases
    BY <2>1, SizesTyped DEF SetOf, PhasesOf, Phases
  <2>2. CASE ~(x < NPhases)
    <3>1. x - NPhases \in Solns /\ NPhases + (x - NPhases) = x
      BY <2>2, SizesTyped DEF Solns
    <3> QED
      BY <3>1 DEF SetOf, SolnsOf
  <2> QED
    BY <2>1, <2>2
<1>2. SetOf(SolnsOf(m), PhasesOf(m)) \subseteq m
  BY DEF SetOf, SolnsOf, PhasesOf
<1>3. Final \in m => NSolns - 1 \in SolnsOf(m)
  <2>1. NPhases + (NSolns - 1) = Final /\ NSolns - 1 \in Solns
    BY SizesTyped DEF Solns
  <2> QED
    BY <2>1 DEF SolnsOf
<1> QED
  BY <1>1, <1>2, <1>3 DEF SolnsOf, PhasesOf

\* A word is higher than what is part of it.
LEMMA PartIsLower ==
  ASSUME NEW word \in SUBSET Solns, NEW part \in SUBSET word, part # word
  PROVE  Higher(word, part)
<1>1. NSolns - 1 \in Nat /\ word \ part \in SUBSET (0..(NSolns - 1)) /\ word \ part # {}
  <2>1. word \ part # {}
    BY Zenon
  <2> QED
    BY <2>1, SizesTyped DEF Solns
<1>2. PICK i \in word \ part : \A j \in word \ part : j <= i
  BY <1>1, LargestElement
<1>3. \A j \in Solns : j > i => (j \in word <=> j \in part)
  BY <1>1, <1>2 DEF Solns
<1> QED
  BY <1>2, <1>3 DEF Higher

\* The words above word - 1 are this word and those above it.
LEMMA NextWord ==
  ASSUME NEW word \in SUBSET Solns, word # {},
         NEW other \in SUBSET Solns, Higher(other, Decremented(word))
  PROVE  other = word \/ Higher(other, word)
<1>1. word \in SUBSET Nat
  BY SizesTyped DEF Solns
<1>2. PICK low \in word : \A j \in word : low <= j
  BY <1>1, SmallestElement
<1>3. \A i \in Solns : i \in Nat
  BY SizesTyped DEF Solns
<1>4. \A i \in Solns : i \in Decremented(word) <=> (i < low \/ (i > low /\ i \in word))
  <2> SUFFICES ASSUME NEW i \in Solns
               PROVE  i \in Decremented(word) <=> (i < low \/ (i > low /\ i \in word))
    OBVIOUS
  <2>1. (\E j \in word : j < i) <=> low < i
    <3>1. \A j \in word : j \in Nat
      BY <1>1
    <3> QED
      BY <1>2, <1>3, <3>1
  <2>2. i \in word => low <= i
    BY <1>2
  <2>3. i \in Nat /\ low \in Nat
    BY <1>1, <1>3
  <2>4. i = low => i \in word
    OBVIOUS
  <2> QED
    BY <2>1, <2>2, <2>3, <2>4 DEF Decremented, Solns
<1>5. PICK x \in other \ Decremented(word) :
        \A j \in Solns : j > x => (j \in other <=> j \in Decremented(word))
  BY DEF Higher
<1>6. x \in Solns /\ x \in Nat /\ low \in Nat /\ ~(x < low)
  BY <1>1, <1>3, <1>4, <1>5
<1>7. \A j \in Solns : j > x => (j \in other <=> j \in word)
  <2> SUFFICES ASSUME NEW j \in Solns, j > x PROVE j \in other <=> j \in word
    OBVIOUS
  <2>1. j > low /\ ~(j < low)
    BY <1>3, <1>6
  <2> QED
    BY <1>4, <1>5, <2>1
<1>8. CASE x > low
  <2>1. x \notin word
    BY <1>4, <1>5, <1>6, <1>8
  <2> QED
    BY <1>5, <1>7, <2>1 DEF Higher
<1>9. CASE x = low
  <2>1. word \subseteq other
    <3> SUFFICES ASSUME NEW j \in word PROVE j \in other
      OBVIOUS
    <3>1. j = low \/ j > low
      BY <1>1, <1>2, <1>6
    <3> QED
      BY <1>5, <1>7, <1>9, <3>1
  <2> QED
    BY <2>1, PartIsLower
<1> QED
  BY <1>6, <1>8, <1>9

--------------------------------------------------------------------------------
(* What the search has not found yet *)

\* The minimal models yet to be found
Missing == Minimal \ Members(minimal)

Searching == {"size", "sets", "visit", "minimal"}

\* Has the search passed this set of phases in this round?
Passed(phases) ==
  Before(phases, phase_bits) \/ (pc = "sets" /\ phases = phase_bits)

\* The control of the rounds.
RoundsKept ==
  /\ pc = "begin" => first
  /\ pc \in Searching => HasInitial(soln_bits)
  /\ pc = "done" => ~HasInitial(soln_bits)
  /\ pc \in {"visit", "minimal"} => ~first_of_model_size
  /\ pc \in {"sets", "visit", "minimal"} /\ ~first_of_model_size => Increases(now, model_size)
  /\ first => model_size = NPhases /\ quit /\ minimal = <<>> /\ pc # "minimal"

\* No minimal model with the solutions of an earlier word is missing,
WordsPassed ==
  pc \in Searching \cup {"done"} => \A m \in Missing : ~Higher(SolnsOf(m), soln_bits)

\* none of this word has more phases than the sets of this round,
SizesPassed ==
  pc \in Searching =>
    \A m \in Missing : SolnsOf(m) = soln_bits => Cardinality(PhasesOf(m)) <= model_size

\* none is a set this round has passed, nor part of one if the round may quit,
SetsPassed ==
  pc \in {"sets", "visit", "minimal"} /\ ~first_of_model_size =>
    \A m \in Missing : SolnsOf(m) = soln_bits =>
      \A T \in Combinations(model_size) : Passed(T) =>
        PhasesOf(m) # T /\ (quit => ~(PhasesOf(m) \subseteq T))

\* and if the set that minimal_solve reduces is one, it is reduced to itself.
ReducedToItself ==
  pc = "minimal" => ~quit /\ \A m \in Missing : m = current_bits => minimal_bits = m

MinimalAreGood == Members(minimal) \subseteq Members(good)

Complete ==
  /\ Exact /\ MinimalAreGood /\ RoundsKept
  /\ WordsPassed /\ SizesPassed /\ SetsPassed /\ ReducedToItself

LEMMA CompleteInit == Init => Complete
BY ExactInit, SizesTyped DEF Init, Complete, MinimalAreGood, RoundsKept, WordsPassed,
   SizesPassed, SetsPassed, ReducedToItself, Members, Searching

LEMMA TypesOfComplete ==
  ASSUME Complete
  PROVE  /\ Typed /\ PruningSound /\ Members(minimal) \subseteq Minimal
         /\ soln_bits \in SUBSET Solns /\ model_size \in 0..NPhases
         /\ minimal \in Seq(Words) /\ good \in Seq(Words)
         /\ \A m \in models : m \subseteq Columns /\ Final \in m
         /\ pc \in {"sets", "visit", "minimal"} /\ ~first_of_model_size =>
              /\ Increases(now, model_size) /\ phase_bits = Listed(now)
              /\ phase_bits \in Combinations(model_size)
<1>1. /\ Typed /\ PruningSound /\ Members(minimal) \subseteq Minimal /\ RoundsKept
      /\ soln_bits \in SUBSET Solns /\ model_size \in 0..NPhases
      /\ minimal \in Seq(Words) /\ good \in Seq(Words)
      /\ \A m \in models : m \subseteq Columns /\ Final \in m
  BY DEF Complete, Exact, Sound, Typed, TypeOK, MinimalIsMinimal, Solns
<1>2. phase_bits = Listed(now)
  BY DEF phase_bits, Listed
<1> QED
  BY <1>1, <1>2, ListedCombination DEF RoundsKept, Listed

\* What is found stays found.
LEMMA MissingShrinks ==
  ASSUME Complete, [Next]_vars
  PROVE  /\ Missing' \subseteq Missing /\ UNCHANGED models
         /\ minimal' = minimal => Missing' = Missing
<1>1. UNCHANGED models
  BY DEF Next, Begin, BeginSize, NextSet, EndOfSize, SkipKnown, SkipUnwanted, SolveFails,
     SolveSucceeds, TryWithout, SaveMinimal, Stop, vars
<1>2. CASE minimal' = minimal
  BY <1>1, <1>2 DEF Missing, Minimal, Members
<1>3. CASE SaveMinimal
  <2>1. PICK m \in ModelsIn(minimal_bits) : minimal' = Append(minimal, WithBits({}, m))
    BY <1>3 DEF SaveMinimal
  <2>2. WithBits({}, m) \in Words
    BY <1>3, <2>1, TypesOfComplete, WithBitsOfModel
       DEF SaveMinimal, ModelsIn, Typed, Fits, Pcs
  <2>3. Members(minimal') = Members(minimal) \cup {WithBits({}, m)}
    BY <2>1, <2>2, TypesOfComplete, AppendMembers
  <2> QED
    BY <1>1, <1>2, <2>3 DEF Missing, Minimal
<1> QED
  BY <1>1, <1>2, <1>3 DEF Next, Begin, BeginSize, NextSet, EndOfSize, SkipKnown,
     SkipUnwanted, SolveFails, SolveSucceeds, TryWithout, Stop, vars, listVars

\* A missing model is a model, made of its solutions and its phases.
LEMMA MissingModel ==
  ASSUME Complete, NEW m \in Missing
  PROVE  /\ m \in models /\ m \in SUBSET Columns /\ m \notin Members(minimal)
         /\ \A n \in models : n \subseteq m => n = m
         /\ SolnsOf(m) \in SUBSET Solns /\ PhasesOf(m) \in SUBSET Phases
         /\ SolnsOf(m) = soln_bits => m = SetOf(soln_bits, PhasesOf(m))
         /\ NSolns - 1 \in SolnsOf(m)
         /\ Cardinality(PhasesOf(m)) \in 0..NPhases
<1>1. m \in models /\ m \in SUBSET Columns /\ m \notin Members(minimal) /\ Final \in m
  BY TypesOfComplete DEF Missing, Minimal
<1>2. \A n \in models : n \subseteq m => n = m
  BY DEF Missing, Minimal
<1> QED
  BY <1>1, <1>2, PartsOfSet, PhasesFinite

\* The set the search looks at is made of the solutions and the phases it has got to.
LEMMA CurrentParts == current_bits = SetOf(soln_bits, phase_bits)
  BY DEF current_bits, SetOf, Solutions

\* The steps within a round leave what earlier rounds have passed.
LEMMA EarlierRoundsKept ==
  ASSUME Complete, [Next]_vars, UNCHANGED <<soln_bits, model_size>>, pc \in Searching
  PROVE  WordsPassed' /\ SizesPassed'
<1>1. Missing' \subseteq Missing
  BY MissingShrinks
<1>2. /\ \A m \in Missing : ~Higher(SolnsOf(m), soln_bits)
      /\ \A m \in Missing :
           SolnsOf(m) = soln_bits => Cardinality(PhasesOf(m)) <= model_size
  BY DEF Complete, WordsPassed, SizesPassed
<1>3. WordsPassed'
  BY <1>1, <1>2 DEF WordsPassed
<1> QED
  BY <1>1, <1>2, <1>3 DEF SizesPassed

\* The current set is passed when no missing model is it, nor part of it if the
\* round may still quit.
LEMMA CurrentPassed ==
  ASSUME Complete, [Next]_vars, pc \in {"visit", "minimal"}, pc' = "sets",
         UNCHANGED <<soln_bits, model_size, now, first_of_model_size>>, quit' => quit,
         \A m \in Missing' : m # current_bits /\ (quit' => ~(m \subseteq current_bits))
  PROVE  SetsPassed'
<1>1. Missing' \subseteq Missing
  BY MissingShrinks
<1>2. /\ phase_bits' = phase_bits /\ ~first_of_model_size
      /\ phase_bits \in Combinations(model_size)
  BY TypesOfComplete DEF phase_bits, Complete, RoundsKept
<1> SUFFICES ASSUME NEW m \in Missing', SolnsOf(m) = soln_bits,
                    NEW T \in Combinations(model_size),
                    Before(T, phase_bits) \/ T = phase_bits
             PROVE  PhasesOf(m) # T /\ (quit' => ~(PhasesOf(m) \subseteq T))
  BY <1>2 DEF SetsPassed, Passed
<1>3. m = SetOf(soln_bits, PhasesOf(m))
  BY <1>1, MissingModel
<1>4. CASE T = phase_bits
  <2>1. PhasesOf(m) # T
    BY <1>3, <1>4, CurrentParts
  <2>2. quit' => ~(PhasesOf(m) \subseteq T)
    BY <1>3, <1>4, CurrentParts DEF SetOf
  <2> QED
    BY <2>1, <2>2
<1>5. CASE Before(T, phase_bits)
  BY <1>1, <1>2, <1>5 DEF Complete, SetsPassed, Passed
<1> QED
  BY <1>4, <1>5

\* A known set has no missing model: neither a set without a model does, nor a
\* part of a minimal model.
LEMMA KnownHasNone ==
  ASSUME Complete, Known, NEW m \in Missing
  PROVE  ~(m \subseteq current_bits)
<1> SUFFICES ASSUME m \subseteq current_bits PROVE FALSE
  OBVIOUS
<1>1. m \in models /\ m \notin Members(minimal) /\ \A n \in models : n \subseteq m => n = m
  BY MissingModel
<1>2. CASE subset_bad(current_bits)
  <2>1. PICK b \in Members(bad) : current_bits \subseteq b /\ ModelsIn(b) = {}
    BY <1>2, TypesOfComplete DEF subset_bad, PruningSound
  <2> QED
    BY <1>1, <2>1 DEF ModelsIn
<1>3. CASE subset_minimal(current_bits)
  <2>1. PICK n \in Members(minimal) : current_bits \subseteq n /\ n \in Minimal
    BY <1>3, TypesOfComplete DEF subset_minimal
  <2>2. m = n
    BY <1>1, <2>1 DEF Minimal
  <2> QED
    BY <1>1, <2>1, <2>2
<1> QED
  BY <1>2, <1>3 DEF Known

\* A missing model has no minimal model found before among its parts.
LEMMA MissingIsNoSuperset ==
  ASSUME Complete, NEW m \in Missing
  PROVE  ~superset_minimal(m)
BY MissingModel, TypesOfComplete DEF superset_minimal, Minimal

--------------------------------------------------------------------------------
(* Each step of the search misses nothing *)

\* When a size is left, nothing of this size is missing; when the word is left,
\* nothing of the word is.
LEMMA LeaveSizeComplete ==
  ASSUME Complete, [Next]_vars, pc \in {"sets", "visit"}, NEW n \in BOOLEAN, LeaveSize(n),
         minimal' = minimal, first' => first /\ n /\ quit',
         \A m \in Missing : SolnsOf(m) = soln_bits =>
           ~(n \/ model_size = 0) /\ Cardinality(PhasesOf(m)) <= model_size - 1
  PROVE  RoundsKept' /\ WordsPassed' /\ SizesPassed' /\ SetsPassed' /\ ReducedToItself'
<1>1. /\ Missing' = Missing /\ soln_bits \in SUBSET Solns /\ soln_bits # {}
      /\ \A m \in Missing : ~Higher(SolnsOf(m), soln_bits)
      /\ \A m \in Missing : SolnsOf(m) \in SUBSET Solns
      /\ \A m \in Missing : Cardinality(PhasesOf(m)) \in 0..NPhases
  BY MissingShrinks, MissingModel, TypesOfComplete
     DEF Complete, WordsPassed, RoundsKept, Searching, HasInitial
<1>2. CASE n \/ model_size = 0
  <2>1. /\ soln_bits' = Decremented(soln_bits) /\ model_size' = NPhases
        /\ pc' = IF HasInitial(soln_bits') THEN "size" ELSE "done"
    BY <1>2 DEF LeaveSize
  <2>2. ASSUME NEW m \in Missing PROVE ~Higher(SolnsOf(m), soln_bits')
    BY <1>1, <1>2, <2>1, NextWord
  <2>3. RoundsKept'
    BY <2>1 DEF RoundsKept, Complete, HasInitial, Searching
  <2>4. WordsPassed'
    BY <1>1, <2>2 DEF WordsPassed
  <2>5. SizesPassed'
    BY <1>1, <2>1, SizesTyped DEF SizesPassed
  <2> QED
    BY <2>1, <2>3, <2>4, <2>5 DEF SetsPassed, ReducedToItself
<1>3. CASE ~(n \/ model_size = 0)
  <2>1. soln_bits' = soln_bits /\ model_size' = model_size - 1 /\ pc' = "size"
    BY <1>3 DEF LeaveSize
  <2>2. RoundsKept'
    BY <1>3, <2>1 DEF RoundsKept, Complete, HasInitial, Searching
  <2>3. WordsPassed'
    BY <1>1, <2>1 DEF WordsPassed
  <2>4. SizesPassed'
    BY <1>1, <2>1 DEF SizesPassed
  <2> QED
    BY <2>1, <2>2, <2>3, <2>4 DEF SetsPassed, ReducedToItself
<1> QED
  BY <1>2, <1>3

LEMMA BeginComplete ==
  ASSUME Complete, Begin
  PROVE  RoundsKept' /\ WordsPassed' /\ SizesPassed' /\ SetsPassed' /\ ReducedToItself'
<1>1. [Next]_vars
  BY DEF Next
<1>2. /\ pc = "begin" /\ UNCHANGED <<model_size, minimal, first, quit>>
      /\ first /\ model_size = NPhases /\ quit /\ minimal = <<>>
  BY DEF Begin, Complete, RoundsKept, listVars
<1>3. CASE pc' = "stopped"
  BY <1>2, <1>3 DEF RoundsKept, WordsPassed, SizesPassed, SetsPassed, ReducedToItself, Searching
<1>4. CASE soln_bits' = Solns /\ pc' = IF HasInitial(soln_bits') THEN "size" ELSE "done"
  <2>1. \A m \in Missing' : /\ SolnsOf(m) \in SUBSET Solns
                            /\ Cardinality(PhasesOf(m)) \in 0..NPhases
    BY <1>1, MissingShrinks, MissingModel
  <2>2. WordsPassed'
    BY <1>4, <2>1 DEF WordsPassed, Higher
  <2>3. SizesPassed'
    BY <1>2, <2>1, SizesTyped DEF SizesPassed
  <2>4. RoundsKept'
    BY <1>2, <1>4 DEF RoundsKept, HasInitial, Searching
  <2> QED
    BY <1>4, <2>2, <2>3, <2>4 DEF SetsPassed, ReducedToItself
<1> QED
  BY <1>3, <1>4 DEF Begin, Solns

LEMMA BeginSizeComplete ==
  ASSUME Complete, BeginSize
  PROVE  RoundsKept' /\ WordsPassed' /\ SizesPassed' /\ SetsPassed' /\ ReducedToItself'
<1>1. [Next]_vars
  BY DEF Next
<1>2. /\ pc = "size" /\ pc' = "sets" /\ first_of_model_size' = TRUE /\ quit' = TRUE
      /\ UNCHANGED <<soln_bits, model_size, first, minimal>>
  BY DEF BeginSize, listVars
<1>3. WordsPassed' /\ SizesPassed'
  BY <1>1, <1>2, EarlierRoundsKept DEF Searching
<1>4. RoundsKept'
  BY <1>2 DEF Complete, RoundsKept, Searching, HasInitial
<1> QED
  BY <1>2, <1>3, <1>4 DEF SetsPassed, ReducedToItself

\* The sets before the next one of a round are those it has passed.
LEMMA NextSetComplete ==
  ASSUME Complete, NextSet
  PROVE  RoundsKept' /\ WordsPassed' /\ SizesPassed' /\ SetsPassed' /\ ReducedToItself'
<1>1. [Next]_vars
  BY DEF Next
<1>2. /\ pc = "sets" /\ pc' = "visit" /\ ~first_of_model_size'
      /\ UNCHANGED <<soln_bits, model_size, first, minimal, quit>>
  BY DEF NextSet, listVars
<1>3. WordsPassed' /\ SizesPassed'
  BY <1>1, <1>2, EarlierRoundsKept DEF Searching
<1>4. Missing' = Missing
  BY <1>1, <1>2, MissingShrinks
<1>5. PICK k \in 0..NPhases : k = model_size
  BY TypesOfComplete
<1>6. phase_bits' = Listed(now')
  BY DEF phase_bits, Listed
<1>7. /\ Increases(now', k)
      /\ \A T \in Combinations(k) : Before(T, Listed(now')) =>
           ~first_of_model_size /\ (T = phase_bits \/ Before(T, phase_bits))
  <2>1. CASE first_of_model_size /\ now' = [q \in 1..k |-> q - 1]
    <3>1. Listed(now') = 0..(k - 1)
      <4>1. DOMAIN now' = 1..k /\ \A q \in 1..k : now'[q] = q - 1
        BY <2>1
      <4>2. \A x \in 0..(k - 1) : x + 1 \in 1..k /\ x + 1 - 1 = x
        BY SizesTyped
      <4>3. \A q \in 1..k : q - 1 \in 0..(k - 1)
        BY SizesTyped
      <4>4. Listed(now') \subseteq 0..(k - 1)
        BY <4>1, <4>3 DEF Listed
      <4>5. ASSUME NEW x \in 0..(k - 1) PROVE x \in Listed(now')
        <5>1. now'[x + 1] = x
          BY <4>1, <4>2
        <5> QED
          BY <4>1, <4>2, <5>1 DEF Listed
      <4> QED
        BY <4>4, <4>5
    <3>2. Increases(now', k)
      BY <2>1, FirstIncreases
    <3>3. \A T \in Combinations(k) : ~Before(T, 0..(k - 1))
      BY FirstCombination
    <3> QED
      BY <3>1, <3>2, <3>3
  <2>2. CASE ~first_of_model_size /\ NextCombination
    <3>1. /\ Increases(now, k) /\ phase_bits = Listed(now)
          /\ \A q \in 1..k : now[q] \in Int
      BY <1>2, <1>5, <2>2, TypesOfComplete, SizesTyped DEF Increases, Phases
    <3>2. PICK i \in Movable :
            /\ \A q \in Movable : q <= i
            /\ now' = [q \in 1..k |-> IF q < i THEN now[q] ELSE now[i] + 1 + (q - i)]
      BY <1>5, <2>2 DEF NextCombination
    <3>3. /\ i \in 1..k /\ now[i] < NPhases - k + i - 1
          /\ \A q \in 1..k : q > i => ~(now[q] < NPhases - k + q - 1)
      <4>1. \A q \in 1..k : q \in Movable <=> now[q] < NPhases - k + q - 1
        BY <1>5 DEF Movable, max_position
      <4>2. i \in 1..k
        BY <1>5, <3>2 DEF Movable
      <4> QED
        BY <3>2, <4>1, <4>2
    <3>4. /\ now' \in [1..k -> Int]
          /\ \A q \in 1..k : q < i => now'[q] = now[q]
          /\ \A q \in 1..k : ~(q < i) => now'[q] = now[i] + 1 + (q - i)
      BY <3>1, <3>2, <3>3
    <3>5. /\ Increases(now', k)
          /\ \A T \in Combinations(k) : Before(T, Listed(now')) =>
               T = Listed(now) \/ Before(T, Listed(now))
      BY <3>1, <3>3, <3>4, NextOfList
    <3> QED
      BY <2>2, <3>1, <3>5
  <2> QED
    BY <1>5, <2>1, <2>2 DEF NextSet
<1>8. RoundsKept'
  BY <1>2, <1>5, <1>7 DEF Complete, RoundsKept, Searching, HasInitial
<1>9. SetsPassed'
  <2> SUFFICES ASSUME NEW m \in Missing, SolnsOf(m) = soln_bits,
                      NEW T \in Combinations(k), Before(T, Listed(now'))
               PROVE  PhasesOf(m) # T /\ (quit => ~(PhasesOf(m) \subseteq T))
    BY <1>2, <1>4, <1>5, <1>6 DEF SetsPassed, Passed
  <2>1. ~first_of_model_size /\ Passed(T)
    BY <1>2, <1>7 DEF Passed
  <2> QED
    BY <1>2, <1>5, <2>1 DEF Complete, SetsPassed
<1> QED
  BY <1>2, <1>3, <1>8, <1>9 DEF ReducedToItself

\* A round ends when it has passed every set of its size; if it quits, every
\* smaller set is part of one of those.
LEMMA EndOfSizeComplete ==
  ASSUME Complete, EndOfSize
  PROVE  RoundsKept' /\ WordsPassed' /\ SizesPassed' /\ SetsPassed' /\ ReducedToItself'
<1>1. [Next]_vars
  BY DEF Next
<1>2. /\ pc = "sets" /\ ~first_of_model_size /\ Movable = {} /\ LeaveSize(quit)
      /\ UNCHANGED <<first, quit, minimal>> /\ quit \in BOOLEAN
  BY TypesOfComplete DEF EndOfSize, listVars, Typed, TypeOK
<1>3. PICK k \in 0..NPhases : k = model_size
  BY TypesOfComplete
<1>4. \A T \in Combinations(k) : Passed(T)
  <2>1. Increases(now, k) /\ phase_bits = Listed(now)
    BY <1>2, <1>3, TypesOfComplete
  <2>2. \A q \in 1..k : ~(now[q] < NPhases - k + q - 1)
    BY <1>2, <1>3 DEF Movable, max_position
  <2> QED
    BY <1>2, <2>1, <2>2, LastOfList DEF Passed
<1>5. ASSUME NEW m \in Missing, SolnsOf(m) = soln_bits
      PROVE  ~(quit \/ k = 0) /\ Cardinality(PhasesOf(m)) <= k - 1
  <2>1. /\ PhasesOf(m) \in SUBSET Phases /\ Cardinality(PhasesOf(m)) \in 0..NPhases
        /\ Cardinality(PhasesOf(m)) <= k
    BY <1>2, <1>3, <1>5, MissingModel DEF Complete, SizesPassed, Searching
  <2>2. \A T \in Combinations(k) : PhasesOf(m) # T /\ (quit => ~(PhasesOf(m) \subseteq T))
    BY <1>2, <1>3, <1>4, <1>5 DEF Complete, SetsPassed
  <2>3. Cardinality(PhasesOf(m)) # k
    BY <2>1, <2>2 DEF Combinations
  <2>4. Cardinality(PhasesOf(m)) < k
    BY <2>1, <2>3
  <2>5. ~quit
    BY <2>1, <2>2, <2>4, LargerCombination
  <2> QED
    BY <2>1, <2>4, <2>5
<1> QED
  <2>1. first' => first /\ quit /\ quit'
    BY <1>2 DEF Complete, RoundsKept
  <2> QED
    BY <1>1, <1>2, <1>3, <1>5, <2>1, LeaveSizeComplete

LEMMA SkipKnownComplete ==
  ASSUME Complete, SkipKnown
  PROVE  RoundsKept' /\ WordsPassed' /\ SizesPassed' /\ SetsPassed' /\ ReducedToItself'
<1>1. [Next]_vars
  BY DEF Next
<1>2. /\ pc = "visit" /\ pc' = "sets" /\ Known /\ UNCHANGED <<soln_bits, model_size, now>>
      /\ UNCHANGED <<first_of_model_size, quit, first, minimal>>
  BY DEF SkipKnown, loopVars, listVars
<1>3. WordsPassed' /\ SizesPassed'
  BY <1>1, <1>2, EarlierRoundsKept DEF Searching
<1>4. Missing' \subseteq Missing
  BY <1>1, MissingShrinks
<1>5. \A m \in Missing : ~(m \subseteq current_bits)
  BY <1>2, KnownHasNone
<1>6. SetsPassed'
  BY <1>1, <1>2, <1>4, <1>5, CurrentPassed
<1>7. RoundsKept'
  BY <1>2 DEF Complete, RoundsKept, Searching, HasInitial, Increases
<1> QED
  BY <1>2, <1>3, <1>6, <1>7 DEF ReducedToItself

LEMMA SkipUnwantedComplete ==
  ASSUME Complete, SkipUnwanted
  PROVE  RoundsKept' /\ WordsPassed' /\ SizesPassed' /\ SetsPassed' /\ ReducedToItself'
<1>1. [Next]_vars
  BY DEF Next
<1>2. /\ pc = "visit" /\ pc' = "sets" /\ quit' = FALSE /\ superset_minimal(current_bits)
      /\ UNCHANGED <<soln_bits, model_size, now, first_of_model_size, first, minimal>>
  BY DEF SkipUnwanted, Unwanted, listVars
<1>3. WordsPassed' /\ SizesPassed'
  BY <1>1, <1>2, EarlierRoundsKept DEF Searching
<1>4. Missing' \subseteq Missing
  BY <1>1, MissingShrinks
<1>5. \A m \in Missing : m # current_bits
  BY <1>2, MissingIsNoSuperset
<1>6. SetsPassed'
  BY <1>1, <1>2, <1>4, <1>5, CurrentPassed
<1>7. ~first
  BY <1>2 DEF Complete, RoundsKept, superset_minimal, Members
<1>8. RoundsKept'
  BY <1>2, <1>7 DEF Complete, RoundsKept, Searching, HasInitial, Increases
<1> QED
  BY <1>2, <1>3, <1>6, <1>8 DEF ReducedToItself

\* If the first set of a word fails, before any set has been feasible, it has all
\* phases: nothing of the word is a model.
LEMMA SolveFailsComplete ==
  ASSUME Complete, SolveFails
  PROVE  RoundsKept' /\ WordsPassed' /\ SizesPassed' /\ SetsPassed' /\ ReducedToItself'
<1>1. [Next]_vars
  BY DEF Next
<1>2. /\ pc = "visit" /\ ModelsIn(current_bits) = {} /\ quit' = first
      /\ UNCHANGED <<first_of_model_size, first, minimal>>
  BY DEF SolveFails
<1>3. \A m \in Missing : ~(m \subseteq current_bits)
  BY <1>2, MissingModel DEF ModelsIn
<1>4. CASE first
  <2>1. LeaveSize(TRUE) /\ model_size = NPhases /\ quit'
    BY <1>2, <1>4 DEF SolveFails, Complete, RoundsKept
  <2>2. phase_bits = Phases
    <3>1. phase_bits \in Combinations(NPhases)
      BY <1>2, <2>1, TypesOfComplete DEF Complete, RoundsKept
    <3>2. Phases \in Combinations(NPhases) /\ phase_bits \subseteq Phases
      BY <3>1, PhasesFinite DEF Combinations
    <3> QED
      BY <3>1, <3>2, CombinationsDiffer
  <2>3. \A m \in Missing : SolnsOf(m) # soln_bits
    <3> SUFFICES ASSUME NEW m \in Missing, SolnsOf(m) = soln_bits PROVE FALSE
      OBVIOUS
    <3>1. m = SetOf(soln_bits, PhasesOf(m)) /\ PhasesOf(m) \subseteq Phases
      BY MissingModel
    <3>2. m \subseteq current_bits
      BY <2>2, <3>1, CurrentParts DEF SetOf
    <3> QED
      BY <1>3, <3>2
  <2> QED
    BY <1>1, <1>2, <1>4, <2>1, <2>3, LeaveSizeComplete
<1>5. CASE ~first
  <2>1. pc' = "sets" /\ quit' = FALSE /\ UNCHANGED <<soln_bits, model_size, now>>
    <3>1. quit' = FALSE
      BY <1>2, <1>5, TypesOfComplete DEF Typed, TypeOK
    <3> QED
      BY <1>5, <3>1 DEF SolveFails
  <2>2. WordsPassed' /\ SizesPassed'
    BY <1>1, <1>2, <2>1, EarlierRoundsKept DEF Searching
  <2>3. Missing' \subseteq Missing
    BY <1>1, MissingShrinks
  <2>4. \A m \in Missing : m # current_bits
    BY <1>3
  <2>5. SetsPassed'
    BY <1>1, <1>2, <2>1, <2>3, <2>4, CurrentPassed
  <2>6. RoundsKept'
    BY <1>2, <1>5, <2>1 DEF Complete, RoundsKept, Searching, HasInitial, Increases
  <2> QED
    BY <2>1, <2>2, <2>5, <2>6 DEF ReducedToItself
<1> QED
  BY <1>4, <1>5

LEMMA SolveSucceedsComplete ==
  ASSUME Complete, SolveSucceeds
  PROVE  RoundsKept' /\ WordsPassed' /\ SizesPassed' /\ SetsPassed' /\ ReducedToItself'
<1>1. [Next]_vars
  BY DEF Next
<1>2. PICK model \in ModelsIn(current_bits) :
        /\ minimal_bits' = Cleared(current_bits, Columns \ model)
        /\ pc' = IF superset_minimal(Cleared(current_bits, Columns \ model))
                 THEN "sets" ELSE "minimal"
  BY DEF SolveSucceeds
<1>3. /\ pc = "visit" /\ quit' = FALSE /\ first' = FALSE
      /\ UNCHANGED <<soln_bits, model_size, now, first_of_model_size, minimal>>
  BY DEF SolveSucceeds
<1>4. minimal_bits' = model /\ pc' = IF superset_minimal(model) THEN "sets" ELSE "minimal"
  <2>1. current_bits \subseteq Columns /\ NSolns + NPhases <= IntBits
    BY <1>3, TypesOfComplete, CurrentIsColumns DEF Typed, Fits, Pcs
  <2>2. model \in SUBSET current_bits /\ Final \in model
    BY <1>2, TypesOfComplete DEF ModelsIn
  <2>3. Cleared(current_bits, Columns \ model) = model
    BY <2>1, <2>2, ClearedKeepsModel
  <2> QED
    BY <1>2, <2>3
<1>5. WordsPassed' /\ SizesPassed'
  BY <1>1, <1>3, EarlierRoundsKept DEF Searching
<1>6. Missing' = Missing
  BY <1>1, <1>3, MissingShrinks
<1>7. \A m \in Missing : m = current_bits => m = model
  BY <1>2, MissingModel DEF ModelsIn
<1>8. RoundsKept'
  BY <1>3, <1>4 DEF Complete, RoundsKept, Searching, HasInitial, Increases
<1>9. CASE superset_minimal(model)
  <2>1. \A m \in Missing : m # current_bits
    BY <1>7, <1>9, MissingIsNoSuperset
  <2>2. SetsPassed'
    BY <1>1, <1>3, <1>4, <1>6, <1>9, <2>1, CurrentPassed
  <2> QED
    BY <1>4, <1>5, <1>8, <1>9, <2>2 DEF ReducedToItself
<1>10. CASE ~superset_minimal(model)
  <2>1. phase_bits' = phase_bits /\ current_bits' = current_bits
    BY <1>3 DEF phase_bits, current_bits, Solutions
  <2>2. ReducedToItself'
    BY <1>3, <1>4, <1>6, <1>7, <2>1 DEF ReducedToItself
  <2>3. SetsPassed'
    BY <1>3, <1>4, <1>6, <1>10, <2>1 DEF Complete, SetsPassed, Passed
  <2> QED
    BY <1>5, <1>8, <2>2, <2>3
<1> QED
  BY <1>9, <1>10

\* minimal_solve can spare no column of a minimal model.
LEMMA TryWithoutComplete ==
  ASSUME Complete, TryWithout
  PROVE  RoundsKept' /\ WordsPassed' /\ SizesPassed' /\ SetsPassed' /\ ReducedToItself'
<1>1. [Next]_vars
  BY DEF Next
<1>2. /\ pc = "minimal" /\ pc' = "minimal" /\ UNCHANGED <<soln_bits, model_size, now>>
      /\ UNCHANGED <<first_of_model_size, quit, first, minimal>>
  BY DEF TryWithout, loopVars
<1>3. WordsPassed' /\ SizesPassed'
  BY <1>1, <1>2, EarlierRoundsKept DEF Searching
<1>4. Missing' = Missing
  BY <1>1, <1>2, MissingShrinks
<1>5. phase_bits' = phase_bits /\ current_bits' = current_bits
  BY <1>2 DEF phase_bits, current_bits, Solutions
<1>6. RoundsKept'
  BY <1>2 DEF Complete, RoundsKept, Searching, HasInitial, Increases
<1>7. SetsPassed'
  BY <1>2, <1>4, <1>5 DEF Complete, SetsPassed, Passed
<1>8. ASSUME NEW m \in Missing, m = current_bits PROVE minimal_bits' = m
  <2>1. minimal_bits = m
    BY <1>2, <1>8 DEF Complete, ReducedToItself
  <2>2. \/ minimal_bits' = minimal_bits
        \/ /\ position \in minimal_bits /\ minimal_bits' = minimal_bits \ {position}
           /\ ModelsIn(minimal_bits \ {position}) # {}
    BY DEF TryWithout
  <2>3. position \in m => ModelsIn(m \ {position}) = {}
    BY MissingModel DEF ModelsIn
  <2> QED
    BY <2>1, <2>2, <2>3
<1>9. ReducedToItself'
  BY <1>2, <1>4, <1>5, <1>8 DEF Complete, ReducedToItself
<1> QED
  BY <1>3, <1>6, <1>7, <1>9

LEMMA SaveMinimalComplete ==
  ASSUME Complete, SaveMinimal, NSolns + NPhases < IntBits
  PROVE  RoundsKept' /\ WordsPassed' /\ SizesPassed' /\ SetsPassed' /\ ReducedToItself'
<1>1. [Next]_vars
  BY DEF Next
<1>2. PICK model \in ModelsIn(minimal_bits) : minimal' = Append(minimal, WithBits({}, model))
  BY DEF SaveMinimal
<1>3. /\ pc = "minimal" /\ pc' = "sets" /\ UNCHANGED <<soln_bits, model_size, now>>
      /\ UNCHANGED <<first_of_model_size, quit, first>> /\ ~quit /\ ~first
  BY DEF SaveMinimal, loopVars, Complete, ReducedToItself, RoundsKept
<1>4. WithBits({}, model) = model /\ model \in Words /\ model \in models
  <2>1. model \in SUBSET Columns /\ NSolns + NPhases <= IntBits /\ model \in models
    BY <1>2, TypesOfComplete, SizesTyped DEF ModelsIn
  <2> QED
    BY <2>1, WithBitsOfModel
<1>5. Members(minimal') = Members(minimal) \cup {model}
  BY <1>2, <1>4, TypesOfComplete, AppendMembers
<1>6. WordsPassed' /\ SizesPassed'
  BY <1>1, <1>3, EarlierRoundsKept DEF Searching
<1>7. Missing' \subseteq Missing \ {model}
  BY <1>1, <1>5, MissingShrinks DEF Missing
<1>8. ASSUME NEW m \in Missing', m = current_bits PROVE FALSE
  <2>1. m \in Missing /\ minimal_bits = m
    BY <1>3, <1>7, <1>8 DEF Complete, ReducedToItself
  <2>2. model = m
    BY <1>2, <1>4, <2>1, MissingModel DEF ModelsIn
  <2> QED
    BY <1>7, <2>2
<1>9. SetsPassed'
  BY <1>1, <1>3, <1>8, CurrentPassed
<1>10. RoundsKept'
  BY <1>3 DEF Complete, RoundsKept, Searching, HasInitial, Increases
<1> QED
  BY <1>3, <1>6, <1>9, <1>10 DEF ReducedToItself

\* Every minimal model is saved among the good ones too.
LEMMA MinimalStayGood ==
  ASSUME Complete, [Next]_vars
  PROVE  MinimalAreGood'
<1>1. Members(minimal) \subseteq Members(good)
  BY DEF Complete, MinimalAreGood
<1>2. CASE UNCHANGED <<good, minimal>>
  BY <1>1, <1>2 DEF MinimalAreGood, Members
<1>3. ASSUME NEW e \in Words, SaveGood(e)
      PROVE  Members(good') = Members(good) \cup {e}
  BY <1>3, TypesOfComplete, AppendMembers DEF SaveGood
<1>4. CASE SolveSucceeds
  <2>1. PICK model \in ModelsIn(current_bits) :
          good' = good \/ SaveGood(Cleared(current_bits, Columns \ model))
    BY <1>4 DEF SolveSucceeds
  <2>2. current_bits \subseteq Columns /\ NSolns + NPhases <= IntBits
    BY <1>4, TypesOfComplete, CurrentIsColumns DEF SolveSucceeds, Typed, Fits, Pcs
  <2>3. Cleared(current_bits, Columns \ model) \in Words
    BY <2>2, BitsOfAWord, SizesTyped DEF Cleared, Words
  <2>4. minimal' = minimal
    BY <1>4 DEF SolveSucceeds
  <2>5. Members(good) \subseteq Members(good')
    BY <1>3, <2>1, <2>3
  <2> QED
    BY <1>1, <2>4, <2>5 DEF MinimalAreGood, Members
<1>5. CASE SaveMinimal
  <2>1. PICK model \in ModelsIn(minimal_bits) :
          /\ SaveGood(WithBits({}, model))
          /\ minimal' = Append(minimal, WithBits({}, model))
    BY <1>5 DEF SaveMinimal
  <2>2. WithBits({}, model) \in Words
    BY <1>5, <2>1, TypesOfComplete, WithBitsOfModel DEF SaveMinimal, ModelsIn, Typed, Fits, Pcs
  <2>3. Members(minimal') = Members(minimal) \cup {WithBits({}, model)}
    BY <2>1, <2>2, TypesOfComplete, AppendMembers
  <2>4. Members(good') = Members(good) \cup {WithBits({}, model)}
    BY <1>3, <2>1, <2>2
  <2> QED
    BY <1>1, <2>3, <2>4 DEF MinimalAreGood
<1> QED
  BY <1>2, <1>4, <1>5 DEF Next, Begin, BeginSize, NextSet, EndOfSize, SkipKnown,
     SkipUnwanted, SolveFails, TryWithout, Stop, vars, listVars

LEMMA CompleteNext ==
  ASSUME NSolns + NPhases < IntBits
  PROVE  Complete /\ [Next]_vars => Complete'
<1> SUFFICES ASSUME Complete, [Next]_vars
             PROVE  RoundsKept' /\ WordsPassed' /\ SizesPassed' /\ SetsPassed' /\ ReducedToItself'
  BY ExactNext, MinimalStayGood DEF Complete
<1>1. CASE Stop
  BY <1>1 DEF Stop, Complete, RoundsKept, WordsPassed, SizesPassed, SetsPassed,
     ReducedToItself, Searching, loopVars, listVars
<1>2. CASE UNCHANGED vars
  <2>1. Missing' = Missing /\ phase_bits' = phase_bits /\ current_bits' = current_bits
    BY <1>2 DEF vars, loopVars, listVars, Missing, Minimal, Members, phase_bits,
       current_bits, Solutions
  <2> QED
    BY <1>2, <2>1 DEF vars, loopVars, listVars, Complete, RoundsKept, WordsPassed,
       SizesPassed, SetsPassed, ReducedToItself, Searching, Passed, HasInitial, Increases
<1> QED
  BY <1>1, <1>2, BeginComplete, BeginSizeComplete, NextSetComplete, EndOfSizeComplete,
     SkipKnownComplete, SkipUnwantedComplete, SolveFailsComplete, SolveSucceedsComplete,
     TryWithoutComplete, SaveMinimalComplete DEF Next

\* The search is exhaustive: whatever it prunes, wherever a round quits and
\* whichever models cl1 returns, when it is done it has found, and printed, every
\* minimal model with an initial solution.
THEOREM SearchFindsAll ==
  ASSUME NSolns + NPhases < IntBits
  PROVE  Spec => []AllMinimalFound
<1>1. Complete => AllMinimalFound
  <2> SUFFICES ASSUME Complete, pc = "done", NEW m \in Minimal,
                      NEW i \in 0..(NSolns - 2), NPhases + i \in m, m \in Missing
               PROVE  FALSE
    BY DEF AllMinimalFound, Missing, Complete, MinimalAreGood
  <2>1. ~HasInitial(soln_bits) /\ ~Higher(SolnsOf(m), soln_bits)
    BY DEF Complete, RoundsKept, WordsPassed
  <2>2. SolnsOf(m) \in SUBSET Solns /\ NSolns - 1 \in SolnsOf(m)
    BY MissingModel
  <2>3. i \in SolnsOf(m) /\ i # NSolns - 1
    BY SizesTyped DEF SolnsOf, Solns
  <2>4. soln_bits \subseteq {NSolns - 1}
    BY <2>1 DEF HasInitial
  <2>5. soln_bits \in SUBSET SolnsOf(m) /\ soln_bits # SolnsOf(m)
    BY <2>2, <2>3, <2>4
  <2>6. Higher(SolnsOf(m), soln_bits)
    BY <2>2, <2>5, PartIsLower
  <2> QED
    BY <2>1, <2>6
<1> QED
  BY <1>1, CompleteInit, CompleteNext, PTL DEF Spec

--------------------------------------------------------------------------------
(* What the search has still to do *)

\* The words of solutions below this one, the sets of this size to come, and the steps that
\* are left of the work on one set.
StageLeft == IF pc = "begin" THEN 2 ELSE IF pc \in Searching THEN 1 ELSE 0
WordsLeft == {word \in SUBSET Solns : Higher(soln_bits, word)}
SetsLeft  ==
  {T \in Combinations(model_size) :
     pc = "size" \/ first_of_model_size \/ Before(phase_bits, T)}
StepsLeft ==
  CASE pc = "size"    -> 1
    [] pc = "visit"   -> Final + 2
    [] pc = "minimal" -> Final + 1 - position
    [] OTHER          -> 0

Work ==
  <<StageLeft, <<Cardinality(WordsLeft), <<model_size, <<Cardinality(SetsLeft), StepsLeft>>>>>>>>

\* Tuples of that form, and the lexicographic order of them
Below  == OpToRel(<, Nat)
Works1 == Nat \X Nat
Works2 == Nat \X Works1
Works3 == Nat \X Works2
Works  == Nat \X Works3
Less1  == LexPairOrdering(Below, Below, Nat, Nat)
Less2  == LexPairOrdering(Below, Less1, Nat, Works1)
Less3  == LexPairOrdering(Below, Less2, Nat, Works2)
Less   == LexPairOrdering(Below, Less3, Nat, Works3)

LEMMA LessWellFounded == IsWellFoundedOn(Less, Works)
BY NatLessThanWellFounded, WFLexPairOrdering
   DEF Less, Less3, Less2, Less1, Works3, Works2, Works1, Works, Below

\* A pair is less if its first number is smaller, or its second part less.
LEMMA PairLess ==
  ASSUME NEW R, NEW S, NEW m \in Nat, NEW n \in Nat, NEW x \in S, NEW y \in S,
         m < n \/ (m = n /\ <<x, y>> \in R)
  PROVE  <<<<m, x>>, <<n, y>>>> \in LexPairOrdering(Below, R, Nat, S)
<1>1. m < n => <<m, n>> \in Below
  BY DEF Below, OpToRel
<1> QED
  BY <1>1 DEF LexPairOrdering

\* Both orders of sets are transitive.
LEMMA HigherTransitive ==
  ASSUME NEW A \in SUBSET Solns, NEW B \in SUBSET Solns, NEW C \in SUBSET Solns,
         Higher(A, B), Higher(B, C)
  PROVE  Higher(A, C)
<1>1. PICK p \in A \ B : \A j \in Solns : j > p => (j \in A <=> j \in B)
  BY DEF Higher
<1>2. PICK q \in B \ C : \A j \in Solns : j > q => (j \in B <=> j \in C)
  BY DEF Higher
<1>3. /\ p \in Int /\ q \in Int /\ p # q /\ \A j \in Solns : j \in Int
      /\ p \in Solns /\ q \in Solns
  BY <1>1, <1>2, SizesTyped DEF Solns
<1>4. CASE p > q
  <2>1. p \in A \ C
    BY <1>1, <1>2, <1>3, <1>4
  <2>2. \A j \in Solns : j > p => (j \in A <=> j \in C)
    BY <1>1, <1>2, <1>3, <1>4
  <2> QED
    BY <2>1, <2>2 DEF Higher
<1>5. CASE q > p
  <2>1. q \in A \ C
    BY <1>1, <1>2, <1>3, <1>5
  <2>2. \A j \in Solns : j > q => (j \in A <=> j \in C)
    BY <1>1, <1>2, <1>3, <1>5
  <2> QED
    BY <2>1, <2>2 DEF Higher
<1> QED
  BY <1>3, <1>4, <1>5

LEMMA BeforeTransitive ==
  ASSUME NEW A \in SUBSET Phases, NEW B \in SUBSET Phases, NEW C \in SUBSET Phases,
         Before(A, B), Before(B, C)
  PROVE  Before(A, C)
<1>1. PICK p \in A \ B : \A j \in Phases : j < p => (j \in A <=> j \in B)
  BY DEF Before
<1>2. PICK q \in B \ C : \A j \in Phases : j < q => (j \in B <=> j \in C)
  BY DEF Before
<1>3. /\ p \in Int /\ q \in Int /\ p # q /\ \A j \in Phases : j \in Int
      /\ p \in Phases /\ q \in Phases
  BY <1>1, <1>2, SizesTyped DEF Phases
<1>4. CASE p < q
  <2>1. p \in A \ C
    BY <1>1, <1>2, <1>3, <1>4
  <2>2. \A j \in Phases : j < p => (j \in A <=> j \in C)
    BY <1>1, <1>2, <1>3, <1>4
  <2> QED
    BY <2>1, <2>2 DEF Before
<1>5. CASE q < p
  <2>1. q \in A \ C
    BY <1>1, <1>2, <1>3, <1>5
  <2>2. \A j \in Phases : j < q => (j \in A <=> j \in C)
    BY <1>1, <1>2, <1>3, <1>5
  <2> QED
    BY <2>1, <2>2 DEF Before
<1> QED
  BY <1>3, <1>4, <1>5

\* word - 1 is below word.
LEMMA DecrementedIsLower ==
  ASSUME NEW word \in SUBSET Solns, word # {}
  PROVE  Decremented(word) \in SUBSET Solns /\ Higher(word, Decremented(word))
<1>1. word \in SUBSET Nat /\ \A i \in Solns : i \in Nat
  BY SizesTyped DEF Solns
<1>2. PICK low \in word : \A j \in word : low <= j
  BY <1>1, SmallestElement
<1>3. low \notin Decremented(word)
  BY <1>1, <1>2 DEF Decremented
<1>4. \A j \in Solns : j > low => (j \in word <=> j \in Decremented(word))
  BY <1>1, <1>2 DEF Decremented, Solns
<1> QED
  BY <1>3, <1>4 DEF Higher, Decremented, Solns

\* Fewer of a finite set are left when a member of them is done and none comes back.
LEMMA FewerLeft ==
  ASSUME NEW S, NEW T \in SUBSET S, IsFiniteSet(S), NEW x \in S, x \notin T
  PROVE  Cardinality(T) < Cardinality(S)
<1>1. T # S
  OBVIOUS
<1> QED
  BY <1>1, FS_Subset, FS_CardinalityType

LEMMA LeftIsFinite ==
  /\ IsFiniteSet(WordsLeft) /\ Cardinality(WordsLeft) \in Nat
  /\ IsFiniteSet(SetsLeft) /\ Cardinality(SetsLeft) \in Nat
<1>1. IsFiniteSet(SUBSET Solns) /\ IsFiniteSet(SUBSET Phases)
  <2>1. IsFiniteSet(Solns) /\ IsFiniteSet(Phases)
    BY SizesTyped, FS_Interval DEF Solns, Phases
  <2> QED
    BY <2>1, FS_SUBSET
<1>2. WordsLeft \subseteq SUBSET Solns /\ SetsLeft \subseteq SUBSET Phases
  BY DEF WordsLeft, SetsLeft, Combinations
<1> QED
  BY <1>1, <1>2, FS_Subset, FS_CardinalityType

--------------------------------------------------------------------------------
(* The search goes on *)

\* Where the loops are, for any number of columns
Rounds ==
  /\ Typed
  /\ pc \in Searching => HasInitial(soln_bits)
  /\ pc \in {"visit", "minimal"} => ~first_of_model_size
  /\ pc \in {"sets", "visit", "minimal"} /\ ~first_of_model_size => Increases(now, model_size)

LEMMA RoundsFacts ==
  ASSUME Rounds
  PROVE  /\ soln_bits \in SUBSET Solns /\ model_size \in 0..NPhases /\ model_size \in Nat
         /\ position \in Nat /\ position <= Final /\ Final \in Nat
         /\ first_of_model_size \in BOOLEAN /\ pc \in Pcs
  BY SizesTyped DEF Rounds, Typed, TypeOK, Columns, Final, Solns

\* The next set of a size is a later one.
LEMMA NextSetIsLater ==
  ASSUME Rounds, NextSet
  PROVE  /\ Increases(now', model_size)
         /\ phase_bits' \in Combinations(model_size)
         /\ ~first_of_model_size =>
              phase_bits \in Combinations(model_size) /\ Before(phase_bits, phase_bits')
<1>1. PICK k \in 0..NPhases : k = model_size
  BY RoundsFacts
<1>2. phase_bits = Listed(now) /\ phase_bits' = Listed(now')
  BY DEF phase_bits, Listed
<1>3. CASE first_of_model_size /\ now' = [q \in 1..k |-> q - 1]
  <2>1. Increases(now', k)
    BY <1>3, FirstIncreases
  <2>2. Listed(now') \in Combinations(k)
    BY <2>1, ListedCombination DEF Listed
  <2> QED
    BY <1>1, <1>2, <1>3, <2>1, <2>2
<1>4. CASE ~first_of_model_size /\ NextCombination
  <2>1. Increases(now, k) /\ \A q \in 1..k : now[q] \in Int
    BY <1>1, <1>4, SizesTyped DEF NextSet, Rounds, Increases, Phases
  <2>2. PICK i \in Movable :
          /\ \A q \in Movable : q <= i
          /\ now' = [q \in 1..k |-> IF q < i THEN now[q] ELSE now[i] + 1 + (q - i)]
    BY <1>1, <1>4 DEF NextCombination
  <2>3. /\ i \in 1..k /\ now[i] < NPhases - k + i - 1
        /\ \A q \in 1..k : q > i => ~(now[q] < NPhases - k + q - 1)
    <3>1. \A q \in 1..k : q \in Movable <=> now[q] < NPhases - k + q - 1
      BY <1>1 DEF Movable, max_position
    <3>2. i \in 1..k
      BY <1>1, <2>2 DEF Movable
    <3> QED
      BY <2>2, <3>1, <3>2
  <2>4. /\ now' \in [1..k -> Int]
        /\ \A q \in 1..k : q < i => now'[q] = now[q]
        /\ \A q \in 1..k : ~(q < i) => now'[q] = now[i] + 1 + (q - i)
    BY <2>1, <2>2, <2>3
  <2>5. Increases(now', k)
    BY <2>1, <2>3, <2>4, NextOfList
  <2>6. Before(Listed(now), Listed(now'))
    <3> DEFINE v == now[i]
    <3>1. /\ DOMAIN now = 1..k /\ DOMAIN now' = 1..k /\ v \in Int /\ i \in Int
          /\ \A q \in 1..k : q < i => now[q] < v
          /\ \A q \in 1..k : ~(q < i) => now[q] >= v /\ now'[q] > v
      <4>1. DOMAIN now = 1..k /\ DOMAIN now' = 1..k /\ v \in Int /\ i \in 1..k
        BY <2>1, <2>3, <2>4 DEF Increases
      <4>2. \A p, q \in 1..k : p <= q => now[q] - now[p] >= q - p
        BY <2>1 DEF Increases
      <4>3. ASSUME NEW q \in 1..k, q < i PROVE now[q] < v
        <5>1. v - now[q] >= i - q /\ now[q] \in Int
          BY <2>1, <4>1, <4>2, <4>3
        <5> QED
          BY <4>1, <4>3, <5>1
      <4>4. ASSUME NEW q \in 1..k, ~(q < i) PROVE now[q] >= v /\ now'[q] > v
        <5>1. now[q] - v >= q - i /\ now[q] \in Int /\ now'[q] = v + 1 + (q - i)
          BY <2>1, <2>4, <4>1, <4>2, <4>4
        <5> QED
          BY <4>1, <4>4, <5>1
      <4> QED
        BY <4>1, <4>3, <4>4
    <3>2. v \in Listed(now)
      BY <2>3, <3>1 DEF Listed
    <3>3. v \notin Listed(now')
      <4>1. \A q \in 1..k : now'[q] # v
        BY <2>4, <3>1
      <4> QED
        BY <3>1, <4>1 DEF Listed
    <3>4. ASSUME NEW z \in Phases, z < v PROVE z \in Listed(now) <=> z \in Listed(now')
      <4>1. z \in Int
        BY SizesTyped DEF Phases
      <4>2. \A q \in 1..k : now[q] = z <=> now'[q] = z
        <5> SUFFICES ASSUME NEW q \in 1..k PROVE now[q] = z <=> now'[q] = z
          OBVIOUS
        <5>1. CASE q < i
          BY <2>4, <5>1
        <5>2. CASE ~(q < i)
          BY <3>1, <3>4, <4>1, <5>2
        <5> QED
          BY <5>1, <5>2
      <4> QED
        BY <3>1, <4>2 DEF Listed
    <3> QED
      BY <3>2, <3>3, <3>4 DEF Before
  <2> QED
    <3>1. Listed(now) \in Combinations(k) /\ Listed(now') \in Combinations(k)
      BY <2>1, <2>5, ListedCombination DEF Listed
    <3> QED
      BY <1>1, <1>2, <2>5, <2>6, <3>1
<1> QED
  BY <1>1, <1>3, <1>4 DEF NextSet

LEMMA RoundsInit == Init => Rounds
  BY TypedInit DEF Init, Rounds, Searching

LEMMA RoundsNext ==
  ASSUME Rounds, [Next]_vars
  PROVE  Rounds'
<1>1. Typed'
  BY TypedNext DEF Rounds
<1>2. ASSUME NEW nothingNew, LeaveSize(nothingNew), pc \in Searching, UNCHANGED first_of_model_size
      PROVE  Rounds'
  BY <1>1, <1>2 DEF Rounds, LeaveSize, Searching, HasInitial
<1>3. CASE Begin
  BY <1>1, <1>3 DEF Begin, Rounds, Searching, HasInitial
<1>4. CASE BeginSize
  BY <1>1, <1>4 DEF BeginSize, Rounds, Searching, HasInitial
<1>5. CASE NextSet
  <2>1. Increases(now', model_size)
    BY <1>5, NextSetIsLater
  <2> QED
    BY <1>1, <1>5, <2>1 DEF NextSet, Rounds, Searching, HasInitial
<1>6. CASE EndOfSize
  BY <1>2, <1>6 DEF EndOfSize, Searching
<1>7. CASE SolveFails
  <2>1. CASE first
    BY <1>2, <1>7, <2>1 DEF SolveFails, Searching
  <2>2. CASE ~first
    BY <1>1, <1>7, <2>2 DEF SolveFails, Rounds, Searching, HasInitial
  <2> QED
    BY <2>1, <2>2
<1>8. CASE SkipKnown \/ SkipUnwanted
  BY <1>1, <1>8 DEF SkipKnown, SkipUnwanted, Rounds, Searching, HasInitial, loopVars
<1>9. CASE SolveSucceeds
  BY <1>1, <1>9 DEF SolveSucceeds, Rounds, Searching, HasInitial
<1>10. CASE TryWithout \/ SaveMinimal \/ Stop
  BY <1>1, <1>10 DEF TryWithout, SaveMinimal, Stop, Rounds, Searching, HasInitial, loopVars
<1>11. CASE UNCHANGED vars
  BY <1>1, <1>11 DEF vars, loopVars, Rounds, Searching, HasInitial
<1> QED
  BY <1>3, <1>4, <1>5, <1>6, <1>7, <1>8, <1>9, <1>10, <1>11 DEF Next

\* Every number of Work is natural, so a step that makes the first one it changes smaller
\* makes it less.
NumbersOfWork ==
  /\ StageLeft \in Nat /\ Cardinality(WordsLeft) \in Nat /\ model_size \in Nat
  /\ Cardinality(SetsLeft) \in Nat /\ StepsLeft \in Nat

LEMMA WorkTyped == Rounds => NumbersOfWork
<1> SUFFICES ASSUME Rounds PROVE NumbersOfWork
  OBVIOUS
<1>1. StageLeft \in Nat /\ StepsLeft \in Nat
  BY RoundsFacts DEF StageLeft, StepsLeft
<1> QED
  BY <1>1, RoundsFacts, LeftIsFinite DEF NumbersOfWork

LEMMA WorkShrinks ==
  ASSUME Rounds, Rounds',
         \/ StageLeft' < StageLeft
         \/ /\ StageLeft' = StageLeft /\ Cardinality(WordsLeft') < Cardinality(WordsLeft)
         \/ /\ StageLeft' = StageLeft /\ Cardinality(WordsLeft') = Cardinality(WordsLeft)
            /\ \/ model_size' < model_size
               \/ model_size' = model_size /\ Cardinality(SetsLeft') < Cardinality(SetsLeft)
               \/ /\ model_size' = model_size /\ Cardinality(SetsLeft') = Cardinality(SetsLeft)
                  /\ StepsLeft' < StepsLeft
  PROVE  <<Work', Work>> \in Less
<1>1. NumbersOfWork
  BY WorkTyped
<1>2. NumbersOfWork'
  BY WorkTyped, PTL
<1> DEFINE a == StageLeft
           b == Cardinality(WordsLeft)
           d == Cardinality(SetsLeft)
           e == StepsLeft
           v == StageLeft'
           w == Cardinality(WordsLeft')
           y == Cardinality(SetsLeft')
           z == StepsLeft'
<1>3. /\ a \in Nat /\ b \in Nat /\ d \in Nat /\ e \in Nat /\ model_size \in Nat
      /\ v \in Nat /\ w \in Nat /\ y \in Nat /\ z \in Nat /\ model_size' \in Nat
  BY <1>1, <1>2 DEF NumbersOfWork
<1>4. \/ v < a
      \/ v = a /\ w < b
      \/ v = a /\ w = b /\ model_size' < model_size
      \/ v = a /\ w = b /\ model_size' = model_size /\ y < d
      \/ v = a /\ w = b /\ model_size' = model_size /\ y = d /\ z < e
  OBVIOUS
<1>5. Work = <<a, <<b, <<model_size, <<d, e>>>>>>>> /\ Work' = <<v, <<w, <<model_size', <<y, z>>>>>>>>
  BY DEF Work
<1> HIDE DEF a, b, d, e, v, w, y, z
<1>6. /\ <<y, z>> \in Works1 /\ <<d, e>> \in Works1
      /\ y < d \/ (y = d /\ z < e) => <<<<y, z>>, <<d, e>>>> \in Less1
  <2>1. z < e => <<z, e>> \in Below
    BY <1>3 DEF Below, OpToRel
  <2> QED
    BY <1>3, <2>1, PairLess DEF Works1, Less1
<1>7. /\ <<model_size', <<y, z>>>> \in Works2 /\ <<model_size, <<d, e>>>> \in Works2
      /\ model_size' < model_size \/ (model_size' = model_size /\ <<<<y, z>>, <<d, e>>>> \in Less1)
           => <<<<model_size', <<y, z>>>>, <<model_size, <<d, e>>>>>> \in Less2
  BY <1>3, <1>6, PairLess DEF Works2, Less2
<1> DEFINE f == <<model_size, <<d, e>>>>
           g == <<model_size', <<y, z>>>>
<1>8. /\ <<w, g>> \in Works3 /\ <<b, f>> \in Works3
      /\ w < b \/ (w = b /\ <<g, f>> \in Less2) => <<<<w, g>>, <<b, f>>>> \in Less3
  <2> HIDE DEF f, g
  <2>1. f \in Works2 /\ g \in Works2
    BY <1>7 DEF f, g
  <2> QED
    BY <1>3, <2>1, PairLess DEF Works3, Less3
<1>9. v < a \/ (v = a /\ <<<<w, g>>, <<b, f>>>> \in Less3)
        => <<<<v, <<w, g>>>>, <<a, <<b, f>>>>>> \in Less
  <2> HIDE DEF f, g
  <2> QED
    BY <1>3, <1>8, PairLess DEF Less
<1> QED
  BY <1>4, <1>5, <1>6, <1>7, <1>8, <1>9

\* A word is left for a lower one.
LEMMA WordsShrink ==
  ASSUME Rounds, HasInitial(soln_bits), soln_bits' = Decremented(soln_bits)
  PROVE  Cardinality(WordsLeft') < Cardinality(WordsLeft)
<1>1. soln_bits \in SUBSET Solns /\ soln_bits # {}
  BY RoundsFacts DEF HasInitial
<1>2. soln_bits' \in SUBSET Solns /\ Higher(soln_bits, soln_bits')
  BY <1>1, DecrementedIsLower
<1>3. WordsLeft' \subseteq WordsLeft
  BY <1>1, <1>2, HigherTransitive DEF WordsLeft
<1>4. soln_bits' \in WordsLeft /\ soln_bits' \notin WordsLeft'
  BY <1>2 DEF WordsLeft, Higher
<1> QED
  BY <1>3, <1>4, FewerLeft, LeftIsFinite

\* The loops over words and sizes
LEMMA LeaveSizeShrinks ==
  ASSUME Rounds, Rounds', pc \in Searching, NEW nothingNew, LeaveSize(nothingNew)
  PROVE  <<Work', Work>> \in Less
<1>1. HasInitial(soln_bits) /\ StageLeft = 1 /\ model_size \in Nat
  BY RoundsFacts DEF Rounds, StageLeft, Searching
<1>2. CASE nothingNew \/ model_size = 0
  <2>1. soln_bits' = Decremented(soln_bits) /\ pc' \in {"size", "done"}
    BY <1>2 DEF LeaveSize
  <2>2. Cardinality(WordsLeft') < Cardinality(WordsLeft)
    BY <1>1, <2>1, WordsShrink
  <2>3. StageLeft' \in {0, 1}
    BY <2>1 DEF StageLeft, Searching
  <2> QED
    BY <1>1, <2>2, <2>3, WorkShrinks
<1>3. CASE ~(nothingNew \/ model_size = 0)
  <2>1. model_size' = model_size - 1 /\ pc' = "size" /\ UNCHANGED soln_bits
    BY <1>3 DEF LeaveSize
  <2>2. StageLeft' = 1 /\ WordsLeft' = WordsLeft /\ model_size' < model_size
    BY <1>1, <2>1 DEF StageLeft, Searching, WordsLeft
  <2> QED
    BY <1>1, <2>2, WorkShrinks
<1> QED
  BY <1>2, <1>3

\* A step within a size
LEMMA SizeGoesOn ==
  ASSUME Rounds, Rounds', pc \in Searching, pc' \in Searching,
         UNCHANGED <<soln_bits, model_size>>,
         \/ Cardinality(SetsLeft') < Cardinality(SetsLeft)
         \/ SetsLeft' = SetsLeft /\ StepsLeft' < StepsLeft
  PROVE  <<Work', Work>> \in Less
<1>1. StageLeft' = 1 /\ StageLeft = 1 /\ WordsLeft' = WordsLeft
  BY DEF StageLeft, WordsLeft, Searching
<1> QED
  BY <1>1, WorkShrinks

LEMMA NextSetShrinks ==
  ASSUME Rounds, Rounds', NextSet
  PROVE  <<Work', Work>> \in Less
<1>1. /\ pc = "sets" /\ pc' = "visit" /\ ~first_of_model_size'
      /\ UNCHANGED <<soln_bits, model_size>>
  BY DEF NextSet
<1>2. /\ phase_bits' \in Combinations(model_size)
      /\ ~first_of_model_size =>
           phase_bits \in Combinations(model_size) /\ Before(phase_bits, phase_bits')
  BY NextSetIsLater
<1>3. SetsLeft' = {T \in Combinations(model_size) : Before(phase_bits', T)}
  BY <1>1 DEF SetsLeft
<1>4. phase_bits' \in SetsLeft /\ phase_bits' \notin SetsLeft'
  BY <1>1, <1>2, <1>3 DEF SetsLeft, Before
<1>5. SetsLeft' \subseteq SetsLeft
  <2>1. SUFFICES ASSUME NEW T \in Combinations(model_size), Before(phase_bits', T),
                        ~first_of_model_size
                 PROVE  Before(phase_bits, T)
    BY <1>1, <1>3 DEF SetsLeft
  <2> QED
    BY <1>2, <2>1, BeforeTransitive DEF Combinations
<1>6. Cardinality(SetsLeft') < Cardinality(SetsLeft)
  BY <1>4, <1>5, FewerLeft, LeftIsFinite
<1> QED
  BY <1>1, <1>6, SizeGoesOn DEF Searching

\* The work on a set
LEMMA SetShrinks ==
  ASSUME Rounds, Rounds',
         \/ BeginSize \/ SkipKnown \/ SkipUnwanted \/ (SolveFails /\ ~first)
         \/ SolveSucceeds \/ TryWithout \/ SaveMinimal
  PROVE  <<Work', Work>> \in Less
<1>1. /\ pc \in Searching /\ pc' \in Searching /\ UNCHANGED <<soln_bits, model_size>>
      /\ pc = "size" \/ first_of_model_size <=> pc' = "size" \/ first_of_model_size'
      /\ UNCHANGED now
  <2>1. CASE BeginSize
    BY <2>1 DEF BeginSize, Searching
  <2>2. CASE SkipKnown \/ SkipUnwanted \/ (SolveFails /\ ~first)
    <3>1. /\ pc = "visit" /\ pc' = "sets"
          /\ UNCHANGED <<soln_bits, model_size, first_of_model_size, now>>
      BY <2>2 DEF SkipKnown, SkipUnwanted, SolveFails, loopVars
    <3> QED
      BY <3>1 DEF Searching
  <2>3. CASE SolveSucceeds
    BY <2>3 DEF SolveSucceeds, Searching
  <2>4. CASE TryWithout \/ SaveMinimal
    BY <2>4 DEF TryWithout, SaveMinimal, Searching, loopVars
  <2> QED
    BY <2>1, <2>2, <2>3, <2>4
<1>2. SetsLeft' = SetsLeft
  BY <1>1 DEF SetsLeft, phase_bits
<1>3. position \in Nat /\ position <= Final /\ Final \in Nat
  BY RoundsFacts
<1>4. StepsLeft' < StepsLeft
  <2>1. CASE BeginSize
    BY <2>1 DEF BeginSize, StepsLeft
  <2>2. CASE SkipKnown \/ SkipUnwanted \/ (SolveFails /\ ~first) \/ SolveSucceeds
    <3>1. pc = "visit" /\ (pc' = "sets" \/ (pc' = "minimal" /\ position' = 0))
      BY <2>2 DEF SkipKnown, SkipUnwanted, SolveFails, SolveSucceeds
    <3>2. StepsLeft = Final + 2
      BY <3>1 DEF StepsLeft
    <3>3. StepsLeft' = 0 \/ StepsLeft' = Final + 1
      BY <1>3, <3>1 DEF StepsLeft, Final
    <3> QED
      BY <1>3, <3>2, <3>3
  <2>3. CASE TryWithout
    BY <1>3, <2>3 DEF TryWithout, StepsLeft
  <2>4. CASE SaveMinimal
    BY <1>3, <2>4 DEF SaveMinimal, StepsLeft
  <2> QED
    BY <2>1, <2>2, <2>3, <2>4
<1> QED
  BY <1>1, <1>2, <1>4, SizeGoesOn

LEMMA StepShrinks ==
  ASSUME Rounds, Next
  PROVE  <<Work', Work>> \in Less
<1>1. Rounds'
  BY RoundsNext
<1>2. CASE Begin
  <2>1. pc = "begin" /\ pc' # "begin"
    BY <1>2 DEF Begin
  <2>2. StageLeft = 2 /\ StageLeft' \in {0, 1}
    BY <2>1 DEF StageLeft
  <2> QED
    BY <1>1, <2>2, WorkShrinks
<1>3. CASE Stop
  <2>1. StageLeft = 1 /\ StageLeft' = 0
    BY <1>3 DEF Stop, StageLeft, Searching
  <2> QED
    BY <1>1, <2>1, WorkShrinks
<1>4. CASE EndOfSize \/ (SolveFails /\ first)
  BY <1>1, <1>4, LeaveSizeShrinks DEF EndOfSize, SolveFails, Searching
<1>5. CASE NextSet
  BY <1>1, <1>5, NextSetShrinks
<1>6. CASE BeginSize \/ SkipKnown \/ SkipUnwanted \/ (SolveFails /\ ~first)
           \/ SolveSucceeds \/ TryWithout \/ SaveMinimal
  BY <1>1, <1>6, SetShrinks
<1> QED
  BY <1>2, <1>3, <1>4, <1>5, <1>6 DEF Next

\* A step that leaves less work than it found.
WorkRunsDown == <<Work', Work>> \in Less

\* Every step of the search leaves less work, by an order in which there is no endless
\* descent: the loops of solve_inverse, over words, sizes and sets, and that of minimal_solve
\* pass nothing twice, for any number of columns an int has bits for, so that no search can
\* go on for ever.  (That it is not stuck before is PruningIsSound: minimal_solve always
\* finds the model it saves.)
THEOREM SearchRunsOut ==
  /\ IsWellFoundedOn(Less, Works)
  /\ Spec => [][WorkRunsDown]_vars
<1>1. Rounds /\ [Next]_vars => Rounds'
  BY RoundsNext
<1>2. Rounds /\ [Next]_vars => [WorkRunsDown]_vars
  BY StepShrinks DEF WorkRunsDown
<1>3. Spec => [][WorkRunsDown]_vars
  BY <1>1, <1>2, RoundsInit, PTL DEF Spec
<1> QED
  BY <1>3, LessWellFounded

================================================================================
