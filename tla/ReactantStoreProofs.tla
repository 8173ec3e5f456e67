-------------------------- MODULE ReactantStoreProofs --------------------------
(***************************************************************************)
(* Proofs about ReactantStore: its invariants, that a reaction of several  *)
(* steps is one step of ReactantMap, and that ReactantStore implements     *)
(* ReactantMap.                                                            *)
(***************************************************************************)
EXTENDS ReactantStore, TLAPS

StepPcs   == {"step", "stepSave", "lastSave"}
UserSaves == [Saved -> Ranges \cup {None2}]

\* During the steps the entries in use are those the reaction was asked for,
\* and SAVE is redirected.
StepsStand ==
  pc \in StepPcs =>
    /\ 1 <= step /\ step <= count
    /\ "solution" \in Used /\ AllFound(store, use)
    /\ save = SaveToWorking /\ saveData \in UserSaves
    /\ task = "cell" =>
         cell \in Numbers /\ use = UseCell(cell) /\ saveData = SaveCell(cell)

\* The working copies a step may go on from hold what the steps before it made
\* of the entries in use.
WorkingCopies ==
  pc = "step" => \A k \in Used :
    /\ store[k][Working] # Absent
    /\ step = 1 => store[k][Working] = store[k][use[k]]
    /\ step > 1 /\ incremental =>
         store[k][Working] = Reacted(store[k][use[k]], step - 1)

\* The calculated state is the entries in use after all steps so far.
ResultOfSteps ==
  pc \in {"stepSave", "lastSave"} =>
    /\ \A k \in Used : result[k] = Reacted(store[k][use[k]], step)
    /\ "kinetics" \in Used => store["kinetics"][Working] = result["kinetics"]
    /\ pc = "stepSave" => step < count
    /\ pc = "lastSave" => step = count

SavesOfUser == pc \in {"read", "initial", "reactions"} => save \in UserSaves

\* Where requests may be pending, unless a run was stopped.
Requests ==
  /\ pc \in {"copy", "dump", "delete"} => cells = {}
  /\ ~aborted /\ copies # <<>> =>
       \/ pc = "read" /\ new_copy # "no"
       \/ pc \notin {"idle", "read", "dump", "delete"} /\ new_copy = "yes"
  /\ pc = "idle" /\ ~aborted => ~Requested
  /\ RequestsCarriedOutOnce

\* Where entries may be marked new, unless a run was stopped.
NewOnes ==
  ~aborted => \A k \in Kinds, n \in Slots :
    store[k][n] # Absent /\ store[k][n].new =>
      pc \in {"read", "initial"} /\ n \in newDefs[k]

IInv ==
  /\ TypeOK /\ StepsStand /\ WorkingCopies /\ ResultOfSteps
  /\ SavesOfUser /\ Requests /\ NewOnes

--------------------------------------------------------------------------------
(* Operators *)

\* Numbers of the user, the working number and "not in use" are different.
LEMMA NumbersApart ==
  /\ Numbers \subseteq Nat /\ Numbers \subseteq Slots /\ Working \in Slots
  /\ Working \notin Numbers /\ None \notin Slots
  /\ \A r \in Ranges : r[1] \in Numbers /\ r[2] \in Numbers /\ r # None2
  /\ \A r \in Ranges : r # <<Working, Working>>
  /\ None2 # <<Working, Working>>
BY ReactantsAssumption DEF Slots, Working, None, Ranges, None2

\* SAVE knows every kind but kinetics.
LEMMA KindsApart ==
  "kinetics" \in Kinds /\ "kinetics" \notin Saved /\ "solution" \in Saved
  /\ Saved \subseteq Kinds /\ \A k \in Kinds : k # "kinetics" => k \in Saved
BY ReactantsAssumption DEF Kinds, Saved

\* An absent entry is none.
LEMMA AbsentApart == Absent \notin Entries
<1> SUFFICES ASSUME Absent \in Entries PROVE FALSE
  OBVIOUS
<1>1. Absent.definedBy \in Nat
  BY DEF Entries
<1> QED
  BY <1>1 DEF Absent, None

\* A reacted entry is an entry, and not new.
LEMMA ReactedEntry ==
  ASSUME NEW e \in Entries, NEW n \in Nat
  PROVE  /\ Reacted(e, n) \in Entries /\ ~Reacted(e, n).new
         /\ Reacted(e, n) # Absent
         /\ \A m \in Nat : Reacted(Reacted(e, n), m) = Reacted(e, n + m)
<1>1. Reacted(e, n) \in Entries /\ ~Reacted(e, n).new
  BY DEF Reacted, Entries
<1>2. ASSUME NEW m \in Nat PROVE Reacted(Reacted(e, n), m) = Reacted(e, n + m)
  <2>1. e.reacted \in Nat
    BY DEF Entries
  <2>2. (e.reacted + n) + m = e.reacted + (n + m)
    BY <2>1
  <2> QED
    BY <2>2 DEF Reacted
<1> QED
  BY <1>1, <1>2, AbsentApart

\* One step more.
LEMMA NextStep ==
  ASSUME NEW e \in Entries, NEW n \in Nat, n - 1 \in Nat
  PROVE  /\ Reacted(e, n - 1) \in Entries
         /\ Reacted(Reacted(e, n - 1), 1) = Reacted(e, n)
<1>1. (n - 1) + 1 = n
  OBVIOUS
<1> QED
  BY <1>1, ReactedEntry

\* A calculated entry is an entry, and not new.
LEMMA CalculatedEntry ==
  ASSUME NEW e \in Entries
  PROVE  Calculated(e) \in Entries /\ ~Calculated(e).new
BY DEF Calculated, Entries

\* Copying keeps the type of a map.
LEMMA CopiedEntries ==
  ASSUME NEW S, NEW f \in [S -> Entries \cup {Absent}], NEW i \in S, NEW targets
  PROVE  Copied(f, i, targets) \in [S -> Entries \cup {Absent}]
BY DEF Copied

\* The values variables have between simulations and calculations.
LEMMA Defaults ==
  /\ NoSave \in UserSaves /\ UserSaves \subseteq Saves /\ NoUse \in Uses
  /\ NoResult \in [Kinds -> Entries \cup {Absent}]
  /\ NoDeletes \in [Kinds -> Deletion]
  /\ 0 \in 0..MaxSteps /\ <<>> \in Seq(Copies)
<1>1. NoSave \in UserSaves /\ UserSaves \subseteq Saves
  BY DEF NoSave, UserSaves, Saves
<1>2. NoUse \in Uses /\ NoResult \in [Kinds -> Entries \cup {Absent}]
  BY DEF NoUse, Uses, NoResult
<1>3. NoDeletes \in [Kinds -> Deletion]
  BY DEF NoDeletes, NoDeletion, Deletion
<1>4. 0 \in 0..MaxSteps /\ <<>> \in Seq(Copies)
  BY ReactantsAssumption
<1> QED
  BY <1>1, <1>2, <1>3, <1>4

--------------------------------------------------------------------------------
(* The invariant *)

\* Init establishes the invariant.
LEMMA InitIInv == Init => IInv
<1> USE NumbersApart, KindsApart, AbsentApart, StoreAssumption, ReactantsAssumption
<1> SUFFICES ASSUME Init PROVE IInv
  OBVIOUS
<1>1. store \in [Kinds -> [Slots -> Entries \cup {Absent}]]
  BY DEF Init, Entries
<1>2. TypeOK
  BY <1>1, Defaults DEF Init, TypeOK
<1>3. StepsStand /\ WorkingCopies /\ ResultOfSteps /\ SavesOfUser
  BY DEF Init, StepsStand, StepPcs, WorkingCopies, ResultOfSteps, SavesOfUser
<1>4. Requests
  BY DEF Init, Requests, Requested, RequestsCarriedOutOnce
<1>5. NewOnes
  BY DEF Init, NewOnes
<1> QED
  BY <1>2, <1>3, <1>4, <1>5 DEF IInv

\* Reading preserves the invariant.
LEMMA ReadingIInv == IInv /\ (BeginSimulation \/ Read \/ EndRead) => IInv'
<1> USE NumbersApart, KindsApart, AbsentApart, StoreAssumption
<1> SUFFICES ASSUME IInv, BeginSimulation \/ Read \/ EndRead PROVE IInv'
  OBVIOUS
<1> USE DEF IInv
<1>1. CASE BeginSimulation
  <2> USE <1>1 DEF BeginSimulation, requestVars, workVars
  <2>1. TypeOK'
    <3>1. carried' \in BOOLEAN
      BY Zenon DEF Requested
    <3>2. newDefs' \in [Kinds -> SUBSET Numbers]
      OBVIOUS
    <3>3. /\ pc' = "read" /\ use' = NoUse /\ other' = FALSE /\ save' = NoSave
          /\ simulation' = simulation + 1
          /\ UNCHANGED <<store, incremental, copies, deletes, cells, workVars, keywords,
                         aborted>>
          /\ new_copy' = IF new_copy = "read" THEN "no" ELSE new_copy
      OBVIOUS
    <3> HIDE <1>1 DEF BeginSimulation
    <3>4. use' \in Uses /\ save' \in Saves
      BY <3>3, Defaults
    <3>5. UNCHANGED <<store, incremental, copies, deletes, cells>>
      BY <3>3
    <3>6. UNCHANGED <<saveData, task, cell, count, step, result, keywords, aborted>>
      BY <3>3
    <3>7. simulation' \in Nat
      BY <3>3 DEF TypeOK
    <3>8. pc' = "read" /\ other' \in BOOLEAN
      BY <3>3, Zenon
    <3>9. new_copy' \in {"no", "read", "yes"}
      BY <3>3 DEF TypeOK
    <3> QED
      BY <3>1, <3>2, <3>4, <3>5, <3>6, <3>7, <3>8, <3>9 DEF TypeOK
  <2>2. StepsStand' /\ WorkingCopies' /\ ResultOfSteps'
    BY DEF StepsStand, StepPcs, WorkingCopies, ResultOfSteps
  <2>3. SavesOfUser'
    BY Defaults DEF SavesOfUser
  <2>4. Requests'
    BY DEF Requests, Requested, RequestsCarriedOutOnce
  <2>5. NewOnes'
    BY DEF NewOnes
  <2> QED
    BY <2>1, <2>2, <2>3, <2>4, <2>5
<1>2. CASE Read
  <2>1. TypeOK'
    <3> USE DEF TypeOK, ReadKeyword, workVars, requestVars, inputVars
    <3>1. ASSUME NEW k \in Kinds, NEW n \in Numbers, ReadDefinition(k, n) PROVE TypeOK'
      <4>1. [definedBy |-> simulation, new |-> k # "kinetics", reacted |-> 0] \in Entries
        BY DEF Entries
      <4> QED
        BY <3>1, <4>1 DEF ReadDefinition, Uses
    <3>2. CASE ReadReaction
      BY <3>2 DEF ReadReaction
    <3>3. CASE ReadIncremental
      BY <3>3 DEF ReadIncremental
    <3>4. ASSUME NEW k \in Kinds, NEW n \in Numbers \cup {None}, ReadUse(k, n)
          PROVE  TypeOK'
      BY <3>4 DEF ReadUse, Uses
    <3>5. ASSUME NEW k \in Saved, NEW range \in Ranges, ReadSave(k, range) PROVE TypeOK'
      BY <3>5 DEF ReadSave, Saves
    <3>6. ASSUME NEW k \in Kinds, NEW n \in Numbers, NEW range \in Ranges,
                 ReadCopy(k, n, range)
          PROVE  TypeOK'
      BY <3>6 DEF ReadCopy, Copies
    <3>7. ASSUME NEW k \in Kinds, NEW numbers \in SUBSET Numbers, ReadDelete(k, numbers)
          PROVE  TypeOK'
      <4>1. deletes[k] \in Deletion
        OBVIOUS
      <4>2. [defined |-> TRUE, numbers |-> deletes[k].numbers \cup numbers] \in Deletion
        BY <4>1 DEF Deletion
      <4> QED
        BY <3>7, <4>2 DEF ReadDelete
    <3>8. ASSUME NEW numbers \in SUBSET Numbers, ReadRunCells(numbers) PROVE TypeOK'
      BY <3>8 DEF ReadRunCells
    <3> QED
      BY <1>2, <3>1, <3>2, <3>3, <3>4, <3>5, <3>6, <3>7, <3>8 DEF Read
  <2>2. pc = "read" /\ pc' = "read" /\ aborted' = aborted /\ carried' = carried
    BY <1>2 DEF Read, ReadDefinition, ReadReaction, ReadIncremental, ReadUse, ReadSave,
      ReadCopy, ReadDelete, ReadRunCells, ReadKeyword
  <2>3. StepsStand' /\ WorkingCopies' /\ ResultOfSteps' /\ Requests'
    <3>1. \/ UNCHANGED <<copies, new_copy>>
          \/ new_copy' = IF new_copy = "no" THEN "read" ELSE new_copy
      BY <1>2 DEF Read, ReadDefinition, ReadReaction, ReadIncremental, ReadUse, ReadSave,
        ReadCopy, ReadDelete, ReadRunCells, requestVars
    <3>2. (~aborted' /\ copies' # <<>>) => new_copy' # "no"
      BY <2>2, <3>1 DEF Requests
    <3> QED
      BY <2>2, <3>2 DEF StepsStand, StepPcs, WorkingCopies, ResultOfSteps, Requests,
        RequestsCarriedOutOnce
  <2>4. SavesOfUser'
    <3>1. save \in UserSaves
      BY <2>2 DEF SavesOfUser
    <3>2. ASSUME NEW k \in Saved, NEW range \in Ranges, ReadSave(k, range)
          PROVE  save' \in UserSaves
      BY <3>1, <3>2 DEF ReadSave, UserSaves
    <3> QED
      BY <1>2, <3>1, <3>2 DEF Read, ReadDefinition, ReadReaction, ReadIncremental, ReadUse,
        ReadCopy, ReadDelete, ReadRunCells, inputVars, SavesOfUser
  <2>5. NewOnes'
    <3>1. ASSUME NEW k \in Kinds, NEW n \in Numbers, ReadDefinition(k, n) PROVE NewOnes'
      BY <2>2, <3>1 DEF ReadDefinition, NewOnes, TypeOK
    <3>2. UNCHANGED <<store, newDefs>> => NewOnes'
      BY <2>2 DEF NewOnes
    <3> QED
      BY <1>2, <3>1, <3>2 DEF Read, ReadReaction, ReadIncremental, ReadUse, ReadSave,
        ReadCopy, ReadDelete, ReadRunCells, inputVars
  <2> QED
    BY <2>1, <2>3, <2>4, <2>5
<1>3. CASE EndRead
  <2> USE <1>3 DEF EndRead, Tidied, Abort, Idle, requestVars, workVars, inputVars, historyVars
  <2>1. TypeOK'
    BY Defaults DEF TypeOK
  <2>2. StepsStand' /\ WorkingCopies' /\ ResultOfSteps' /\ SavesOfUser'
    BY DEF StepsStand, StepPcs, WorkingCopies, ResultOfSteps, SavesOfUser
  <2>3. NewOnes'
    BY DEF NewOnes
  <2>4. Requests'
    <3>1. CASE aborted'
      BY <3>1 DEF Requests, RequestsCarriedOutOnce
    <3>2. CASE ~aborted'
      <4>1. /\ ~aborted /\ pc' = "initial" /\ new_copy' = Tidied
            /\ UNCHANGED <<copies, deletes, cells, aborted, carried>>
        BY <3>2
      <4>2. copies # <<>> => new_copy # "no"
        BY <4>1 DEF Requests
      <4>3. copies # <<>> => new_copy' = "yes"
        BY <4>1, <4>2 DEF TypeOK
      <4> QED
        BY <4>1, <4>3 DEF Requests, RequestsCarriedOutOnce
    <3> QED
      BY <3>1, <3>2
  <2> QED
    BY <2>1, <2>2, <2>3, <2>4
<1> QED
  BY <1>1, <1>2, <1>3

\* Where the reactants a user can name stand as they were.
SameForUser == \A k \in Kinds, n \in Numbers : store'[k][n] = store[k][n]

\* Whatever stops the run leaves a state of the invariant.
LEMMA AbortIInv ==
  ASSUME IInv, Abort, store' \in [Kinds -> [Slots -> Entries \cup {Absent}]],
         new_copy' = new_copy
  PROVE  IInv'
<1> USE DEF Abort, Idle, inputVars, requestVars
<1>1. TypeOK'
  BY NumbersApart, Defaults DEF IInv, TypeOK
<1>2. StepsStand' /\ WorkingCopies' /\ ResultOfSteps' /\ SavesOfUser'
  BY DEF StepsStand, StepPcs, WorkingCopies, ResultOfSteps, SavesOfUser
<1>3. Requests' /\ NewOnes'
  BY DEF Requests, RequestsCarriedOutOnce, NewOnes
<1> QED
  BY <1>1, <1>2, <1>3 DEF IInv

\* What the maps hold.
LEMMA Stored ==
  ASSUME IInv, NEW k \in Kinds
  PROVE  /\ \A n \in Slots : store[k][n] \in Entries \cup {Absent}
         /\ k \in Used => use[k] \in Numbers
BY DEF IInv, TypeOK, Uses, Used

\* copy_use(-2) writes the working copies only.
LEMMA CopyUseEntries ==
  ASSUME IInv
  PROVE  /\ CopyUse \in [Kinds -> [Slots -> Entries \cup {Absent}]]
         /\ \A k \in Kinds, n \in Numbers : CopyUse[k][n] = store[k][n]
         /\ AllFound(store, use) =>
              \A k \in Used : CopyUse[k][Working] = store[k][use[k]]
         /\ \A k \in Kinds : \/ CopyUse[k][Working] = store[k][Working]
                             \/ k \in Used /\ CopyUse[k][Working] = store[k][use[k]]
<1> USE NumbersApart, Stored DEF IInv, TypeOK
<1>1. CopyUse \in [Kinds -> [Slots -> Entries \cup {Absent}]]
  BY DEF CopyUse
<1>2. \A k \in Kinds, n \in Numbers : CopyUse[k][n] = store[k][n]
  BY DEF CopyUse
<1>3. AllFound(store, use) => \A k \in Used : CopyUse[k][Working] = store[k][use[k]]
  BY DEF CopyUse, AllFound, Used
<1>4. \A k \in Kinds : \/ CopyUse[k][Working] = store[k][Working]
                       \/ k \in Used /\ CopyUse[k][Working] = store[k][use[k]]
  BY DEF CopyUse
<1> QED
  BY <1>1, <1>2, <1>3, <1>4

\* The initial calculations preserve the invariant.
LEMMA InitialIInv ==
  ASSUME IInv, (\E k \in Kinds : InitialCalculation(k)) \/ InitialDone
  PROVE  IInv'
<1> USE NumbersApart DEF IInv
<1>1. ASSUME NEW k \in Kinds, InitialCalculation(k) PROVE IInv'
  <2>1. CASE Abort /\ UNCHANGED <<store, new_copy>>
    BY <2>1, AbortIInv DEF TypeOK
  <2>2. ASSUME NEW n \in ToCalculate(k), store' = [store EXCEPT ![k][n] = Calculated(@)],
               UNCHANGED <<pc, incremental, inputVars, requestVars, workVars, historyVars>>
        PROVE  IInv'
    <3> USE <2>2 DEF inputVars, requestVars, workVars, historyVars
    <3>1. n \in Slots /\ n \in newDefs[k] /\ store[k][n] \in Entries
      BY Stored DEF ToCalculate, TypeOK
    <3>2. Calculated(store[k][n]) \in Entries /\ ~Calculated(store[k][n]).new
      BY <3>1, CalculatedEntry
    <3>3. TypeOK'
      BY <3>1, <3>2 DEF TypeOK
    <3>4. pc = "initial"
      BY <1>1 DEF InitialCalculation
    <3>5. StepsStand' /\ WorkingCopies' /\ ResultOfSteps' /\ SavesOfUser'
      BY <3>4 DEF StepsStand, StepPcs, WorkingCopies, ResultOfSteps, SavesOfUser
    <3>6. Requests'
      BY <3>4 DEF Requests, RequestsCarriedOutOnce
    <3>7. NewOnes'
      BY <3>1, <3>2, <3>4 DEF NewOnes, TypeOK
    <3> QED
      BY <3>3, <3>5, <3>6, <3>7
  <2> QED
    BY <1>1, <2>1, <2>2 DEF InitialCalculation
<1>2. CASE InitialDone
  <2> USE <1>2 DEF InitialDone, inputVars, requestVars, workVars, historyVars
  <2>1. TypeOK'
    BY DEF TypeOK
  <2>2. StepsStand' /\ WorkingCopies' /\ ResultOfSteps' /\ SavesOfUser'
    BY DEF StepsStand, StepPcs, WorkingCopies, ResultOfSteps, SavesOfUser
  <2>3. Requests'
    BY DEF Requests, RequestsCarriedOutOnce
  <2>4. NewOnes'
    <3> SUFFICES ASSUME ~aborted, NEW k \in Kinds, NEW n \in Slots,
                        store[k][n] # Absent, store[k][n].new
                 PROVE  FALSE
      BY DEF NewOnes
    <3>1. n \in ToCalculate(k)
      BY DEF NewOnes, ToCalculate
    <3> QED
      BY <3>1
  <2> QED
    BY <2>1, <2>2, <2>3, <2>4
<1> QED
  BY <1>1, <1>2

\* The start of a reaction preserves the invariant.
LEMMA ReactionsIInv ==
  ASSUME IInv, Reactions
  PROVE  IInv' /\ SameForUser
<1> USE NumbersApart DEF IInv
<1>0. pc = "reactions"
  BY DEF Reactions
<1>1. CASE ~SomethingToReact
  <2> USE <1>0, <1>1 DEF Reactions, inputVars, requestVars, historyVars
  <2>1. TypeOK' /\ SameForUser
    BY DEF TypeOK, SameForUser
  <2>2. StepsStand' /\ WorkingCopies' /\ ResultOfSteps' /\ SavesOfUser'
    BY DEF StepsStand, StepPcs, WorkingCopies, ResultOfSteps, SavesOfUser
  <2>3. Requests' /\ NewOnes'
    BY DEF Requests, RequestsCarriedOutOnce, NewOnes
  <2> QED
    BY <2>1, <2>2, <2>3
<1>2. CASE Abort /\ UNCHANGED <<store, new_copy>>
  BY <1>2, AbortIInv DEF TypeOK, SameForUser
<1>3. CASE SomethingToReact /\ AllFound(store, use) /\ StartSteps("batch") /\ UNCHANGED cell
  <2> USE <1>0, <1>3, CopyUseEntries
      DEF StartSteps, requestVars, historyVars
  <2>1. use' = use /\ Used' = Used /\ save' = SaveToWorking /\ SaveToWorking' = save'
    BY DEF Used, SaveToWorking
  <2>2. count' \in 1..MaxSteps /\ step' = 1 /\ step' \in 0..MaxSteps
    BY ReactantsAssumption
  <2>3. TypeOK'
    <3>1. SaveToWorking \in Saves
      BY DEF SaveToWorking, Saves
    <3> QED
      BY <2>1, <2>2, <3>1 DEF TypeOK
  <2>4. SameForUser
    BY DEF SameForUser
  <2>5. StepsStand'
    <3>1. ASSUME NEW k \in Used PROVE store'[k][use[k]] # Absent
      <4>1. k \in Kinds /\ use[k] \in Numbers /\ store[k][use[k]] # Absent
        BY Stored DEF Used, AllFound
      <4> QED
        BY <2>4, <4>1 DEF SameForUser
    <3>2. AllFound(store', use')
      BY <2>1, <3>1 DEF AllFound, Used
    <3> QED
      BY <2>1, <2>2, <3>2 DEF StepsStand, SavesOfUser, SomethingToReact
  <2>6. WorkingCopies'
    <3> SUFFICES ASSUME NEW k \in Used
                 PROVE  /\ store'[k][Working] # Absent
                        /\ store'[k][Working] = store'[k][use[k]]
      BY <2>1, <2>2 DEF WorkingCopies
    <3>1. k \in Kinds /\ use[k] \in Numbers /\ store[k][use[k]] # Absent
      BY Stored DEF Used, AllFound
    <3> QED
      BY <2>4, <3>1 DEF SameForUser
  <2>7. ResultOfSteps' /\ SavesOfUser' /\ Requests'
    BY DEF ResultOfSteps, SavesOfUser, Requests, RequestsCarriedOutOnce
  <2>8. NewOnes'
    <3> SUFFICES ASSUME ~aborted, NEW k \in Kinds, NEW n \in Slots,
                        CopyUse[k][n] # Absent, CopyUse[k][n].new
                 PROVE  FALSE
      BY DEF NewOnes
    <3>1. \A m \in Slots : store[k][m] # Absent => ~store[k][m].new
      BY DEF NewOnes
    <3>2. n \in Numbers \/ n = Working
      BY DEF Slots
    <3>3. k \in Used => use[k] \in Slots
      BY Stored
    <3>4. \E m \in Slots : CopyUse[k][n] = store[k][m]
      BY <3>2, <3>3
    <3> QED
      BY <3>1, <3>4
  <2> QED
    BY <2>3, <2>4, <2>5, <2>6, <2>7, <2>8
<1> QED
  BY <1>1, <1>2, <1>3 DEF Reactions

\* A step applies to the entries in use what is asked up to this step, wherever
\* it starts from.
LEMMA StepApplies ==
  ASSUME IInv, pc = "step"
  PROVE  /\ StartOfStep \in [Kinds -> [Slots -> Entries \cup {Absent}]]
         /\ \A k \in Kinds, n \in Numbers : StartOfStep[k][n] = store[k][n]
         /\ \A k \in Used : /\ StartOfStep[k][Working] \in Entries
                            /\ Reacted(StartOfStep[k][Working], Amount)
                                 = Reacted(store[k][use[k]], step)
         /\ \A k \in Kinds, n \in Slots : \E m \in Slots : StartOfStep[k][n] = store[k][m]
<1> USE NumbersApart, CopyUseEntries DEF IInv
<1>1. StartOfStep \in [Kinds -> [Slots -> Entries \cup {Absent}]]
  BY DEF StartOfStep, TypeOK
<1>2. \A k \in Kinds, n \in Numbers : StartOfStep[k][n] = store[k][n]
  BY DEF StartOfStep
<1>3. ASSUME NEW k \in Used
      PROVE  /\ StartOfStep[k][Working] \in Entries
             /\ Reacted(StartOfStep[k][Working], Amount) = Reacted(store[k][use[k]], step)
  <2>1. k \in Kinds /\ use[k] \in Numbers /\ store[k][use[k]] \in Entries
    BY Stored DEF StepsStand, StepPcs, AllFound, Used
  <2>2. AllFound(store, use) /\ step \in Nat /\ step - 1 \in Nat
    BY DEF StepsStand, StepPcs, TypeOK
  <2>3. Amount \in Nat
    BY <2>2 DEF Amount
  <2>4. CASE step = 1
    <3>1. StartOfStep[k][Working] = store[k][use[k]] /\ Amount = 1
      BY <2>4 DEF WorkingCopies, StartOfStep, Amount
    <3> QED
      BY <2>1, <2>4, <3>1
  <2>5. CASE step # 1 /\ incremental
    <3>1. StartOfStep[k][Working] = Reacted(store[k][use[k]], step - 1) /\ Amount = 1
      BY <2>2, <2>5 DEF WorkingCopies, StartOfStep, Amount
    <3> QED
      BY <2>1, <2>2, <3>1, NextStep
  <2>6. CASE step # 1 /\ ~incremental
    <3>1. step > 1
      BY <2>2, <2>6
    <3>2. StartOfStep[k][Working] = store[k][use[k]] /\ Amount = step
      BY <2>2, <2>6, <3>1 DEF StartOfStep, Amount
    <3> QED
      BY <2>1, <3>2
  <2> QED
    BY <2>4, <2>5, <2>6
<1>4. ASSUME NEW k \in Kinds, NEW n \in Slots
      PROVE  \E m \in Slots : StartOfStep[k][n] = store[k][m]
  <2>1. n \in Numbers \/ n = Working
    BY DEF Slots
  <2>2. k \in Used => use[k] \in Slots
    BY Stored
  <2>3. \/ StartOfStep[k][Working] = store[k][Working]
        \/ k \in Used /\ StartOfStep[k][Working] = store[k][use[k]]
    BY DEF StartOfStep
  <2> QED
    BY <1>2, <2>1, <2>2, <2>3
<1> QED
  BY <1>1, <1>2, <1>3, <1>4

\* A turn of the loop over the steps preserves the invariant.
LEMMA RunStepIInv ==
  ASSUME IInv, RunStep
  PROVE  IInv' /\ SameForUser
<1> USE NumbersApart, KindsApart, StepApplies DEF IInv
<1>0. pc = "step"
  BY DEF RunStep
<1>1. CASE Abort /\ store' = StartOfStep /\ UNCHANGED new_copy
  BY <1>0, <1>1, AbortIInv DEF SameForUser
<1>2. CASE ~(Abort /\ store' = StartOfStep /\ UNCHANGED new_copy)
  <2>1. /\ result' = [k \in Kinds |->
             IF k \in Used THEN Reacted(StartOfStep[k][Working], Amount) ELSE Absent]
        /\ store' = [StartOfStep EXCEPT !["kinetics"][Working] =
             IF "kinetics" \in Used
               THEN Reacted(StartOfStep["kinetics"][Working], Amount) ELSE @]
        /\ pc' = IF MoreSteps THEN "stepSave" ELSE "lastSave"
        /\ UNCHANGED <<incremental, inputVars, requestVars, saveData, task, cell,
                       count, step, historyVars>>
    BY <1>2 DEF RunStep
  <2>2. UNCHANGED <<incremental, use, other, save, newDefs, copies, new_copy, deletes, cells,
                    saveData, task, cell, count, step, simulation, keywords, aborted, carried>>
    BY <2>1 DEF inputVars, requestVars, historyVars
  <2>3. \A k \in Used : /\ result'[k] = Reacted(store[k][use[k]], step)
                        /\ result'[k] \in Entries /\ ~result'[k].new
    <3> SUFFICES ASSUME NEW k \in Used
                 PROVE  /\ result'[k] = Reacted(store[k][use[k]], step)
                        /\ result'[k] \in Entries /\ ~result'[k].new
      OBVIOUS
    <3>0. AllFound(store, use)
      BY <1>0 DEF StepsStand, StepPcs
    <3>1. k \in Kinds /\ use[k] \in Numbers /\ store[k][use[k]] \in Entries
      <4>1. k \in Kinds /\ use[k] \in Numbers /\ use[k] \in Slots
        BY Stored DEF Used
      <4> QED
        BY <3>0, <4>1, Stored DEF AllFound
    <3>2. step \in Nat
      BY DEF TypeOK
    <3> QED
      BY <1>0, <2>1, <3>1, <3>2, ReactedEntry
  <2>4. result' \in [Kinds -> Entries \cup {Absent}]
    BY <2>1, <2>3
  <2>5. /\ store' \in [Kinds -> [Slots -> Entries \cup {Absent}]]
        /\ SameForUser
        /\ "kinetics" \in Used => store'["kinetics"][Working] = result'["kinetics"]
    <3>1. "kinetics" \in Used => Reacted(StartOfStep["kinetics"][Working], Amount) \in Entries
      BY <2>1, <2>3
    <3> QED
      BY <1>0, <2>1, <3>1 DEF SameForUser
  <2>6. TypeOK'
    BY <2>1, <2>2, <2>4, <2>5 DEF TypeOK
  <2>7. Used' = Used /\ SaveToWorking' = SaveToWorking
    BY <2>2 DEF Used, SaveToWorking
  <2>8. \A k \in Used : store'[k][use'[k]] = store[k][use[k]]
    BY <2>2, <2>5, Stored DEF SameForUser, Used
  <2>9. AllFound(store', use') /\ pc' \in {"stepSave", "lastSave"}
    BY <1>0, <2>1, <2>2, <2>8 DEF StepsStand, StepPcs, AllFound, Used
  <2>10. StepsStand'
    <3>1. task = "cell" => UseCell(cell)' = UseCell(cell) /\ SaveCell(cell)' = SaveCell(cell)
      <4> SUFFICES ASSUME cell \in Numbers
                   PROVE  UseCell(cell)' = UseCell(cell) /\ SaveCell(cell)' = SaveCell(cell)
        BY <1>0 DEF StepsStand, StepPcs
      <4>1. \A k \in Kinds : store'[k][cell] = store[k][cell]
        BY <2>5 DEF SameForUser
      <4> QED
        BY <2>2, <4>1 DEF UseCell, SaveCell
    <3> QED
      BY <1>0, <2>2, <2>7, <2>9, <3>1 DEF StepsStand, StepPcs
  <2>11. ResultOfSteps'
    <3>1. (pc' = "stepSave" => step < count) /\ (pc' = "lastSave" => step = count)
      <4>1. step \in Nat /\ count \in Nat /\ step <= count
        BY <1>0 DEF TypeOK, StepsStand, StepPcs
      <4> QED
        BY <2>1, <4>1 DEF MoreSteps
    <3> QED
      BY <2>2, <2>3, <2>5, <2>7, <2>8, <3>1 DEF ResultOfSteps
  <2>12. WorkingCopies' /\ SavesOfUser' /\ Requests'
    BY <1>0, <2>2, <2>9 DEF WorkingCopies, SavesOfUser, Requests, RequestsCarriedOutOnce
  <2>13. NewOnes'
    <3> SUFFICES ASSUME ~aborted, NEW k \in Kinds, NEW n \in Slots,
                        store'[k][n] # Absent, store'[k][n].new
                 PROVE  FALSE
      BY <2>2 DEF NewOnes
    <3>1. \A m \in Slots : store[k][m] # Absent => ~store[k][m].new
      BY <1>0 DEF NewOnes
    <3>2. \/ store'[k][n] = StartOfStep[k][n]
          \/ k = "kinetics" /\ "kinetics" \in Used /\ store'[k][n] = result'[k]
      BY <1>0, <2>1, <2>5
    <3>3. \E m \in Slots : StartOfStep[k][n] = store[k][m]
      BY <1>0
    <3>4. store'[k][n] # StartOfStep[k][n]
      BY <3>1, <3>3
    <3> QED
      BY <2>3, <3>2, <3>4
  <2> QED
    BY <2>5, <2>6, <2>10, <2>11, <2>12, <2>13
<1> QED
  BY <1>1, <1>2

\* saver() keeps the type of the maps, and stores only what it finds: the
\* calculated state or an entry.
LEMMA SaveEntries ==
  ASSUME NEW entries \in [Kinds -> [Slots -> Entries \cup {Absent}]], NEW ranges \in Saves,
         result \in [Kinds -> Entries \cup {Absent}]
  PROVE  /\ Save(entries, ranges) \in [Kinds -> [Slots -> Entries \cup {Absent}]]
         /\ \A k \in Kinds, n \in Slots :
              \/ k \in Used /\ Save(entries, ranges)[k][n] = result[k]
              \/ \E m \in Slots : Save(entries, ranges)[k][n] = entries[k][m]
<1> USE NumbersApart, KindsApart
<1> SUFFICES ASSUME NEW k \in Kinds
             PROVE  /\ Save(entries, ranges)[k] \in [Slots -> Entries \cup {Absent}]
                    /\ \A n \in Slots :
                         \/ k \in Used /\ Save(entries, ranges)[k][n] = result[k]
                         \/ \E m \in Slots : Save(entries, ranges)[k][n] = entries[k][m]
  BY DEF Save
<1>1. CASE k = "kinetics" \/ ranges[k] = None2
  BY <1>1 DEF Save
<1>2. CASE k # "kinetics" /\ ranges[k] # None2
  <2> DEFINE range == {n \in Slots : ranges[k][1] <= n /\ n <= ranges[k][2]}
  <2>1. ranges[k][1] \in Slots
    <3>1. k \in Saved
      BY <1>2
    <3>2. ranges[k] \in Ranges \cup {None2, <<Working, Working>>}
      BY <3>1 DEF Saves
    <3>3. ranges[k] \in Ranges => ranges[k][1] \in Slots
      BY NumbersApart
    <3>4. ranges[k] = <<Working, Working>> => ranges[k][1] \in Slots
      BY NumbersApart
    <3> QED
      BY <1>2, <3>2, <3>3, <3>4
  <2>2. CASE k \in Used
    <3>1. Save(entries, ranges)[k] =
            [n \in Slots |-> IF n \in range THEN result[k] ELSE entries[k][n]]
      BY <1>2, <2>2 DEF Save
    <3> HIDE DEF range
    <3> QED
      BY <2>2, <3>1
  <2>3. CASE k \notin Used
    <3>1. Save(entries, ranges)[k] = Copied(entries[k], ranges[k][1], range)
      BY <1>2, <2>3 DEF Save
    <3> HIDE DEF range
    <3> QED
      BY <2>1, <3>1 DEF Copied
  <2> QED
    BY <2>2, <2>3
<1> QED
  BY <1>1, <1>2

\* During the steps saver() writes the working copies of the kinds in use only.
LEMMA SaveWorking ==
  ASSUME IInv, NEW k \in Kinds
  PROVE  /\ \A n \in Numbers : Save(store, SaveToWorking)[k][n] = store[k][n]
         /\ k \in Used /\ k # "kinetics" =>
              Save(store, SaveToWorking)[k][Working] = result[k]
         /\ k = "kinetics" => Save(store, SaveToWorking)[k] = store[k]
<1> USE NumbersApart, KindsApart DEF IInv, TypeOK
<1>1. CASE k = "kinetics"
  BY <1>1 DEF Save
<1>2. CASE k # "kinetics" /\ k \notin Used
  BY <1>2 DEF Save, SaveToWorking
<1>3. CASE k # "kinetics" /\ k \in Used
  <2>1. SaveToWorking[k] = <<Working, Working>>
    BY <1>3 DEF SaveToWorking
  <2>2. \A n \in Slots : Working <= n /\ n <= Working <=> n = Working
    BY DEF Slots, Working
  <2>3. Save(store, SaveToWorking)[k] =
          [n \in Slots |-> IF n = Working THEN result[k] ELSE store[k][n]]
    <3> DEFINE range == {n \in Slots : SaveToWorking[k][1] <= n /\ n <= SaveToWorking[k][2]}
    <3>1. SaveToWorking[k] # None2
      BY <2>1
    <3>2. Save(store, SaveToWorking)[k] =
            [n \in Slots |-> IF n \in range THEN result[k] ELSE store[k][n]]
      BY <1>3, <3>1 DEF Save
    <3>3. range = {n \in Slots : Working <= n /\ n <= Working}
      BY <2>1
    <3>4. \A n \in Slots : n \in range <=> n = Working
      BY <2>2, <3>3
    <3> HIDE DEF range
    <3> QED
      BY <3>2, <3>4
  <2> QED
    BY <1>3, <2>3
<1> QED
  BY <1>1, <1>2, <1>3

\* The calculated state of the kinds in use is no longer new.
LEMMA ResultEntries ==
  ASSUME IInv, pc \in {"stepSave", "lastSave"}, NEW k \in Used
  PROVE  /\ k \in Kinds /\ use[k] \in Numbers /\ store[k][use[k]] \in Entries
         /\ result[k] = Reacted(store[k][use[k]], step)
         /\ result[k] \in Entries /\ ~result[k].new
<1>1. k \in Kinds /\ use[k] \in Numbers /\ use[k] \in Slots
  BY Stored, NumbersApart DEF Used
<1>2. AllFound(store, use) /\ step \in Nat
  BY DEF IInv, StepsStand, StepPcs, TypeOK
<1>3. store[k][use[k]] \in Entries
  BY <1>1, <1>2, Stored DEF AllFound, Used
<1>4. result[k] = Reacted(store[k][use[k]], step)
  BY DEF IInv, ResultOfSteps
<1> QED
  BY <1>1, <1>2, <1>3, <1>4, ReactedEntry

\* Saving between two steps preserves the invariant.
LEMMA StepSaveIInv ==
  ASSUME IInv, StepSave
  PROVE  IInv' /\ SameForUser
<1> USE NumbersApart, KindsApart DEF IInv
<1>1. /\ pc = "stepSave" /\ pc' = "step" /\ step' = step + 1
      /\ UNCHANGED <<incremental, use, other, save, newDefs, copies, new_copy, deletes, cells,
                     saveData, task, cell, count, result, simulation, keywords, aborted, carried>>
  BY DEF StepSave, inputVars, requestVars, historyVars
<1>2. save = SaveToWorking /\ store' = Save(store, SaveToWorking)
  BY DEF StepSave, StepsStand, StepPcs
<1>3. store' \in [Kinds -> [Slots -> Entries \cup {Absent}]]
  BY <1>2, SaveEntries DEF TypeOK
<1>4. SameForUser
  BY <1>2, SaveWorking DEF SameForUser
<1>5. \A k \in Used : store'[k][Working] = result[k]
  <2> SUFFICES ASSUME NEW k \in Used PROVE store'[k][Working] = result[k]
    OBVIOUS
  <2>1. k \in Kinds
    BY DEF Used
  <2>2. k = "kinetics" => store'[k] = store[k]
    BY <1>2, <2>1, SaveWorking
  <2>3. k # "kinetics" => store'[k][Working] = result[k]
    BY <1>2, <2>1, SaveWorking
  <2> QED
    BY <1>1, <2>2, <2>3 DEF ResultOfSteps
<1>6. step' \in 0..MaxSteps /\ 1 <= step' /\ step' <= count
  <2>1. step \in Nat /\ count \in Nat /\ count <= MaxSteps /\ step < count /\ MaxSteps \in Nat
    BY <1>1, ReactantsAssumption DEF TypeOK, ResultOfSteps, StepsStand, StepPcs
  <2> QED
    BY <1>1, <2>1
<1>7. TypeOK'
  BY <1>1, <1>3, <1>6 DEF TypeOK
<1>8. Used' = Used /\ SaveToWorking' = SaveToWorking
  BY <1>1 DEF Used, SaveToWorking
<1>9. \A k \in Used : store'[k][use'[k]] = store[k][use[k]]
  <2> SUFFICES ASSUME NEW k \in Used PROVE store'[k][use[k]] = store[k][use[k]]
    BY <1>1
  <2>1. k \in Kinds /\ use[k] \in Numbers
    BY <1>1, ResultEntries
  <2> QED
    BY <1>4, <2>1 DEF SameForUser
<1>10. StepsStand'
  <2>1. AllFound(store', use')
    BY <1>1, <1>9 DEF StepsStand, StepPcs, AllFound, Used
  <2>2. task = "cell" => UseCell(cell)' = UseCell(cell) /\ SaveCell(cell)' = SaveCell(cell)
    <3> SUFFICES ASSUME cell \in Numbers
                 PROVE  UseCell(cell)' = UseCell(cell) /\ SaveCell(cell)' = SaveCell(cell)
      BY <1>1 DEF StepsStand, StepPcs
    <3>1. \A k \in Kinds : store'[k][cell] = store[k][cell]
      BY <1>4 DEF SameForUser
    <3> QED
      BY <1>1, <3>1 DEF UseCell, SaveCell
  <2> QED
    BY <1>1, <1>2, <1>6, <1>8, <2>1, <2>2 DEF StepsStand, StepPcs
<1>11. WorkingCopies'
  <2> SUFFICES ASSUME NEW k \in Used
               PROVE  /\ store'[k][Working] # Absent
                      /\ step' # 1
                      /\ store'[k][Working] = Reacted(store'[k][use'[k]], step' - 1)
    BY <1>8 DEF WorkingCopies
  <2>1. step \in Nat /\ 1 <= step
    BY <1>1 DEF TypeOK, StepsStand, StepPcs
  <2>2. step' # 1 /\ step' - 1 = step
    BY <1>1, <2>1
  <2>3. result[k] \in Entries /\ result[k] = Reacted(store[k][use[k]], step)
    BY <1>1, ResultEntries
  <2> QED
    BY <1>5, <1>9, <2>2, <2>3, AbsentApart
<1>12. ResultOfSteps' /\ SavesOfUser' /\ Requests'
  BY <1>1 DEF ResultOfSteps, SavesOfUser, Requests, RequestsCarriedOutOnce
<1>13. NewOnes'
  <2> SUFFICES ASSUME ~aborted, NEW k \in Kinds, NEW n \in Slots,
                      store'[k][n] # Absent, store'[k][n].new
               PROVE  FALSE
    BY <1>1 DEF NewOnes
  <2>1. \A m \in Slots : store[k][m] # Absent => ~store[k][m].new
    BY <1>1 DEF NewOnes
  <2>2. \/ k \in Used /\ store'[k][n] = result[k]
        \/ \E m \in Slots : store'[k][n] = store[k][m]
    BY <1>2, SaveEntries DEF TypeOK
  <2>3. k \in Used => ~result[k].new
    BY <1>1, ResultEntries
  <2> QED
    BY <2>1, <2>2, <2>3
<1> QED
  BY <1>4, <1>7, <1>10, <1>11, <1>12, <1>13

\* The maps with the kinetic reactants written back.
KineticsBack ==
  [store EXCEPT !["kinetics"] =
     IF "kinetics" \in Used THEN Copied(@, Working, {use["kinetics"]}) ELSE @]

LEMMA KineticsBackEntries ==
  ASSUME IInv, pc = "lastSave"
  PROVE  /\ KineticsBack \in [Kinds -> [Slots -> Entries \cup {Absent}]]
         /\ \A k \in Kinds : k # "kinetics" => KineticsBack[k] = store[k]
         /\ \A k \in Kinds, n \in Slots : \E m \in Slots : KineticsBack[k][n] = store[k][m]
         /\ "kinetics" \notin Used => KineticsBack["kinetics"] = store["kinetics"]
         /\ "kinetics" \in Used => \A n \in Slots :
              KineticsBack["kinetics"][n] =
                IF n = use["kinetics"] THEN result["kinetics"] ELSE store["kinetics"][n]
<1> USE NumbersApart, KindsApart DEF IInv, TypeOK
<1>1. CASE "kinetics" \notin Used
  <2>1. KineticsBack = store
    BY <1>1 DEF KineticsBack
  <2> QED
    BY <1>1, <2>1
<1>2. CASE "kinetics" \in Used
  <2>1. KineticsBack = [store EXCEPT !["kinetics"] =
                          Copied(store["kinetics"], Working, {use["kinetics"]})]
    BY <1>2 DEF KineticsBack
  <2>2. Copied(store["kinetics"], Working, {use["kinetics"]})
          \in [Slots -> Entries \cup {Absent}]
    BY CopiedEntries
  <2>3. store["kinetics"][Working] = result["kinetics"] /\ result["kinetics"] # Absent
    BY <1>2, ResultEntries, AbsentApart DEF ResultOfSteps
  <2>4. \A n \in Slots : Copied(store["kinetics"], Working, {use["kinetics"]})[n] =
          IF n = use["kinetics"] THEN result["kinetics"] ELSE store["kinetics"][n]
    BY <2>3 DEF Copied
  <2>5. \A k \in Kinds, n \in Slots : \E m \in Slots : KineticsBack[k][n] = store[k][m]
    BY <2>1, <2>3, <2>4
  <2> QED
    BY <1>2, <2>1, <2>2, <2>4, <2>5
<1> QED
  BY <1>1, <1>2

\* The end of a reaction preserves the invariant.
LEMMA LastSaveIInv ==
  ASSUME IInv, LastSave
  PROVE  IInv'
<1> USE NumbersApart, KindsApart DEF IInv
<1>1. /\ pc = "lastSave" /\ pc' = "cells" /\ save' = saveData /\ saveData' = NoSave
      /\ count' = 0 /\ step' = 0 /\ result' = NoResult /\ task' = "batch"
      /\ store' = Save(KineticsBack, saveData)
      /\ UNCHANGED <<incremental, use, other, newDefs, copies, new_copy, deletes, cells, cell,
                     simulation, keywords, aborted, carried>>
  BY DEF LastSave, KineticsBack, requestVars, historyVars
<1>2. store' \in [Kinds -> [Slots -> Entries \cup {Absent}]]
  BY <1>1, SaveEntries, KineticsBackEntries DEF TypeOK
<1>3. TypeOK'
  BY <1>1, <1>2, Defaults DEF TypeOK
<1>4. StepsStand' /\ WorkingCopies' /\ ResultOfSteps' /\ SavesOfUser' /\ Requests'
  BY <1>1 DEF StepsStand, StepPcs, WorkingCopies, ResultOfSteps, SavesOfUser, Requests,
    RequestsCarriedOutOnce
<1>5. NewOnes'
  <2> SUFFICES ASSUME ~aborted, NEW k \in Kinds, NEW n \in Slots,
                      store'[k][n] # Absent, store'[k][n].new
               PROVE  FALSE
    BY <1>1 DEF NewOnes
  <2>1. \A m \in Slots : store[k][m] # Absent => ~store[k][m].new
    BY <1>1 DEF NewOnes
  <2>2. \/ k \in Used /\ store'[k][n] = result[k]
        \/ \E m \in Slots : store'[k][n] = KineticsBack[k][m]
    <3>1. KineticsBack \in [Kinds -> [Slots -> Entries \cup {Absent}]]
      BY <1>1, KineticsBackEntries
    <3>2. saveData \in Saves /\ result \in [Kinds -> Entries \cup {Absent}]
      BY DEF TypeOK
    <3> QED
      BY <1>1, <3>1, <3>2, SaveEntries
  <2>3. \A m \in Slots : \E l \in Slots : KineticsBack[k][m] = store[k][l]
    BY <1>1, KineticsBackEntries
  <2>4. k \in Used => ~result[k].new
    BY <1>1, ResultEntries
  <2> QED
    BY <2>1, <2>2, <2>3, <2>4
<1> QED
  BY <1>3, <1>4, <1>5

\* ReactantMap speaks of the same reactants.
LEMMA SameReactants ==
  /\ Map!None = None /\ Map!None2 = None2 /\ Map!Absent = Absent
  /\ Map!Saved = Saved /\ Map!Kinds = Kinds /\ Map!Ranges = Ranges /\ Map!Entries = Entries
  /\ \A e, n : Map!Reacted(e, n) = Reacted(e, n)
  /\ \A e : Map!Calculated(e) = Calculated(e)
  /\ \A f, i, targets : Map!Copied(f, i, targets) = Copied(f, i, targets)
  /\ \A f, u : Map!AllFound(f, u) = AllFound(f, u)
BY DEF Map!None, None, Map!None2, None2, Map!Absent, Absent, Map!Saved, Saved, Map!Kinds,
  Kinds, Map!Ranges, Ranges, Map!Entries, Entries, Map!Reacted, Reacted, Map!Calculated,
  Calculated, Map!Copied, Copied, Map!AllFound, AllFound

\* What the end of a reaction stores is what ReactantMap says of the whole of it.
LEMMA LastSaveReacts ==
  ASSUME IInv, LastSave
  PROVE  Map!React(use, saveData, count)
<1> USE NumbersApart, KindsApart, SameReactants
<1>1. /\ pc = "lastSave" /\ store' = Save(KineticsBack, saveData)
      /\ saveData \in UserSaves /\ "solution" \in Used /\ AllFound(store, use)
      /\ step = count
  BY DEF IInv, LastSave, KineticsBack, StepsStand, StepPcs, ResultOfSteps
<1>2. \A k \in Used : /\ k \in Kinds /\ use[k] \in Numbers
                      /\ result[k] = Reacted(store[k][use[k]], count)
  BY <1>1, ResultEntries
<1> DEFINE user == [k \in Kinds |-> [n \in Numbers |-> store[k][n]]]
<1>3. use["solution"] # None /\ AllFound(user, use)
  BY <1>1, <1>2 DEF Used, AllFound
<1>4. ASSUME NEW k \in Kinds
      PROVE  [n \in Numbers |-> store'[k][n]] = Map!AfterReaction(k, use, saveData, count)
  <2> DEFINE range == {n \in Slots : saveData[k][1] <= n /\ n <= saveData[k][2]}
             userRange == {n \in Numbers : saveData[k][1] <= n /\ n <= saveData[k][2]}
  <2>1. KineticsBack[k] \in [Slots -> Entries \cup {Absent}]
    BY <1>1, KineticsBackEntries
  <2>2. CASE k = "kinetics"
    <3>1. store'[k] = KineticsBack[k]
      BY <1>1, <2>2 DEF Save
    <3>2. CASE k \notin Used
      <4>1. Map!AfterReaction(k, use, saveData, count) = user[k]
        BY <2>2, <3>2 DEF Map!AfterReaction, Used
      <4> QED
        BY <1>1, <2>2, <3>1, <3>2, <4>1, KineticsBackEntries
    <3>3. CASE k \in Used
      <4>1. Map!AfterReaction(k, use, saveData, count) = [user[k] EXCEPT ![use[k]] = result[k]]
        BY <1>2, <2>2, <3>3 DEF Map!AfterReaction, Used
      <4>2. \A n \in Numbers :
              KineticsBack[k][n] = IF n = use[k] THEN result[k] ELSE store[k][n]
        BY <1>1, <2>2, <3>3, KineticsBackEntries
      <4>3. user[k] = [n \in Numbers |-> store[k][n]]
        OBVIOUS
      <4>4. [user[k] EXCEPT ![use[k]] = result[k]]
              = [n \in Numbers |-> IF n = use[k] THEN result[k] ELSE store[k][n]]
        BY <4>3
      <4>5. \A n \in Numbers :
              store'[k][n] = IF n = use[k] THEN result[k] ELSE store[k][n]
        BY <3>1, <4>2
      <4> HIDE DEF user
      <4> QED
        BY <4>1, <4>4, <4>5
    <3> QED
      BY <3>2, <3>3
  <2>3. CASE k # "kinetics" /\ saveData[k] = None2
    <3>1. store'[k] = store[k]
      BY <1>1, <2>3, KineticsBackEntries DEF Save
    <3>2. Map!AfterReaction(k, use, saveData, count) = user[k]
      BY <2>3 DEF Map!AfterReaction
    <3> QED
      BY <3>1, <3>2
  <2>4. CASE k # "kinetics" /\ saveData[k] # None2 /\ k \in Used
    <3>1. store'[k] = [n \in Slots |-> IF n \in range THEN result[k] ELSE store[k][n]]
      BY <1>1, <2>4, KineticsBackEntries DEF Save
    <3>2. Map!AfterReaction(k, use, saveData, count) =
            [n \in Numbers |-> IF n \in userRange THEN result[k] ELSE store[k][n]]
      BY <1>2, <2>4 DEF Map!AfterReaction, Used
    <3>3. \A n \in Numbers : n \in range <=> n \in userRange
      OBVIOUS
    <3> HIDE DEF range, userRange
    <3> QED
      BY <3>1, <3>2, <3>3
  <2>5. CASE k # "kinetics" /\ saveData[k] # None2 /\ k \notin Used
    <3>1. saveData[k] \in Ranges /\ saveData[k][1] \in Numbers
      BY <1>1, <2>5 DEF UserSaves
    <3>2. store'[k] = Copied(store[k], saveData[k][1], range)
      BY <1>1, <2>5, KineticsBackEntries DEF Save
    <3>3. Map!AfterReaction(k, use, saveData, count)
            = Copied(user[k], saveData[k][1], userRange)
      BY <2>5 DEF Map!AfterReaction, Used
    <3>4. \A n \in Numbers : n \in range <=> n \in userRange
      OBVIOUS
    <3>5. store[k] \in [Slots -> Entries \cup {Absent}]
      BY DEF IInv, TypeOK
    <3> HIDE DEF range, userRange
    <3> QED
      BY <3>1, <3>2, <3>3, <3>4, <3>5 DEF Copied
  <2> QED
    BY <2>2, <2>3, <2>4, <2>5
<1> QED
  BY <1>3, <1>4 DEF Map!React

\* The next cell of RUN_CELLS preserves the invariant.
LEMMA NextCellIInv ==
  ASSUME IInv, NextCell
  PROVE  IInv' /\ SameForUser
<1> USE NumbersApart, KindsApart DEF IInv
<1>1. PICK i \in CellsLeft :
        /\ cell' = i /\ use' = UseCell(i) /\ saveData' = SaveCell(i)
        /\ save' = [k \in Saved |-> IF UseCell(i)[k] # None THEN <<Working, Working>>
                                                            ELSE None2]
        /\ store' = [k \in Kinds |-> Copied(store[k], i, {Working})]
  BY DEF NextCell
<1>2. /\ pc = "cells" /\ pc' = "step" /\ step' = 1 /\ task' = "cell"
      /\ count' \in 1..MaxSteps
      /\ UNCHANGED <<incremental, other, newDefs, copies, new_copy, deletes, cells, result,
                     simulation, keywords, aborted, carried>>
  BY DEF NextCell, requestVars, historyVars
<1>3. i \in Numbers /\ i \in Slots /\ i # None /\ store["solution"][i] # Absent
  BY DEF CellsLeft, TypeOK
<1>4. ASSUME NEW k \in Kinds
      PROVE  /\ store'[k] \in [Slots -> Entries \cup {Absent}]
             /\ \A n \in Numbers : store'[k][n] = store[k][n]
             /\ store[k][i] # Absent => store'[k][Working] = store[k][i]
             /\ \A n \in Slots : \E m \in Slots : store'[k][n] = store[k][m]
  <2>1. store[k] \in [Slots -> Entries \cup {Absent}]
    BY DEF TypeOK
  <2>2. store'[k] = [n \in Slots |-> IF n \in {Working} /\ store[k][i] # Absent
                                       THEN store[k][i] ELSE store[k][n]]
    BY <1>1, <2>1 DEF Copied
  <2> QED
    BY <1>3, <2>1, <2>2
<1>5. store' \in [Kinds -> [Slots -> Entries \cup {Absent}]] /\ SameForUser
  BY <1>1, <1>4 DEF SameForUser
<1>6. \A k \in Kinds : (store[k][i] # Absent /\ use'[k] = i)
                         \/ (store[k][i] = Absent /\ use'[k] = None)
  BY <1>1 DEF UseCell
<1>7. saveData' \in UserSaves
  <2>1. <<i, i>> \in Ranges
    BY <1>3, ReactantsAssumption DEF Ranges
  <2> QED
    BY <1>1, <2>1 DEF SaveCell, UserSaves
<1>8. TypeOK'
  <2>1. use' \in Uses
    BY <1>1, <1>3 DEF UseCell, Uses
  <2>2. save' \in Saves
    BY <1>1 DEF Saves
  <2>3. count' \in 0..MaxSteps /\ step' \in 0..MaxSteps
    BY <1>2, ReactantsAssumption
  <2> QED
    BY <1>1, <1>2, <1>3, <1>5, <1>7, <2>1, <2>2, <2>3, Defaults DEF TypeOK
<1>9. StepsStand'
  <2>1. 1 <= step' /\ step' <= count'
    BY <1>2, ReactantsAssumption
  <2>2. "solution" \in Used'
    BY <1>3, <1>6 DEF Used
  <2>3. AllFound(store', use')
    <3> SUFFICES ASSUME NEW k \in Kinds, use'[k] # None PROVE store'[k][use'[k]] # Absent
      BY DEF AllFound
    <3>1. use'[k] = i /\ store[k][i] # Absent
      BY <1>6
    <3> QED
      BY <1>3, <1>4, <3>1
  <2>4. save' = SaveToWorking'
    BY <1>1 DEF SaveToWorking, Used
  <2>5. UseCell(cell)' = UseCell(i) /\ SaveCell(cell)' = SaveCell(i)
    <3>1. cell' = i /\ \A k \in Kinds : store'[k][i] = store[k][i]
      BY <1>1, <1>3, <1>5 DEF SameForUser
    <3> QED
      BY <3>1 DEF UseCell, SaveCell
  <2> QED
    BY <1>1, <1>3, <1>7, <2>1, <2>2, <2>3, <2>4, <2>5 DEF StepsStand
<1>10. WorkingCopies'
  <2> SUFFICES ASSUME NEW k \in Kinds, use'[k] # None
               PROVE  /\ store'[k][Working] # Absent
                      /\ store'[k][Working] = store'[k][use'[k]]
    BY <1>2 DEF WorkingCopies, Used
  <2>1. use'[k] = i /\ store[k][i] # Absent
    BY <1>6
  <2>2. store'[k][i] = store[k][i] /\ store'[k][Working] = store[k][i]
    BY <1>3, <1>4, <2>1
  <2> QED
    BY <2>1, <2>2
<1>11. ResultOfSteps' /\ SavesOfUser' /\ Requests'
  BY <1>2 DEF ResultOfSteps, SavesOfUser, Requests, RequestsCarriedOutOnce
<1>12. NewOnes'
  <2> SUFFICES ASSUME ~aborted, NEW k \in Kinds, NEW n \in Slots,
                      store'[k][n] # Absent, store'[k][n].new
               PROVE  FALSE
    BY <1>2 DEF NewOnes
  <2>1. \A m \in Slots : store[k][m] # Absent => ~store[k][m].new
    BY <1>2 DEF NewOnes
  <2>2. \E m \in Slots : store'[k][n] = store[k][m]
    BY <1>4
  <2> QED
    BY <2>1, <2>2
<1> QED
  BY <1>5, <1>8, <1>9, <1>10, <1>11, <1>12

\* The requests carried out at the end of a simulation preserve the invariant.
LEMMA EndIInv ==
  ASSUME IInv, CellsDone \/ CopyEntity \/ CopyDone \/ DumpEntities \/ DeleteEntities
  PROVE  IInv'
<1> USE NumbersApart DEF IInv
<1>1. CASE CellsDone
  <2> USE <1>1 DEF CellsDone, inputVars, historyVars
  <2>1. TypeOK'
    BY DEF TypeOK
  <2>2. StepsStand' /\ WorkingCopies' /\ ResultOfSteps' /\ SavesOfUser'
    BY DEF StepsStand, StepPcs, WorkingCopies, ResultOfSteps, SavesOfUser
  <2>3. Requests' /\ NewOnes'
    BY DEF Requests, RequestsCarriedOutOnce, NewOnes
  <2> QED
    BY <2>1, <2>2, <2>3
<1>2. CASE CopyEntity
  <2> DEFINE c == Head(copies)
  <2>1. /\ pc = "copy" /\ pc' = "copy" /\ copies' = Tail(copies) /\ new_copy = "yes"
        /\ store' = [store EXCEPT ![c.kind] = Copied(@, c.from, c.to[1]..c.to[2])]
        /\ UNCHANGED <<incremental, use, other, save, newDefs, new_copy, deletes, cells, saveData,
                       task, cell, count, step, result, simulation, keywords, aborted, carried>>
    BY <1>2 DEF CopyEntity, inputVars, workVars, historyVars
  <2>2. copies # <<>> /\ copies \in Seq(Copies)
    BY <1>2 DEF CopyEntity, TypeOK
  <2>3. c \in Copies /\ Tail(copies) \in Seq(Copies)
    BY <2>2
  <2>4. c.kind \in Kinds /\ c.from \in Slots
    BY <2>3 DEF Copies
  <2> HIDE DEF c
  <2> DEFINE targets == c.to[1]..c.to[2]
  <2> HIDE DEF targets
  <2>5. store[c.kind] \in [Slots -> Entries \cup {Absent}]
    BY <2>4 DEF TypeOK
  <2>6. store' = [store EXCEPT ![c.kind] = Copied(store[c.kind], c.from, targets)]
    BY <2>1 DEF targets
  <2>7. /\ store' \in [Kinds -> [Slots -> Entries \cup {Absent}]]
        /\ \A k \in Kinds, n \in Slots : \E m \in Slots : store'[k][n] = store[k][m]
    <3>1. Copied(store[c.kind], c.from, targets) \in [Slots -> Entries \cup {Absent}]
      BY <2>4, <2>5, CopiedEntries
    <3>2. \A n \in Slots : \E m \in Slots :
            Copied(store[c.kind], c.from, targets)[n] = store[c.kind][m]
      BY <2>4, <2>5 DEF Copied
    <3> QED
      BY <2>4, <2>6, <3>1, <3>2 DEF TypeOK
  <2>8. TypeOK'
    BY <2>1, <2>3, <2>7 DEF TypeOK
  <2>9. StepsStand' /\ WorkingCopies' /\ ResultOfSteps' /\ SavesOfUser' /\ Requests'
    BY <2>1 DEF StepsStand, StepPcs, WorkingCopies, ResultOfSteps, SavesOfUser, Requests,
      RequestsCarriedOutOnce
  <2>10. NewOnes'
    BY <2>1, <2>7 DEF NewOnes
  <2> QED
    BY <2>8, <2>9, <2>10
<1>3. CASE CopyDone
  <2> USE <1>3 DEF CopyDone, inputVars, requestVars, workVars, historyVars
  <2>1. TypeOK'
    BY DEF TypeOK
  <2>2. StepsStand' /\ WorkingCopies' /\ ResultOfSteps' /\ SavesOfUser'
    BY DEF StepsStand, StepPcs, WorkingCopies, ResultOfSteps, SavesOfUser
  <2>3. Requests' /\ NewOnes'
    BY DEF Requests, RequestsCarriedOutOnce, NewOnes
  <2> QED
    BY <2>1, <2>2, <2>3
<1>4. CASE DumpEntities
  <2>1. CASE Abort /\ UNCHANGED <<store, new_copy>>
    BY <2>1, AbortIInv DEF TypeOK
  <2>2. CASE ~(Abort /\ UNCHANGED new_copy)
    <3> USE <1>4, <2>2 DEF DumpEntities, inputVars, requestVars, workVars, historyVars
    <3>1. TypeOK'
      BY DEF TypeOK
    <3>2. StepsStand' /\ WorkingCopies' /\ ResultOfSteps' /\ SavesOfUser'
      BY DEF StepsStand, StepPcs, WorkingCopies, ResultOfSteps, SavesOfUser
    <3>3. Requests' /\ NewOnes'
      BY DEF Requests, RequestsCarriedOutOnce, NewOnes
    <3> QED
      BY <3>1, <3>2, <3>3
  <2> QED
    BY <1>4, <2>1, <2>2 DEF DumpEntities
<1>5. CASE DeleteEntities
  <2> USE <1>5 DEF DeleteEntities, inputVars, workVars, historyVars
  <2>1. TypeOK'
    BY Defaults DEF TypeOK
  <2>2. StepsStand' /\ WorkingCopies' /\ ResultOfSteps' /\ SavesOfUser'
    BY DEF StepsStand, StepPcs, WorkingCopies, ResultOfSteps, SavesOfUser
  <2>3. Requests'
    BY DEF Requests, Requested, RequestsCarriedOutOnce
  <2>4. NewOnes'
    BY DEF NewOnes
  <2> QED
    BY <2>1, <2>2, <2>3, <2>4
<1> QED
  BY <1>1, <1>2, <1>3, <1>4, <1>5

--------------------------------------------------------------------------------
(* The properties *)

\* Steps that stutter preserve the invariant.
LEMMA StutterIInv == IInv /\ UNCHANGED vars => IInv'
<1> SUFFICES ASSUME IInv, UNCHANGED vars PROVE IInv'
  OBVIOUS
<1> USE DEF vars, inputVars, requestVars, workVars, historyVars, IInv
<1>1. TypeOK'
  BY DEF TypeOK
<1>2. StepsStand' /\ WorkingCopies'
  BY DEF StepsStand, StepPcs, WorkingCopies, SaveToWorking, Used, UseCell, SaveCell,
    AllFound
<1>3. ResultOfSteps' /\ SavesOfUser' /\ Requests' /\ NewOnes'
  BY DEF ResultOfSteps, Used, SavesOfUser, Requests, Requested, RequestsCarriedOutOnce,
    NewOnes
<1> QED
  BY <1>1, <1>2, <1>3

\* The invariant is inductive.
THEOREM Invariant == Spec => []IInv
<1>1. IInv /\ [Next]_vars => IInv'
  BY StutterIInv, ReadingIInv, InitialIInv, ReactionsIInv, RunStepIInv, StepSaveIInv,
    LastSaveIInv, NextCellIInv, EndIInv DEF Next
<1> QED
  BY <1>1, InitIInv, PTL DEF Spec

\* Every variable keeps its type.
THEOREM TypeCorrect == Spec => []TypeOK
<1>1. IInv => TypeOK
  BY DEF IInv
<1> QED
  BY <1>1, Invariant, PTL

\* No reaction starts from an entry whose initial calculation is still to be
\* made, as long as no run was stopped.
THEOREM NewAreCalculatedBeforeUse == Spec => []NewAreCalculatedUnlessStopped
<1>1. IInv => NewAreCalculatedUnlessStopped
  <2> SUFFICES ASSUME IInv, ~aborted, pc = "step", NEW k \in Used
               PROVE  ~store[k][Working].new
    BY DEF NewAreCalculatedUnlessStopped, NewAreCalculated
  <2>1. k \in Kinds /\ store[k][Working] # Absent
    BY DEF IInv, WorkingCopies, Used
  <2> QED
    BY <2>1, NumbersApart DEF IInv, NewOnes
<1> QED
  BY <1>1, Invariant, PTL

\* COPY, DELETE and RUN_CELLS do not act a second time, unless a run was stopped.
THEOREM RequestsOnce == Spec => []RequestsCarriedOutOnce
<1>1. IInv => RequestsCarriedOutOnce
  BY DEF IInv, Requests
<1> QED
  BY <1>1, Invariant, PTL

\* A reaction of several steps, however it is divided, is one step of the map.
THEOREM ReactionsAreAtomic == Spec => ReactionsAtomic
<1>1. ASSUME IInv, [Next]_vars, pc = "lastSave", ~UNCHANGED vars
      PROVE  Map!React(IF task = "cell" THEN UseCell(cell) ELSE use,
                       IF task = "cell" THEN SaveCell(cell) ELSE saveData, count)
  <2>1. LastSave
    BY <1>1 DEF Next, BeginSimulation, Read, EndRead, InitialCalculation, InitialDone,
      Reactions, RunStep, StepSave, NextCell, CellsDone, CopyEntity, CopyDone, DumpEntities,
      DeleteEntities, ReadKeyword, ReadDefinition, ReadReaction, ReadIncremental, ReadUse,
      ReadSave, ReadCopy, ReadDelete, ReadRunCells
  <2>2. task = "cell" => use = UseCell(cell) /\ saveData = SaveCell(cell)
    BY <1>1 DEF IInv, StepsStand, StepPcs
  <2>3. /\ (IF task = "cell" THEN UseCell(cell) ELSE use) = use
        /\ (IF task = "cell" THEN SaveCell(cell) ELSE saveData) = saveData
    BY <2>2
  <2>4. Map!React(use, saveData, count)
    BY <1>1, <2>1, LastSaveReacts
  <2> QED
    BY <2>3, <2>4 DEF Map!React
<1>2. IInv /\ [Next]_vars =>
        [pc = "lastSave" =>
           Map!React(IF task = "cell" THEN UseCell(cell) ELSE use,
                     IF task = "cell" THEN SaveCell(cell) ELSE saveData, count)]_vars
  BY <1>1
<1> QED
  BY <1>2, Invariant, PTL DEF Spec, ReactionsAtomic

\* Steps that leave the reactants of the user alone stutter in ReactantMap.
LEMMA SameForUserStutters ==
  ASSUME SameForUser
  PROVE  UNCHANGED [k \in Kinds |-> [n \in Numbers |-> store[k][n]]]
BY DEF SameForUser

\* A definition is one of ReactantMap.
LEMMA DefinitionDefines ==
  ASSUME IInv, NEW k \in Kinds, NEW n \in Numbers, ReadDefinition(k, n)
  PROVE  Map!Define(k, n)
<1> DEFINE user == [l \in Kinds |-> [m \in Numbers |-> store[l][m]]]
           entry == [definedBy |-> simulation, new |-> k # "kinetics", reacted |-> 0]
<1>1. entry \in Entries /\ entry.reacted = 0
  BY DEF Entries, IInv, TypeOK
<1> HIDE DEF entry
<1>2. store' = [store EXCEPT ![k][n] = entry]
  BY DEF ReadDefinition, entry
<1>3. user'[k][n] = entry
  BY <1>2, NumbersApart DEF IInv, TypeOK
<1>4. user' = [user EXCEPT ![k][n] = entry]
  BY <1>2, NumbersApart DEF IInv, TypeOK
<1> HIDE DEF user
<1>5. user'[k][n] \in Entries /\ user'[k][n].reacted = 0
      /\ user' = [user EXCEPT ![k][n] = user'[k][n]]
  BY <1>1, <1>3, <1>4
<1> QED
  BY <1>5, SameReactants DEF Map!Define, user

\* An initial calculation is one of ReactantMap.
LEMMA CalculationCalculates ==
  ASSUME IInv, NEW k \in Kinds, NEW n \in ToCalculate(k),
         store' = [store EXCEPT ![k][n] = Calculated(@)]
  PROVE  n \in Numbers /\ Map!Calculate(k, n)
<1>1. n \in Numbers /\ store[k][n] # Absent
  BY DEF ToCalculate, IInv, TypeOK
<1>2. [l \in Kinds |-> [m \in Numbers |-> store'[l][m]]] =
        [[l \in Kinds |-> [m \in Numbers |-> store[l][m]]]
           EXCEPT ![k][n] = Calculated(store[k][n])]
  BY <1>1, NumbersApart DEF IInv, TypeOK
<1> QED
  BY <1>1, <1>2, SameReactants DEF Map!Calculate

\* COPY is that of ReactantMap.
LEMMA CopyCopies ==
  ASSUME IInv, CopyEntity
  PROVE  \E k \in Kinds, n \in Numbers, targets \in SUBSET Numbers : Map!Copy(k, n, targets)
<1> DEFINE c == Head(copies)
           user == [k \in Kinds |-> [n \in Numbers |-> store[k][n]]]
<1>1. c \in Copies
  BY DEF IInv, TypeOK, CopyEntity
<1>2. c.kind \in Kinds /\ c.from \in Numbers
  BY <1>1 DEF Copies
<1>3. store' = [store EXCEPT ![c.kind] = Copied(@, c.from, c.to[1]..c.to[2])]
  BY DEF CopyEntity
<1> HIDE DEF c
<1> DEFINE targets == {n \in Numbers : n \in c.to[1]..c.to[2]}
<1>4. targets \in SUBSET Numbers
  OBVIOUS
<1>5. \A n \in Numbers : n \in targets <=> n \in c.to[1]..c.to[2]
  OBVIOUS
<1> HIDE DEF targets
<1>6. store[c.kind] \in [Slots -> Entries \cup {Absent}]
  BY <1>2 DEF IInv, TypeOK
<1>7. [n \in Numbers |-> Copied(store[c.kind], c.from, c.to[1]..c.to[2])[n]]
        = Copied(user[c.kind], c.from, targets)
  BY <1>2, <1>5, <1>6, NumbersApart DEF Copied
<1>8. user' = [user EXCEPT ![c.kind] = Copied(@, c.from, targets)]
  BY <1>2, <1>3, <1>7 DEF IInv, TypeOK
<1>9. PICK k \in Kinds, n \in Numbers, t \in SUBSET Numbers :
        user' = [user EXCEPT ![k] = Copied(@, n, t)]
  <2> HIDE DEF user
  <2> QED
    BY <1>2, <1>4, <1>8 DEF Copied
<1>10. Map!Copy(k, n, t)
  BY <1>9, SameReactants DEF Map!Copy
<1> QED
  BY <1>10

\* DELETE is that of ReactantMap.
LEMMA DeleteDeletes ==
  ASSUME IInv, DeleteEntities
  PROVE  \E deleted \in [Kinds -> SUBSET Numbers] : Map!Delete(deleted)
<1> DEFINE InList(k, n) == deletes[k].defined /\ (deletes[k].numbers = {}
                                                    \/ n \in deletes[k].numbers)
           deleted == [k \in Kinds |-> {n \in Numbers : InList(k, n)}]
<1>1. store' = [k \in Kinds |-> [n \in Slots |->
                  IF InList(k, n) THEN Absent ELSE store[k][n]]]
  BY DEF DeleteEntities
<1> HIDE DEF InList
<1>2. deleted \in [Kinds -> SUBSET Numbers]
  OBVIOUS
<1>3. [k \in Kinds |-> [n \in Numbers |-> store'[k][n]]] =
        [k \in Kinds |-> [n \in Numbers |->
           IF n \in deleted[k] THEN Absent ELSE store[k][n]]]
  BY <1>1, NumbersApart
<1>4. Map!Delete(deleted)
  BY <1>3, SameReactants DEF Map!Delete
<1> HIDE DEF deleted
<1> QED
  BY <1>2, <1>4 DEF Map!Delete

\* Every step of the engine is one of ReactantMap, or none.
LEMMA StepRefines ==
  ASSUME IInv, Next
  PROVE  Map!Next \/ SameForUser
<1>1. ASSUME BeginSimulation \/ EndRead \/ InitialDone \/ CellsDone \/ CopyDone \/ DumpEntities
      PROVE  SameForUser
  BY <1>1 DEF BeginSimulation, EndRead, InitialDone, CellsDone, CopyDone, DumpEntities,
    SameForUser
<1>2. CASE Read
  <2>1. ASSUME NEW k \in Kinds, NEW n \in Numbers, ReadDefinition(k, n) PROVE Map!Next
    BY <2>1, DefinitionDefines, SameReactants DEF Map!Next
  <2> QED
    BY <1>2, <2>1 DEF Read, ReadReaction, ReadIncremental, ReadUse, ReadSave, ReadCopy,
      ReadDelete, ReadRunCells, SameForUser
<1>3. ASSUME NEW k \in Kinds, InitialCalculation(k) PROVE Map!Next \/ SameForUser
  <2>1. ASSUME NEW n \in ToCalculate(k), store' = [store EXCEPT ![k][n] = Calculated(@)]
        PROVE  Map!Next
    BY <2>1, CalculationCalculates, SameReactants DEF Map!Next
  <2> QED
    BY <1>3, <2>1 DEF InitialCalculation, SameForUser
<1>4. CASE LastSave
  <2>1. Map!React(use, saveData, count)
    BY <1>4, LastSaveReacts
  <2>2. /\ use \in [Kinds -> Numbers \cup {None}] /\ saveData \in [Saved -> Ranges \cup {None2}]
        /\ count \in 1..MaxSteps
    <3>1. count \in 0..MaxSteps /\ 1 <= step /\ step <= count /\ step \in 0..MaxSteps
      BY <1>4 DEF LastSave, IInv, TypeOK, StepsStand, StepPcs
    <3>2. count \in 1..MaxSteps
      BY <3>1, ReactantsAssumption
    <3> QED
      BY <1>4, <3>2 DEF LastSave, IInv, TypeOK, StepsStand, StepPcs, Uses, UserSaves
  <2>3. \E u \in [Kinds -> Numbers \cup {None}], s \in [Saved -> Ranges \cup {None2}],
           steps \in 1..MaxSteps : Map!React(u, s, steps)
    BY <2>1, <2>2 DEF Map!React
  <2> QED
    BY <2>3, SameReactants DEF Map!Next
<1>5. CASE CopyEntity
  BY <1>5, CopyCopies, SameReactants DEF Map!Next
<1>6. CASE DeleteEntities
  BY <1>6, DeleteDeletes, SameReactants DEF Map!Next
<1> QED
  BY <1>1, <1>2, <1>3, <1>4, <1>5, <1>6, ReactionsIInv, RunStepIInv, StepSaveIInv,
    NextCellIInv DEF Next

\* ReactantStore implements ReactantMap.
THEOREM StoreImplementsMap == Spec => StoreSpec
<1>1. Init => Map!Init
  <2> SUFFICES ASSUME Init PROVE Map!Init
    OBVIOUS
  <2>1. store \in [Kinds -> [Slots -> Entries \cup {Absent}]]
    BY InitIInv DEF IInv, TypeOK
  <2> QED
    BY <2>1, NumbersApart, SameReactants DEF Map!Init
<1>2. IInv /\ [Next]_vars
        => [Map!Next]_([k \in Kinds |-> [n \in Numbers |-> store[k][n]]])
  <2>1. IInv /\ Next
          => Map!Next \/ UNCHANGED [k \in Kinds |-> [n \in Numbers |-> store[k][n]]]
    BY StepRefines, SameForUserStutters
  <2>2. UNCHANGED vars => UNCHANGED [k \in Kinds |-> [n \in Numbers |-> store[k][n]]]
    BY DEF vars
  <2> QED
    BY <2>1, <2>2
<1> QED
  BY <1>1, <1>2, Invariant, PTL DEF Spec, StoreSpec, Map!Spec
===============================================================================
