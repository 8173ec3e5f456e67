------------------------------- MODULE ModelCache -------------------------------
(***************************************************************************)
(* The set of equations of a chemical calculation and its reuse (prep.cpp).*)
(* prep() turns the reactants in use into a vector of unknowns x and lists *)
(* of sums over them, and saves a description of the model (last_model).   *)
(* If the description fits the next calculation, quick_setup() only        *)
(* replaces the moles: the unknowns, the lists and the array of the solver *)
(* are those of an earlier calculation.                                    *)
(*                                                                         *)
(* Reactants are what the equations are made from: names, not amounts.     *)
(* The option -same_model of TRANSPORT, by which the user promises what    *)
(* check_same_model would test, the Pitzer and SIT unknowns and the        *)
(* boundary phases of an initial solution are left out.                    *)
(***************************************************************************)
EXTENDS Integers, SequencesExt

CONSTANTS
  Uses,      \* the reactants of a calculation, see Reactants
  Stops,     \* where a calculation may stop: of "setup", "build", "solve", "inverse"
  MaxReads,  \* bound: times that definitions of the database are read
  None       \* no gas phase, no surface

\* What the equations of a calculation are made from.
Reactants(u) ==
  /\ u.totals \in Seq(STRING)                  \* elements dissolved
  /\ u.exchange \in Seq([master : STRING, phase : STRING])
  /\ u.pp \in Seq([phase : STRING, add : STRING])
  /\ u.gas = None \/ u.gas \in [volume : BOOLEAN, real : BOOLEAN, comps : Seq(STRING)]
  /\ u.ss \in Seq([name : STRING, comps : Seq(STRING)])
  /\ \/ u.surface = None
     \/ u.surface \in [type : {"no_edl", "ddl", "cd_music"}, dl : STRING,
                       comps : Seq([formula : STRING, master : STRING, charge : STRING,
                                    phase : STRING])]

ASSUME ModelAssumption ==
  /\ \A u \in Uses : Reactants(u)
  /\ Stops \subseteq {"setup", "build", "solve", "inverse"}
  /\ MaxReads \in Nat

VARIABLES
  pc,       \* "idle", "prep", "setup" (unknowns made, lists not), "solve"
  state,    \* "initial" or "reaction" (REACTION, ADVECTION, TRANSPORT)
  use,      \* the reactants in use
  reads,    \* the definitions of the database that are in force
  numeric,  \* numerical_fixed_volume
  x,        \* the unknowns and lists; NoModel, Unfinished(...) or a structure
  array,    \* my_array: "none", "model" or "inverse", whom it was allocated for
  known,    \* the master species whose unknown is set
  torn,     \* history: a stop while the lists or an inverse model were made, and no new lists
  last      \* last_model, with the flags of the master species and force_prep

vars == <<pc, state, use, reads, numeric, x, array, known, torn, last>>

--------------------------------------------------------------------------------
(* Unknowns *)

Unknown(type, name, of) == [type |-> type, name |-> name, of |-> of]

\* setup_solution
OfSolution(u, st) ==
  [i \in 1..Len(u.totals) |-> Unknown("MB", u.totals[i], "")]
    \o <<Unknown("MU", "", ""), Unknown("AH2O", "", "")>>
    \o (IF st = "reaction" THEN <<Unknown("CB", "pH", ""), Unknown("MH", "", ""),
                                  Unknown("MH2O", "", "")>>
                           ELSE <<>>)

\* Is a name new to the list of unknowns (master->in, find_surface_charge_unknown)?
IsNew(names, i) == \A j \in 1..(i - 1) : names[j] # names[i]

\* setup_exchange: one unknown for each master; build_min_exch relates it to a phase.
OfExchange(u) ==
  LET masters == [i \in 1..Len(u.exchange) |-> u.exchange[i].master]
  IN FlattenSeq([i \in 1..Len(u.exchange) |->
                   IF IsNew(masters, i)
                     THEN <<Unknown("EXCH", masters[i], u.exchange[i].phase)>> ELSE <<>>])

\* The potentials of a charge.
Planes(type) ==
  CASE type = "no_edl"   -> <<>>
    [] type = "ddl"      -> <<"SURFACE_CB">>
    [] type = "cd_music" -> <<"SURFACE_CB", "SURFACE_CB1", "SURFACE_CB2">>

\* setup_surface: the sites, each with the potentials of its charge if they are not there
\* yet; setup_related_surface relates them to a phase.
OfSurface(u) ==
  IF u.surface = None THEN <<>> ELSE
    LET comps   == u.surface.comps
        charges == [i \in 1..Len(comps) |-> comps[i].charge]
        planes  == Planes(u.surface.type)
    IN FlattenSeq([i \in 1..Len(comps) |->
         <<Unknown("SURFACE", comps[i].master, comps[i].phase)>> \o
         [k \in 1..(IF IsNew(charges, i) THEN Len(planes) ELSE 0) |->
            Unknown(planes[k], charges[i], comps[i].phase)]])

\* setup_pure_phases
OfPhases(u) == [i \in 1..Len(u.pp) |-> Unknown("PP", u.pp[i].phase, u.pp[i].add)]

\* setup_gas_phase, setup_fixed_volume_gas
OfGas(u, num) ==
  IF u.gas = None THEN <<>>
  ELSE IF u.gas.volume /\ u.gas.real /\ num
         THEN [i \in 1..Len(u.gas.comps) |-> Unknown("GAS_MOLES", u.gas.comps[i], "")]
         ELSE <<Unknown("GAS_MOLES", "gas_moles", "")>>

\* setup_ss_assemblage
OfSolidSolutions(u) ==
  FlattenSeq([j \in 1..Len(u.ss) |->
                [i \in 1..Len(u.ss[j].comps) |->
                   Unknown("SS_MOLES", u.ss[j].comps[i], u.ss[j].name)]])

SurfaceLists(u) ==
  IF u.surface = None THEN <<>>
  ELSE <<u.surface.type, u.surface.dl,
         [i \in 1..Len(u.surface.comps) |-> u.surface.comps[i].formula]>>

\* What prep() makes from scratch: the unknowns, and what the lists over them
\* (build_model) depend on besides.
Structure(u, st, num, r) ==
  [unknowns |-> OfSolution(u, st) \o OfExchange(u) \o OfSurface(u) \o OfPhases(u)
                  \o OfGas(u, num) \o OfSolidSolutions(u),
   gas      |-> IF u.gas = None THEN <<>> ELSE u.gas.comps,
   surface  |-> SurfaceLists(u),
   reads    |-> r]

Charges(u) == {u.surface.comps[i].charge : i \in 1..Len(u.surface.comps)}

\* Mutant: the potentials are not counted.
SurfaceCount_NoPotentials(u) == IF u.surface = None THEN 0 ELSE Len(u.surface.comps)

SurfaceCount(u) ==
  IF u.surface = None THEN 0
  ELSE Len(u.surface.comps) + (IF u.surface.type = "cd_music" THEN 4 ELSE 1) * Cardinality(Charges(u))

\* setup_unknowns: the length of x.
MaxUnknowns(u, num) ==
  Len(u.totals) + 5 + Len(u.pp) + Len(u.exchange) + SurfaceCount(u)
    + (IF u.gas = None THEN 0
       ELSE IF u.gas.volume /\ u.gas.real /\ num THEN Len(u.gas.comps) ELSE 1)
    + Len(OfSolidSolutions(u)) + 1

NoModel == [unknowns |-> <<>>, gas |-> <<>>, surface |-> <<>>, reads |-> -1]

\* The unknowns without the lists.
Unfinished(structure) == [structure EXCEPT !.reads = -1]

--------------------------------------------------------------------------------
(* The description of the last model *)

\* The master species with a total in the system; step() leaves no traces.
Totals(u) ==
  Range(u.totals) \cup {u.exchange[i].master : i \in 1..Len(u.exchange)}
    \cup (IF u.surface = None THEN {}
          ELSE {u.surface.comps[i].master : i \in 1..Len(u.surface.comps)})

\* save_model
Description(u, num, force) ==
  [force |-> force, masters |-> Totals(u), numeric |-> num,
   volume |-> u.gas # None /\ u.gas.volume,
   gas |-> IF u.gas = None THEN <<>> ELSE u.gas.comps,
   ss |-> [j \in 1..Len(u.ss) |-> u.ss[j].name],
   pp |-> u.pp,
   surface |-> SurfaceLists(u)]

SavedModel == Description(use, numeric, last.force)

\* Mutant: as long as no reactant changes the model is taken for the same.
Reset_DoesNotForce == [last EXCEPT !.gas = <<>>, !.ss = <<>>, !.pp = <<>>, !.surface = <<>>]

\* reset_last_model
Reset == [last EXCEPT !.force = TRUE, !.gas = <<>>, !.ss = <<>>, !.pp = <<>>, !.surface = <<>>]

\* check_same_model.  The names of the solid solutions are compared, their components
\* are not; what exchangers and surfaces are related to is not compared.  Left out: a model is
\* made anew if the phase or rate that a surface is related to is no longer in the cell.
Fits(d, u, num) ==
  /\ d.masters = Totals(u)
  /\ IF u.gas = None
       THEN d.gas = <<>>
       ELSE d.gas = u.gas.comps /\ d.numeric = num /\ d.volume = u.gas.volume
  /\ d.ss = [j \in 1..Len(u.ss) |-> u.ss[j].name]
  /\ d.pp = u.pp
  /\ d.surface = SurfaceLists(u)

SameModel == ~last.force /\ Fits(last, use, numeric) /\ last.masters \subseteq known

--------------------------------------------------------------------------------
(* Calculations *)

Idle(next) == pc = "idle" /\ pc' = next

\* tidy_model() when definitions of the database have been read.
TidyModel ==
  /\ Idle("idle") /\ reads < MaxReads
  /\ reads' = reads + 1
  /\ last' = Reset
  /\ UNCHANGED <<state, use, numeric, x, array, known, torn>>

\* advection() and transport() have the first model prepared anew.
StartOfColumn ==
  /\ Idle("idle")
  /\ last' = [last EXCEPT !.force = TRUE]
  /\ UNCHANGED <<state, use, reads, numeric, x, array, known, torn>>

\* The initial calculations, or a reaction step after step().
Start ==
  /\ Idle("prep")
  /\ \E u \in Uses : \E st \in {"initial", "reaction"} : use' = u /\ state' = st
  /\ UNCHANGED <<reads, numeric, x, array, known, torn, last>>

\* prep(): the model is the same.
QuickSetup ==
  /\ pc = "prep" /\ state = "reaction" /\ SameModel /\ array # "none"
  /\ pc' = "solve"
  /\ last' = SavedModel
  /\ UNCHANGED <<state, use, reads, numeric, x, array, known, torn>>

\* Mutant: the unknowns of the calculation before are not cleared.
Setup_KeepsUnknowns ==
  /\ pc = "prep"
  /\ ~(state = "reaction" /\ SameModel /\ array # "none")
  /\ pc' = "setup"
  /\ last' = [last EXCEPT !.force = (state = "initial")]
  /\ LET new == Unfinished(Structure(use, state, numeric, reads))
     IN x' = [new EXCEPT !.unknowns = x.unknowns \o @]
  /\ array' = "none"
  /\ known' = Totals(use)
  /\ UNCHANGED <<state, use, reads, numeric, torn>>

\* prep(): clear() and the unknowns.
Setup ==
  /\ pc = "prep"
  /\ ~(state = "reaction" /\ SameModel /\ array # "none")
  /\ pc' = "setup"
  /\ last' = [last EXCEPT !.force = (state = "initial")]
  /\ x' = Unfinished(Structure(use, state, numeric, reads))
  /\ array' = "none"
  /\ known' = Totals(use)
  /\ UNCHANGED <<state, use, reads, numeric, torn>>

\* The errors counted meanwhile stop the run.
SetupStops ==
  /\ pc = "setup" /\ "setup" \in Stops
  /\ pc' = "idle"
  /\ UNCHANGED <<state, use, reads, numeric, x, array, known, torn, last>>

\* build_model(), with save_model() at its end.
BuildModel ==
  /\ pc = "setup"
  /\ pc' = "solve"
  /\ x' = Structure(use, state, numeric, reads)
  /\ array' = "model"
  /\ last' = SavedModel
  /\ torn' = FALSE
  /\ UNCHANGED <<state, use, reads, numeric, known>>

\* An equation that cannot be written stops the run, or the errors counted do at the end:
\* the array has its size by then and the lists are not complete.
BuildStops ==
  /\ pc = "setup" /\ "build" \in Stops
  /\ pc' = "idle"
  /\ array' = "model"
  /\ torn' = TRUE
  /\ last' \in {last, SavedModel}
  /\ UNCHANGED <<state, use, reads, numeric, x, known>>

\* calc_gas_pressures() in the middle of the iterations: the gas phase is to be solved
\* with one unknown for each component.
SwitchToNumeric ==
  /\ pc = "solve" /\ state = "reaction" /\ ~numeric
  /\ use.gas # None /\ use.gas.volume /\ use.gas.real
  /\ numeric' = TRUE
  /\ pc' = "prep"
  /\ UNCHANGED <<state, use, reads, x, array, known, torn, last>>

\* switch_bases() and reprep(): the lists are made again for the same unknowns.
Reprep ==
  /\ pc = "solve"
  /\ \/ /\ x' = [Structure(use, state, numeric, reads) EXCEPT !.unknowns = x.unknowns]
        /\ last' = SavedModel
        /\ UNCHANGED <<pc, torn>>
     \/ /\ "build" \in Stops
        /\ x' = Unfinished(x)
        /\ pc' = "idle" /\ torn' = TRUE
        /\ last' \in {last, SavedModel}
  /\ UNCHANGED <<state, use, reads, numeric, array, known>>

\* The end of set_and_run_wrapper().
Solved ==
  /\ pc = "solve"
  /\ pc' = "idle"
  /\ numeric' = IF state = "reaction" THEN FALSE ELSE numeric
  /\ UNCHANGED <<state, use, reads, x, array, known, torn, last>>

\* No convergence, or an error in a rate or in a Basic program.
SolveStops ==
  /\ pc = "solve" /\ "solve" \in Stops
  /\ pc' = "idle"
  /\ UNCHANGED <<state, use, reads, numeric, x, array, known, torn, last>>

\* Inverse modelling uses the array of the solver for its own, and frees it.
InverseModels ==
  /\ Idle("idle")
  /\ \/ array' = "none" /\ UNCHANGED torn
     \/ "inverse" \in Stops /\ array' = "inverse" /\ torn' = TRUE
  /\ UNCHANGED <<state, use, reads, numeric, x, known, last>>

Init ==
  /\ pc = "idle" /\ state = "initial" /\ use \in Uses /\ reads = 0
  /\ numeric = FALSE
  /\ x = NoModel /\ array = "none" /\ known = {} /\ torn = FALSE
  /\ last = [force |-> TRUE, masters |-> {}, numeric |-> FALSE, volume |-> FALSE,
             gas |-> <<>>, ss |-> <<>>, pp |-> <<>>, surface |-> <<>>]

Next ==
  \/ TidyModel \/ StartOfColumn \/ Start \/ InverseModels
  \/ QuickSetup \/ Setup \/ SetupStops \/ BuildModel \/ BuildStops
  \/ SwitchToNumeric \/ Reprep \/ Solved \/ SolveStops

Spec == Init /\ [][Next]_vars

--------------------------------------------------------------------------------
(* Properties *)

\* Of the reactants: those with the same description have the same equations.  It is an
\* assumption of the user's names, one definition each, and of the program's description.
DescriptionTells ==
  \A u, v \in Uses : \A num, before \in BOOLEAN :
    Fits(Description(v, before, FALSE), u, num) =>
      \A r \in 0..MaxReads :
        Structure(v, "reaction", before, r) = Structure(u, "reaction", num, r)

AllUnknowns == {Structure(u, st, num, 0).unknowns :
                  u \in Uses, st \in {"initial", "reaction"}, num \in BOOLEAN}

TypeOK ==
  /\ pc \in {"idle", "prep", "setup", "solve"}
  /\ state \in {"initial", "reaction"}
  /\ use \in Uses
  /\ reads \in 0..MaxReads
  /\ numeric \in BOOLEAN
  /\ x.unknowns \in {<<>>} \cup AllUnknowns /\ x.reads \in -1..MaxReads
  /\ array \in {"none", "model", "inverse"}
  /\ torn \in BOOLEAN
  /\ known \in {{}} \cup {Totals(u) : u \in Uses}

\* "If model is same, just update masses, don`t rebuild unknowns and lists" (prep): the
\* equations that are solved are those that prep() would make from scratch for the
\* reactants in use, whatever was calculated, read or stopped before.
SolvesItsOwnModel ==
  pc = "solve" => x = Structure(use, state, numeric, reads) /\ array = "model"

\* The same of runs that were not stopped while the lists or an inverse model were made:
\* a stop there leaves the array with a size, which prep() takes for a model that is whole.
SolvesItsOwnModelUnlessTorn == ~torn => SolvesItsOwnModel

\* The unknowns fit the vector that setup_unknowns has made for them, and the one beyond
\* the last, which adjust_setup_solution writes to, is still in it.
UnknownsFit ==
  pc = "setup" => Len(x.unknowns) < MaxUnknowns(use, numeric)
===============================================================================
