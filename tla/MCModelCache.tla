------------------------------ MODULE MCModelCache -----------------------------
(* ModelCache for TLC: seven sets of reactants that differ in one kind or option   *)
(* at least, and stops at every place a calculation can be stopped.               *)
EXTENDS ModelCache

Water == [totals |-> <<"Ca", "C">>, exchange |-> <<>>, pp |-> <<>>, gas |-> None, ss |-> <<>>,
          surface |-> None]
Phases(add) == <<[phase |-> "Calcite", add |-> add], [phase |-> "CO2(g)", add |-> ""]>>
Gas(v, comps) == [volume |-> v, real |-> TRUE, comps |-> comps]
Site(f, m, phase) == [formula |-> f, master |-> m, charge |-> "Hfo", phase |-> phase]
Sorbing(type, dl, comps) == [type |-> type, dl |-> dl, comps |-> comps]
Sites == <<Site("Hfo_sOH", "Hfo_s", ""), Site("Hfo_wOH", "Hfo_w", "")>>
Carbonates(comps) == <<[name |-> "Carbonates", comps |-> comps]>>
X(phase) == <<[master |-> "X", phase |-> phase], [master |-> "X", phase |-> phase]>>

\* A name stands for one definition.
MCUses ==
  {Water,
   [Water EXCEPT !.gas = Gas(TRUE, <<"CO2(g)", "N2(g)">>)],
   [Water EXCEPT !.gas = Gas(FALSE, <<"CO2(g)", "N2(g)">>)],
   [Water EXCEPT !.gas = Gas(TRUE, <<"CO2(g)">>), !.exchange = X("")],
   [Water EXCEPT !.ss = Carbonates(<<"Calcite", "Magnesite">>), !.exchange = X("")],
   [Water EXCEPT !.surface = Sorbing("ddl", "donnan", Sites), !.pp = Phases("")],
   [Water EXCEPT !.surface = Sorbing("cd_music", "none", Sites), !.pp = Phases("HCl")]}

MCStops == {"setup", "build", "solve", "inverse"}

ASSUME MCDescriptionTells == DescriptionTells
====
