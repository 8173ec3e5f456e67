---------------------------- MODULE MCReactantStore ---------------------------
(* ReactantStore for TLC: solutions, exchangers and kinetic reactants of two      *)
(* numbers, one of them defined by an earlier run.                               *)
EXTENDS ReactantStore
MCAssemblages == {"exchange"}
MCNumbers == 1..2
MCDefined == {1}
====
