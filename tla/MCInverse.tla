------------------------------- MODULE MCInverse -------------------------------
(* InverseSearch with two initial solutions, a final one and three phases, for  *)
(* no model at all, or any two and the mixture of them (the solutions of a       *)
(* linear program are a convex set: what two of them need, a third one needs),   *)
(* and with ints of IntBits bits in place of 32.                                 *)
EXTENDS InverseSearch

MCModels == {m \cup {Final} : m \in SUBSET (0..(Final - 1))}
MCModelSets == {{}} \cup {{m, n, m \cup n} : m, n \in MCModels}

================================================================================
