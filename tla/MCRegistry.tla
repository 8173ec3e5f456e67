------------------------------ MODULE MCRegistry -------------------------------
(* InstanceRegistry with interchangeable threads and addresses. *)
EXTENDS InstanceRegistry, TLC

MCSymmetry == Permutations(Threads) \cup Permutations(Addresses)

================================================================================
